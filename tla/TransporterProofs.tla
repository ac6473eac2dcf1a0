------------------------- MODULE TransporterProofs -------------------------
(***************************************************************************)
(* Theorems about Transporter, for every set of packets, batch size and    *)
(* number of packets and frames.  Every safety property of the module      *)
(* follows from one inductive invariant, SafetyInductive: the queues keep  *)
(* every packet in order because the two threads only meet in the states   *)
(* that ThreadsCoupled, PortCoupled and HandsCoupled allow.                *)
(***************************************************************************)
EXTENDS Transporter, SequenceTheorems, TLAPS

-----------------------------------------------------------------------------
(* Moving packets from one queue to the next. *)

\* Appending a packet to the last queue appends it to the whole.
LEMMA AppendToLast ==
  ASSUME NEW S, NEW s \in Seq(S), NEW t \in Seq(S), NEW e \in S
  PROVE  s \o Append(t, e) = Append(s \o t, e)
<1>1. /\ s \o t \in Seq(S)
      /\ Append(t, e) = t \o <<e>>
      /\ <<e>> \in Seq(S)
  BY ConcatProperties, AppendIsConcat
<1>2. Append(s \o t, e) = (s \o t) \o <<e>>
  BY <1>1, AppendIsConcat
<1>3. QED  BY <1>1, <1>2, ConcatAssociative

\* Moving the head of a queue to the end of the one before it.
LEMMA MoveHead ==
  ASSUME NEW S, NEW s \in Seq(S), NEW t \in Seq(S), t # <<>>
  PROVE  Append(s, Head(t)) \o Tail(t) = s \o t
<1>1. Head(t) \in S /\ Tail(t) \in Seq(S)
  BY HeadTailProperties
<1>2. <<Head(t)>> \in Seq(S) /\ Append(s, Head(t)) = s \o <<Head(t)>>
  BY <1>1, AppendIsConcat
<1>3. (s \o <<Head(t)>>) \o Tail(t) = s \o (<<Head(t)>> \o Tail(t))
  BY <1>1, <1>2, ConcatAssociative
<1>4. <<Head(t)>> \o Tail(t) = t
  <2>1. Len(t) \in Nat \ {0}
    BY EmptySeq
  <2>2. t = SubSeq(t, 1, Len(t)) /\ Tail(t) = SubSeq(t, 2, Len(t))
    BY SubSeqFull, TailIsSubSeq
  <2>3. SubSeq(t, 1, Len(t)) = <<t[1]>> \o SubSeq(t, 1 + 1, Len(t))
    BY <2>1, SubSeqRecursiveFirst
  <2>4. QED  BY <2>2, <2>3
<1>5. QED  BY <1>2, <1>3, <1>4


\* What the steps do to the type of a queue.
LEMMA QueueTypes ==
  /\ <<>> \in Seq(Packets)
  /\ \A s, t \in Seq(Packets) : s \o t \in Seq(Packets)
BY EmptySeq, ConcatProperties

\* Every step keeps the types.
LEMMA TypeStep ==
  ASSUME TypeOK, [Next]_vars
  PROVE  TypeOK'
<1> USE DEF TypeOK, MainStates, WorkerStates, Cmds, PortTypes, Serving,
      vars, mainVars, workerVars, portVars, queueVars, wakeVars, histVars
<1>1. CASE \E c \in {"tx", "op"} : Request(c)
  BY <1>1 DEF Request
<1>2. CASE RequestClose
  BY <1>2 DEF RequestClose
<1>3. CASE SetConfig
  BY <1>3 DEF SetConfig
<1>4. CASE LoadPort
  BY <1>4 DEF LoadPort
<1>5. CASE DerefPort
  <2>1. ProbeResult \in BOOLEAN
    BY DEF ProbeResult
  <2>2. confirmed' \in BOOLEAN
    BY <1>5, <2>1 DEF DerefPort
  <2>3. main' \in MainStates
    BY <1>5 DEF DerefPort, AfterProbe
  <2>4. QED
    BY <1>5, <2>2, <2>3 DEF DerefPort
<1>6. CASE DerefDestroyed
  BY <1>6 DEF DerefDestroyed, ProcessDies
<1>7. CASE WaitWake
  BY <1>7 DEF WaitWake
<1>8. CASE WaitTimeout
  BY <1>8 DEF WaitTimeout
<1>9. CASE Write
  BY <1>9 DEF Write
<1>10. CASE BeginStop
  BY <1>10 DEF BeginStop
<1>11. CASE FinishStop
  BY <1>11, QueueTypes DEF FinishStop, ClearSession
<1>12. CASE Spawn
  BY <1>12 DEF Spawn
<1>13. CASE DispatchEvent
  BY <1>13 DEF DispatchEvent
<1>14. CASE OnEvents
  <2>1. delivered \o RxEvents \in Seq(Packets) /\ reported \o TxEvents \in Seq(Packets)
    BY QueueTypes
  <2>2. /\ delivered' \in Seq(Packets) /\ reported' \in Seq(Packets)
        /\ RxEvents' \in Seq(Packets) /\ TxEvents' \in Seq(Packets)
    BY <1>14, <2>1, QueueTypes DEF OnEvents
  <2>3. Posted' \in BOOLEAN /\ main' \in MainStates
    BY <1>14 DEF OnEvents
  <2>4. QED
    BY <1>14, <2>2, <2>3 DEF OnEvents
<1>15. CASE WorkerCreate
  <2>1. port' \in [type : {"null", "CAN_HAT", "CAN_USB_M"}, open : BOOLEAN]
    <3>1. CASE conf \in Supported
      <4>1. conf \in {"CAN_HAT", "CAN_USB_M"}
        BY <3>1 DEF Supported
      <4>2. port' = [type |-> conf, open |-> FALSE]
        BY <1>15, <3>1 DEF WorkerCreate
      <4>3. QED  BY <4>1, <4>2
    <3>2. CASE conf \notin Supported
      BY <1>15, <3>2 DEF WorkerCreate
    <3>3. QED  BY <3>1, <3>2
  <2>2. portRx' \in Seq(Packets)
    BY <1>15, QueueTypes DEF WorkerCreate
  <2>3. QED
    BY <1>15, <2>1, <2>2 DEF WorkerCreate
<1>16. CASE WorkerOpen
  <2>1. port' \in [type : {"null", "CAN_HAT", "CAN_USB_M"}, open : BOOLEAN]
    BY <1>16 DEF WorkerOpen
  <2>2. QED
    BY <1>16, <2>1 DEF WorkerOpen
<1>17. CASE WorkerConfigure
  BY <1>17 DEF WorkerConfigure
<1>18. CASE WorkerOpenThrows
  BY <1>18 DEF WorkerOpenThrows, ProcessDies
<1>19. CASE WorkerWaitStop
  BY <1>19 DEF WorkerWaitStop
<1>20. CASE WorkerRead
  BY <1>20 DEF WorkerRead
<1>21. CASE WorkerTake
  BY <1>21 DEF WorkerTake
<1>22. CASE WorkerWrite
  BY <1>22 DEF WorkerWrite
<1>23. CASE WorkerPublish
  <2>1. /\ RxEvents \o readPackets \in Seq(Packets)
        /\ TxEvents \o written \in Seq(Packets)
    BY QueueTypes
  <2>2. RxEvents' \in Seq(Packets) /\ TxEvents' \in Seq(Packets)
    BY <1>23, <2>1 DEF WorkerPublish, InsertEvents
  <2>3. Posted' \in BOOLEAN
    BY <1>23, Zenon DEF WorkerPublish, Notify
  <2>4. events' \in Nat
    BY <1>23 DEF WorkerPublish, Notify
  <2>5. QED
    BY <1>23, <2>2, <2>3, <2>4, QueueTypes DEF WorkerPublish
<1>24. CASE WorkerClose
  BY <1>24 DEF WorkerClose
<1>25. CASE WorkerClosePort
  <2>1. port' \in [type : {"null", "CAN_HAT", "CAN_USB_M"}, open : BOOLEAN]
    BY <1>25 DEF WorkerClosePort
  <2>2. QED
    BY <1>25, <2>1, QueueTypes DEF WorkerClosePort
<1>26. CASE FrameArrives
  BY <1>26 DEF FrameArrives
<1>27. CASE FrameWakesReader
  BY <1>27 DEF FrameWakesReader
<1>28. CASE UNCHANGED vars
  BY <1>28
<1>29. QED
  BY <1>1, <1>2, <1>3, <1>4, <1>5, <1>6, <1>7, <1>8, <1>9, <1>10,
     <1>11, <1>12, <1>13, <1>14, <1>15, <1>16, <1>17, <1>18, <1>19,
     <1>20, <1>21, <1>22, <1>23, <1>24, <1>25, <1>26, <1>27, <1>28
     DEF Next, MainNext, WorkerNext, BusNext, Halted

\* Every step keeps the two threads coupled.
LEMMA ThreadsStep ==
  ASSUME TypeOK,
         ThreadsCoupled, [Next]_vars
  PROVE  ThreadsCoupled'
<1> USE DEF TypeOK, ThreadsCoupled, Alive, Serving, vars, mainVars,
      workerVars, portVars, queueVars, wakeVars, histVars
<1>1. CASE \E c \in {"tx", "op"} : Request(c)
  BY <1>1 DEF Request
<1>2. CASE RequestClose
  BY <1>2 DEF RequestClose
<1>3. CASE SetConfig
  BY <1>3 DEF SetConfig
<1>4. CASE LoadPort
  BY <1>4 DEF LoadPort
<1>5. CASE DerefPort
  BY <1>5 DEF DerefPort, AfterProbe, ProbeResult
<1>6. CASE DerefDestroyed
  BY <1>6 DEF DerefDestroyed, ProcessDies
<1>7. CASE WaitWake
  BY <1>7 DEF WaitWake
<1>8. CASE WaitTimeout
  BY <1>8 DEF WaitTimeout
<1>9. CASE Write
  BY <1>9 DEF Write
<1>10. CASE BeginStop
  BY <1>10 DEF BeginStop
<1>11. CASE FinishStop
  BY <1>11 DEF FinishStop, ClearSession
<1>12. CASE Spawn
  BY <1>12 DEF Spawn
<1>13. CASE DispatchEvent
  BY <1>13 DEF DispatchEvent
<1>14. CASE OnEvents
  BY <1>14 DEF OnEvents
<1>15. CASE WorkerCreate
  BY <1>15 DEF WorkerCreate, Supported
<1>16. CASE WorkerOpen
  BY <1>16 DEF WorkerOpen
<1>17. CASE WorkerConfigure
  BY <1>17 DEF WorkerConfigure
<1>18. CASE WorkerOpenThrows
  BY <1>18 DEF WorkerOpenThrows, ProcessDies
<1>19. CASE WorkerWaitStop
  BY <1>19 DEF WorkerWaitStop
<1>20. CASE WorkerRead
  BY <1>20 DEF WorkerRead
<1>21. CASE WorkerTake
  BY <1>21 DEF WorkerTake
<1>22. CASE WorkerWrite
  BY <1>22 DEF WorkerWrite
<1>23. CASE WorkerPublish
  BY <1>23 DEF WorkerPublish, InsertEvents, Notify
<1>24. CASE WorkerClose
  BY <1>24 DEF WorkerClose
<1>25. CASE WorkerClosePort
  BY <1>25 DEF WorkerClosePort
<1>26. CASE FrameArrives
  BY <1>26 DEF FrameArrives
<1>27. CASE FrameWakesReader
  BY <1>27 DEF FrameWakesReader
<1>28. CASE UNCHANGED vars
  BY <1>28
<1>29. QED
  BY <1>1, <1>2, <1>3, <1>4, <1>5, <1>6, <1>7, <1>8, <1>9, <1>10,
     <1>11, <1>12, <1>13, <1>14, <1>15, <1>16, <1>17, <1>18, <1>19,
     <1>20, <1>21, <1>22, <1>23, <1>24, <1>25, <1>26, <1>27, <1>28
     DEF Next, MainNext, WorkerNext, BusNext, Halted

\* Every step keeps the port as the threads believe it is.
LEMMA PortStep ==
  ASSUME TypeOK,
         ThreadsCoupled,
         PortCoupled, [Next]_vars
  PROVE  PortCoupled'
<1> USE DEF TypeOK, ThreadsCoupled, PortCoupled, Alive, Serving, vars,
      mainVars, workerVars, portVars, queueVars, wakeVars, histVars
<1>1. CASE \E c \in {"tx", "op"} : Request(c)
  BY <1>1 DEF Request
<1>2. CASE RequestClose
  BY <1>2 DEF RequestClose
<1>3. CASE SetConfig
  BY <1>3 DEF SetConfig
<1>4. CASE LoadPort
  BY <1>4 DEF LoadPort
<1>5. CASE DerefPort
  BY <1>5 DEF DerefPort, AfterProbe, ProbeResult
<1>6. CASE DerefDestroyed
  BY <1>6 DEF DerefDestroyed, ProcessDies
<1>7. CASE WaitWake
  BY <1>7 DEF WaitWake
<1>8. CASE WaitTimeout
  BY <1>8 DEF WaitTimeout
<1>9. CASE Write
  BY <1>9 DEF Write
<1>10. CASE BeginStop
  BY <1>10 DEF BeginStop
<1>11. CASE FinishStop
  BY <1>11 DEF FinishStop, ClearSession
<1>12. CASE Spawn
  BY <1>12 DEF Spawn
<1>13. CASE DispatchEvent
  BY <1>13 DEF DispatchEvent
<1>14. CASE OnEvents
  BY <1>14 DEF OnEvents
<1>15. CASE WorkerCreate
  BY <1>15 DEF WorkerCreate, Supported
<1>16. CASE WorkerOpen
  BY <1>16 DEF WorkerOpen
<1>17. CASE WorkerConfigure
  BY <1>17 DEF WorkerConfigure
<1>18. CASE WorkerOpenThrows
  BY <1>18 DEF WorkerOpenThrows, ProcessDies
<1>19. CASE WorkerWaitStop
  BY <1>19 DEF WorkerWaitStop
<1>20. CASE WorkerRead
  BY <1>20 DEF WorkerRead
<1>21. CASE WorkerTake
  BY <1>21 DEF WorkerTake
<1>22. CASE WorkerWrite
  BY <1>22 DEF WorkerWrite
<1>23. CASE WorkerPublish
  BY <1>23 DEF WorkerPublish, InsertEvents, Notify
<1>24. CASE WorkerClose
  BY <1>24 DEF WorkerClose
<1>25. CASE WorkerClosePort
  BY <1>25 DEF WorkerClosePort
<1>26. CASE FrameArrives
  BY <1>26 DEF FrameArrives
<1>27. CASE FrameWakesReader
  BY <1>27 DEF FrameWakesReader
<1>28. CASE UNCHANGED vars
  BY <1>28
<1>29. QED
  BY <1>1, <1>2, <1>3, <1>4, <1>5, <1>6, <1>7, <1>8, <1>9, <1>10,
     <1>11, <1>12, <1>13, <1>14, <1>15, <1>16, <1>17, <1>18, <1>19,
     <1>20, <1>21, <1>22, <1>23, <1>24, <1>25, <1>26, <1>27, <1>28
     DEF Next, MainNext, WorkerNext, BusNext, Halted

\* Every step keeps what each thread may hold.
LEMMA HandsStep ==
  ASSUME TypeOK,
         ThreadsCoupled,
         PortCoupled,
         HandsCoupled, [Next]_vars
  PROVE  HandsCoupled'
<1> USE DEF TypeOK, ThreadsCoupled, PortCoupled, HandsCoupled, Alive,
      Serving, vars, mainVars, workerVars, portVars, queueVars, wakeVars,
      histVars
<1>1. CASE \E c \in {"tx", "op"} : Request(c)
  BY <1>1 DEF Request
<1>2. CASE RequestClose
  BY <1>2 DEF RequestClose
<1>3. CASE SetConfig
  BY <1>3 DEF SetConfig
<1>4. CASE LoadPort
  BY <1>4 DEF LoadPort
<1>5. CASE DerefPort
  BY <1>5 DEF DerefPort, AfterProbe, ProbeResult
<1>6. CASE DerefDestroyed
  BY <1>6 DEF DerefDestroyed, ProcessDies
<1>7. CASE WaitWake
  BY <1>7 DEF WaitWake
<1>8. CASE WaitTimeout
  BY <1>8 DEF WaitTimeout
<1>9. CASE Write
  BY <1>9 DEF Write
<1>10. CASE BeginStop
  BY <1>10 DEF BeginStop
<1>11. CASE FinishStop
  BY <1>11 DEF FinishStop, ClearSession
<1>12. CASE Spawn
  BY <1>12 DEF Spawn
<1>13. CASE DispatchEvent
  BY <1>13 DEF DispatchEvent
<1>14. CASE OnEvents
  BY <1>14 DEF OnEvents
<1>15. CASE WorkerCreate
  BY <1>15 DEF WorkerCreate, Supported
<1>16. CASE WorkerOpen
  BY <1>16 DEF WorkerOpen
<1>17. CASE WorkerConfigure
  BY <1>17 DEF WorkerConfigure
<1>18. CASE WorkerOpenThrows
  BY <1>18 DEF WorkerOpenThrows, ProcessDies
<1>19. CASE WorkerWaitStop
  BY <1>19 DEF WorkerWaitStop
<1>20. CASE WorkerRead
  BY <1>20 DEF WorkerRead
<1>21. CASE WorkerTake
  BY <1>21 DEF WorkerTake
<1>22. CASE WorkerWrite
  BY <1>22 DEF WorkerWrite
<1>23. CASE WorkerPublish
  BY <1>23 DEF WorkerPublish, InsertEvents, Notify
<1>24. CASE WorkerClose
  BY <1>24 DEF WorkerClose
<1>25. CASE WorkerClosePort
  BY <1>25 DEF WorkerClosePort
<1>26. CASE FrameArrives
  BY <1>26 DEF FrameArrives
<1>27. CASE FrameWakesReader
  BY <1>27 DEF FrameWakesReader
<1>28. CASE UNCHANGED vars
  BY <1>28
<1>29. QED
  BY <1>1, <1>2, <1>3, <1>4, <1>5, <1>6, <1>7, <1>8, <1>9, <1>10,
     <1>11, <1>12, <1>13, <1>14, <1>15, <1>16, <1>17, <1>18, <1>19,
     <1>20, <1>21, <1>22, <1>23, <1>24, <1>25, <1>26, <1>27, <1>28
     DEF Next, MainNext, WorkerNext, BusNext, Halted

\* Every step keeps the wakeup pending.
LEMMA WakeupStep ==
  ASSUME TypeOK,
         ThreadsCoupled,
         PortCoupled,
         HandsCoupled,
         WakeupPending, [Next]_vars
  PROVE  WakeupPending'
<1> USE DEF TypeOK, ThreadsCoupled, PortCoupled, HandsCoupled,
      WakeupPending, Alive, Serving, vars, mainVars, workerVars, portVars,
      queueVars, wakeVars, histVars
<1>1. CASE \E c \in {"tx", "op"} : Request(c)
  BY <1>1 DEF Request
<1>2. CASE RequestClose
  BY <1>2 DEF RequestClose
<1>3. CASE SetConfig
  BY <1>3 DEF SetConfig
<1>4. CASE LoadPort
  BY <1>4 DEF LoadPort
<1>5. CASE DerefPort
  BY <1>5 DEF DerefPort, AfterProbe, ProbeResult
<1>6. CASE DerefDestroyed
  BY <1>6 DEF DerefDestroyed, ProcessDies
<1>7. CASE WaitWake
  BY <1>7 DEF WaitWake
<1>8. CASE WaitTimeout
  BY <1>8 DEF WaitTimeout
<1>9. CASE Write
  BY <1>9 DEF Write
<1>10. CASE BeginStop
  BY <1>10 DEF BeginStop
<1>11. CASE FinishStop
  BY <1>11 DEF FinishStop, ClearSession
<1>12. CASE Spawn
  BY <1>12 DEF Spawn
<1>13. CASE DispatchEvent
  BY <1>13 DEF DispatchEvent
<1>14. CASE OnEvents
  BY <1>14 DEF OnEvents
<1>15. CASE WorkerCreate
  BY <1>15 DEF WorkerCreate, Supported
<1>16. CASE WorkerOpen
  BY <1>16 DEF WorkerOpen
<1>17. CASE WorkerConfigure
  BY <1>17 DEF WorkerConfigure
<1>18. CASE WorkerOpenThrows
  BY <1>18 DEF WorkerOpenThrows, ProcessDies
<1>19. CASE WorkerWaitStop
  BY <1>19 DEF WorkerWaitStop
<1>20. CASE WorkerRead
  BY <1>20 DEF WorkerRead
<1>21. CASE WorkerTake
  BY <1>21 DEF WorkerTake
<1>22. CASE WorkerWrite
  BY <1>22 DEF WorkerWrite
<1>23. CASE WorkerPublish
  BY <1>23 DEF WorkerPublish, InsertEvents, Notify
<1>24. CASE WorkerClose
  BY <1>24 DEF WorkerClose
<1>25. CASE WorkerClosePort
  BY <1>25 DEF WorkerClosePort
<1>26. CASE FrameArrives
  BY <1>26 DEF FrameArrives
<1>27. CASE FrameWakesReader
  BY <1>27 DEF FrameWakesReader
<1>28. CASE UNCHANGED vars
  BY <1>28
<1>29. QED
  BY <1>1, <1>2, <1>3, <1>4, <1>5, <1>6, <1>7, <1>8, <1>9, <1>10,
     <1>11, <1>12, <1>13, <1>14, <1>15, <1>16, <1>17, <1>18, <1>19,
     <1>20, <1>21, <1>22, <1>23, <1>24, <1>25, <1>26, <1>27, <1>28
     DEF Next, MainNext, WorkerNext, BusNext, Halted

\* Every step keeps the packets of the session in order on their way to the
\* "tx" report: the six actions that move them, and the others.
LEMMA TxStep ==
  ASSUME TypeOK, ThreadsCoupled, HandsCoupled, TxConserved, [Next]_vars
  PROVE  TxConserved'
<1>1. CASE Write
  <2>1. PICK p \in Packets : TxQueue' = Append(TxQueue, p) /\ accepted' = Append(accepted, p)
    BY <1>1 DEF Write
  <2>2. reported \o TxEvents \o written \o txq \in Seq(Packets)
    BY QueueTypes DEF TypeOK
  <2>3. UNCHANGED <<reported, TxEvents, written, txq>>
    BY <1>1 DEF Write, workerVars
  <2>4. reported \o TxEvents \o written \o txq \o Append(TxQueue, p)
          = Append(reported \o TxEvents \o written \o txq \o TxQueue, p)
    <3>1. TxQueue \in Seq(Packets) /\ p \in Packets
      BY DEF TypeOK
    <3>2. QED  BY <2>2, <3>1, AppendToLast
  <2>5. QED  BY <2>1, <2>3, <2>4 DEF TxConserved
<1>2. CASE FinishStop
  <2>1. /\ TxQueue' = <<>> /\ TxEvents' = <<>> /\ accepted' = <<>> /\ reported' = <<>>
        /\ UNCHANGED <<txq, written>>
    BY <1>2 DEF FinishStop, ClearSession
  <2>2. txq = <<>> /\ written = <<>>
    BY <1>2 DEF FinishStop, HandsCoupled
  <2>3. <<>> \o <<>> \o <<>> \o <<>> \o <<>> = <<>>
    BY QueueTypes, ConcatEmptySeq
  <2>4. QED  BY <2>1, <2>2, <2>3 DEF TxConserved
<1>3. CASE OnEvents
  <2>1. /\ reported' = reported \o TxEvents /\ TxEvents' = <<>>
        /\ UNCHANGED <<written, txq, TxQueue, accepted>>
    BY <1>3 DEF OnEvents, workerVars
  <2>2. reported' \o TxEvents' = reported \o TxEvents
    BY <2>1, QueueTypes, ConcatEmptySeq DEF TypeOK
  <2>3. QED  BY <2>1, <2>2 DEF TxConserved
<1>4. CASE WorkerTake
  <2>1. /\ txq' = TxQueue /\ TxQueue' = <<>>
        /\ UNCHANGED <<reported, TxEvents, written, accepted>>
    BY <1>4 DEF WorkerTake, histVars
  <2>2. txq = <<>>
    BY <1>4 DEF WorkerTake, HandsCoupled
  <2>3. /\ reported \o TxEvents \o written \in Seq(Packets)
        /\ reported \o TxEvents \o written \o TxQueue \in Seq(Packets)
    BY QueueTypes DEF TypeOK
  <2>4. /\ reported \o TxEvents \o written \o <<>> = reported \o TxEvents \o written
        /\ reported \o TxEvents \o written \o TxQueue \o <<>>
             = reported \o TxEvents \o written \o TxQueue
    BY <2>3, ConcatEmptySeq
  <2>5. QED  BY <2>1, <2>2, <2>4 DEF TxConserved
<1>5. CASE WorkerWrite
  <2>1. /\ written' = Append(written, Head(txq)) /\ txq' = Tail(txq) /\ txq # <<>>
        /\ UNCHANGED <<reported, TxEvents, TxQueue, accepted>>
    BY <1>5 DEF WorkerWrite, queueVars, histVars
  <2>2. reported \o TxEvents \in Seq(Packets)
    BY QueueTypes DEF TypeOK
  <2>3. Head(txq) \in Packets /\ Tail(txq) \in Seq(Packets)
    BY <2>1, HeadTailProperties DEF TypeOK
  <2>4. (reported \o TxEvents) \o Append(written, Head(txq))
          = Append(reported \o TxEvents \o written, Head(txq))
    BY <2>2, <2>3, AppendToLast DEF TypeOK
  <2>5. reported \o TxEvents \o written \in Seq(Packets)
    BY <2>2, QueueTypes DEF TypeOK
  <2>6. Append(reported \o TxEvents \o written, Head(txq)) \o Tail(txq)
          = reported \o TxEvents \o written \o txq
    BY <2>1, <2>5, MoveHead DEF TypeOK
  <2>7. QED  BY <2>1, <2>4, <2>6 DEF TxConserved
<1>6. CASE WorkerPublish /\ TxEvents' = TxEvents \o written
  <2>1. /\ txq = <<>> /\ written' = <<>>
        /\ UNCHANGED <<reported, txq, TxQueue, accepted>>
    BY <1>6 DEF WorkerPublish, histVars
  <2>2. reported \o (TxEvents \o written) = (reported \o TxEvents) \o written
    <3>1. /\ reported \in Seq(Packets) /\ TxEvents \in Seq(Packets)
          /\ written \in Seq(Packets)
      BY DEF TypeOK
    <3>2. QED  BY <3>1, ConcatAssociative
  <2>3. reported \o TxEvents \o written \in Seq(Packets)
    BY QueueTypes DEF TypeOK
  <2>4. reported \o TxEvents \o written \o <<>> = reported \o TxEvents \o written
    BY <2>3, ConcatEmptySeq
  <2>5. QED  BY <1>6, <2>1, <2>2, <2>4 DEF TxConserved
<1>7. CASE UNCHANGED <<reported, TxEvents, written, txq, TxQueue, accepted>>
  BY <1>7 DEF TxConserved
<1>8. ASSUME WorkerPublish
      PROVE  \/ TxEvents' = TxEvents \o written
             \/ UNCHANGED <<reported, TxEvents, written, txq, TxQueue, accepted>>
  BY <1>8 DEF WorkerPublish, InsertEvents, histVars
<1>9. ASSUME MainNext, ~Write, ~FinishStop, ~OnEvents
      PROVE  UNCHANGED <<reported, TxEvents, written, txq, TxQueue, accepted>>
  BY <1>9 DEF MainNext, Request, RequestClose, SetConfig, LoadPort, DerefPort,
     DerefDestroyed, ProcessDies, WaitWake, WaitTimeout, BeginStop, Spawn,
     DispatchEvent, workerVars, queueVars, histVars
<1>10. ASSUME WorkerNext, ~WorkerTake, ~WorkerWrite, ~WorkerPublish
       PROVE  UNCHANGED <<reported, TxEvents, written, txq, TxQueue, accepted>>
  BY <1>10 DEF WorkerNext, WorkerCreate, WorkerOpen, WorkerConfigure, WorkerOpenThrows,
     ProcessDies, WorkerWaitStop, WorkerRead, WorkerClose, WorkerClosePort,
     queueVars, histVars
<1>11. ASSUME BusNext \/ Halted \/ UNCHANGED vars
       PROVE  UNCHANGED <<reported, TxEvents, written, txq, TxQueue, accepted>>
  BY <1>11 DEF BusNext, FrameArrives, FrameWakesReader, Halted, vars,
     workerVars, queueVars, histVars
<1>12. QED
  BY <1>1, <1>2, <1>3, <1>4, <1>5, <1>6, <1>7, <1>8, <1>9, <1>10, <1>11
     DEF Next

\* Every step keeps the frames of the open port in order on their way to the
\* "rx" report.
LEMMA RxStep ==
  ASSUME TypeOK, ThreadsCoupled, PortCoupled, HandsCoupled, RxConserved,
         [Next]_vars
  PROVE  RxConserved'
<1>1. CASE FrameArrives
  <2>1. PICK p \in Packets : portRx' = Append(portRx, p) /\ arrived' = Append(arrived, p)
    BY <1>1 DEF FrameArrives
  <2>2. UNCHANGED <<delivered, RxEvents, readPackets, port>>
    BY <1>1 DEF FrameArrives, workerVars, queueVars
  <2>3. delivered \o RxEvents \o readPackets \o Append(portRx, p)
          = Append(delivered \o RxEvents \o readPackets \o portRx, p)
    <3>1. /\ delivered \o RxEvents \o readPackets \in Seq(Packets)
          /\ portRx \in Seq(Packets) /\ p \in Packets
      BY QueueTypes DEF TypeOK
    <3>2. QED  BY <3>1, AppendToLast
  <2>4. QED  BY <2>1, <2>2, <2>3 DEF RxConserved
<1>2. CASE OnEvents
  <2>1. /\ delivered' = delivered \o RxEvents /\ RxEvents' = <<>>
        /\ UNCHANGED <<readPackets, portRx, arrived, port>>
    BY <1>2 DEF OnEvents, workerVars, portVars
  <2>2. delivered' \o RxEvents' = delivered \o RxEvents
    BY <2>1, QueueTypes, ConcatEmptySeq DEF TypeOK
  <2>3. QED  BY <2>1, <2>2 DEF RxConserved
<1>3. CASE WorkerRead
  <2>1. /\ readPackets' = Append(readPackets, Head(portRx)) /\ portRx' = Tail(portRx)
        /\ portRx # <<>>
        /\ UNCHANGED <<delivered, RxEvents, arrived, port>>
    BY <1>3 DEF WorkerRead, queueVars, histVars
  <2>2. /\ delivered \o RxEvents \in Seq(Packets)
        /\ delivered \o RxEvents \o readPackets \in Seq(Packets)
        /\ readPackets \in Seq(Packets) /\ portRx \in Seq(Packets)
    BY QueueTypes DEF TypeOK
  <2>3. Head(portRx) \in Packets
    BY <2>1, <2>2, HeadTailProperties
  <2>4. (delivered \o RxEvents) \o Append(readPackets, Head(portRx))
          = Append(delivered \o RxEvents \o readPackets, Head(portRx))
    BY <2>2, <2>3, AppendToLast
  <2>5. Append(delivered \o RxEvents \o readPackets, Head(portRx)) \o Tail(portRx)
          = delivered \o RxEvents \o readPackets \o portRx
    BY <2>1, <2>2, MoveHead
  <2>6. QED  BY <2>1, <2>4, <2>5 DEF RxConserved
<1>4. CASE WorkerPublish /\ RxEvents' = RxEvents \o readPackets
  <2>1. readPackets' = <<>> /\ UNCHANGED <<delivered, portRx, arrived, port>>
    BY <1>4 DEF WorkerPublish, portVars, histVars
  <2>2. /\ delivered \in Seq(Packets) /\ RxEvents \in Seq(Packets)
        /\ readPackets \in Seq(Packets)
        /\ delivered \o RxEvents \o readPackets \in Seq(Packets)
    BY QueueTypes DEF TypeOK
  <2>3. delivered \o (RxEvents \o readPackets) = (delivered \o RxEvents) \o readPackets
    BY <2>2, ConcatAssociative
  <2>4. delivered \o RxEvents \o readPackets \o <<>> = delivered \o RxEvents \o readPackets
    BY <2>2, ConcatEmptySeq
  <2>5. QED  BY <1>4, <2>1, <2>3, <2>4 DEF RxConserved
<1>5. CASE WorkerOpen
  <2>1. /\ delivered = <<>> /\ RxEvents = <<>> /\ readPackets = <<>>
        /\ portRx = <<>> /\ arrived = <<>>
    BY <1>5 DEF WorkerOpen, HandsCoupled
  <2>2. UNCHANGED <<delivered, RxEvents, readPackets, portRx, arrived>>
    BY <1>5 DEF WorkerOpen, queueVars, histVars
  <2>3. <<>> \o <<>> \o <<>> \o <<>> = <<>>
    BY QueueTypes, ConcatEmptySeq
  <2>4. QED  BY <2>1, <2>2, <2>3 DEF RxConserved
<1>6. CASE FinishStop
  <2>1. ~port.open /\ port' = port
    BY <1>6 DEF FinishStop, PortCoupled, Alive, Serving, portVars
  <2>2. QED  BY <2>1 DEF RxConserved
<1>7. CASE WorkerCreate \/ WorkerClosePort
  <2>1. ~port'.open \/ UNCHANGED <<delivered, RxEvents, readPackets, portRx, arrived, port>>
    BY <1>7 DEF WorkerCreate, WorkerClosePort, queueVars, histVars, TypeOK
  <2>2. QED  BY <2>1 DEF RxConserved
<1>8. CASE UNCHANGED <<delivered, RxEvents, readPackets, portRx, arrived, port>>
  BY <1>8 DEF RxConserved
<1>9. ASSUME WorkerPublish
      PROVE  \/ RxEvents' = RxEvents \o readPackets
             \/ UNCHANGED <<delivered, RxEvents, readPackets, portRx, arrived, port>>
  BY <1>9 DEF WorkerPublish, InsertEvents, portVars, histVars
<1>10. ASSUME MainNext, ~FinishStop, ~OnEvents
       PROVE  UNCHANGED <<delivered, RxEvents, readPackets, portRx, arrived, port>>
  BY <1>10 DEF MainNext, Request, RequestClose, SetConfig, LoadPort, DerefPort,
     DerefDestroyed, ProcessDies, WaitWake, WaitTimeout, Write, BeginStop, Spawn,
     DispatchEvent, workerVars, portVars, queueVars, histVars
<1>11. ASSUME WorkerNext, ~WorkerCreate, ~WorkerOpen, ~WorkerRead, ~WorkerPublish,
              ~WorkerClosePort
       PROVE  UNCHANGED <<delivered, RxEvents, readPackets, portRx, arrived, port>>
  BY <1>11 DEF WorkerNext, WorkerConfigure, WorkerOpenThrows, ProcessDies, WorkerWaitStop,
     WorkerTake, WorkerWrite, WorkerClose, portVars, queueVars, histVars
<1>12. ASSUME FrameWakesReader \/ Halted \/ UNCHANGED vars
       PROVE  UNCHANGED <<delivered, RxEvents, readPackets, portRx, arrived, port>>
  BY <1>12 DEF FrameWakesReader, Halted, vars, workerVars, portVars, queueVars,
     histVars
<1>13. QED
  BY <1>1, <1>2, <1>3, <1>4, <1>5, <1>6, <1>7, <1>8, <1>9, <1>10, <1>11, <1>12
     DEF Next, BusNext

-----------------------------------------------------------------------------
(* The theorems. *)

\* The initial state satisfies the invariant.
LEMMA InitSafe == Init => SafetyInductive
<1> SUFFICES ASSUME Init PROVE SafetyInductive
  OBVIOUS
<1>1. TypeOK
  BY QueueTypes DEF Init, TypeOK, MainStates, WorkerStates, Cmds, PortTypes, Serving
<1>2. ThreadsCoupled /\ PortCoupled /\ HandsCoupled /\ WakeupPending
  BY DEF Init, ThreadsCoupled, PortCoupled, HandsCoupled, WakeupPending, Alive, Serving
<1>3. TxConserved /\ RxConserved
  <2>1. <<>> \o <<>> \o <<>> \o <<>> \o <<>> = <<>>
    BY QueueTypes, ConcatEmptySeq
  <2>2. QED  BY <2>1 DEF Init, TxConserved, RxConserved
<1>4. QED  BY <1>1, <1>2, <1>3 DEF SafetyInductive

\* Type correctness, by itself inductive.
THEOREM TypeCorrect == Spec => []TypeOK
<1>1. Init => TypeOK
  BY InitSafe DEF SafetyInductive
<1>2. TypeOK /\ [Next]_vars => TypeOK'
  BY TypeStep
<1>3. QED  BY <1>1, <1>2, PTL DEF Spec

\* The conjunction of everything the two threads rely on is inductive.
THEOREM SafetyInvariant == Spec => []SafetyInductive
<1>1. SafetyInductive /\ [Next]_vars => SafetyInductive'
  BY TypeStep, ThreadsStep, PortStep, HandsStep, WakeupStep, TxStep, RxStep
     DEF SafetyInductive
<1>2. QED  BY InitSafe, <1>1, PTL DEF Spec

\* No wakeup is lost and none is posted twice: Notify, OnEvents and Stop agree
\* on Posted for every interleaving.
THEOREM NoLostWakeup == Spec => []WakeupPending
<1>1. SafetyInductive => WakeupPending
  BY DEF SafetyInductive
<1>2. QED  BY <1>1, SafetyInvariant, PTL

\* No packet given to Write is lost, doubled or reordered before its "tx"
\* report while the session lasts, however many there are.
THEOREM TxNeverLost == Spec => []TxConserved
<1>1. SafetyInductive => TxConserved
  BY DEF SafetyInductive
<1>2. QED  BY <1>1, SafetyInvariant, PTL

\* No frame of the open port is lost, doubled or reordered before its "rx"
\* report, whatever the size of the read batch.
THEOREM RxNeverLost == Spec => []RxConserved
<1>1. SafetyInductive => RxConserved
  BY DEF SafetyInductive
<1>2. QED  BY <1>1, SafetyInvariant, PTL

\* Write only ever queues for an open port, although IsStarted() holds no lock.
THEOREM WriteFindsPortOpen == Spec => []CheckedPortStillOpen
<1>1. SafetyInductive => CheckedPortStillOpen
  BY DEF SafetyInductive, TypeOK, ThreadsCoupled, PortCoupled,
     CheckedPortStillOpen, Alive
<1>2. QED  BY <1>1, SafetyInvariant, PTL

\* A confirmed port stays open until the main thread itself stops it.
THEOREM ConfirmedPortStaysOpen == Spec => []ConfirmedStaysOpen
<1>1. SafetyInductive => ConfirmedStaysOpen
  BY DEF SafetyInductive, PortCoupled, ConfirmedStaysOpen
<1>2. QED  BY <1>1, SafetyInvariant, PTL

\* A session inherits nothing from the one before it.
THEOREM SessionsStartClean == Spec => []CleanStart
<1>1. SafetyInductive => CleanStart
  BY DEF SafetyInductive, ThreadsCoupled, HandsCoupled, CleanStart, Alive
<1>2. QED  BY <1>1, SafetyInvariant, PTL

\* An open port closes only inside Stop.
THEOREM PortClosedOnlyByStop == Spec => ClosedOnlyByStop
<1> DEFINE A == port.open /\ ~port'.open => main = "join" /\ main' = "join"
<1>1. SafetyInductive /\ [Next]_vars => [A]_vars
  <2> SUFFICES ASSUME SafetyInductive, Next, port.open, ~port'.open
               PROVE  main = "join" /\ main' = "join"
    OBVIOUS
  <2>1. port' # port
    OBVIOUS
  <2>2. ~MainNext
    BY <2>1 DEF MainNext, Request, RequestClose, SetConfig, LoadPort, DerefPort,
       DerefDestroyed, ProcessDies, WaitWake, WaitTimeout, Write, BeginStop,
       FinishStop, Spawn, DispatchEvent, OnEvents, portVars
  <2>3. ~BusNext /\ ~Halted
    BY <2>1 DEF BusNext, FrameArrives, FrameWakesReader, Halted, vars, portVars
  <2>4. WorkerCreate \/ WorkerOpen \/ WorkerClosePort
    BY <2>1, <2>2, <2>3 DEF Next, WorkerNext, WorkerConfigure, WorkerOpenThrows, ProcessDies,
       WorkerWaitStop, WorkerRead, WorkerTake, WorkerWrite, WorkerPublish,
       WorkerClose, portVars
  <2>5. worker \in Serving \cup {"close", "joinReader", "closePort"}
    <3>1. Alive
      BY <2>4 DEF SafetyInductive, ThreadsCoupled, Alive, WorkerCreate,
         WorkerOpen, WorkerClosePort
    <3>2. QED  BY <3>1 DEF SafetyInductive, PortCoupled
  <2>6. WorkerClosePort
    BY <2>4, <2>5 DEF WorkerCreate, WorkerOpen, Serving
  <2>7. QED
    BY <2>6 DEF WorkerClosePort, SafetyInductive, ThreadsCoupled, mainVars
<1>2. QED  BY <1>1, SafetyInvariant, PTL DEF Spec, ClosedOnlyByStop

-----------------------------------------------------------------------------
(* Each direction of the transporter implements FifoLink. *)

\* Concatenation of packet queues associates.
LEMMA PacketsAssociate ==
  \A s, t, u \in Seq(Packets) : (s \o t) \o u = s \o (t \o u)
BY ConcatAssociative

\* Taking the next part of a sequence extends the prefix taken before.
LEMMA PrefixGrows ==
  \A s, t, u \in Seq(Packets) : t # <<>> =>
    \E n \in Len(s) + 1 .. Len(s \o t \o u) : s \o t = SubSeq(s \o t \o u, 1, n)
<1> SUFFICES ASSUME NEW s \in Seq(Packets), NEW t \in Seq(Packets),
                    NEW u \in Seq(Packets), t # <<>>
             PROVE  \E n \in Len(s) + 1 .. Len(s \o t \o u) :
                      s \o t = SubSeq(s \o t \o u, 1, n)
  OBVIOUS
<1> DEFINE st == s \o t
<1>1. /\ st \in Seq(Packets) /\ Len(st) = Len(s) + Len(t)
      /\ Len(st \o u) = Len(st) + Len(u)
      /\ Len(s) \in Nat /\ Len(u) \in Nat /\ Len(t) \in Nat \ {0}
  BY ConcatProperties, EmptySeq, LenProperties
<1>2. 1 \in 1 .. Len(st) /\ Len(st) \in 1 .. Len(st)
  BY <1>1
<1>3. SubSeq(st \o u, 1, Len(st)) = SubSeq(st, 1, Len(st))
  BY <1>1, <1>2, SubSeqOfConcat1
<1>4. SubSeq(st, 1, Len(st)) = st
  BY <1>1, SubSeqFull
<1>5. Len(st) \in Len(s) + 1 .. Len(st \o u)
  BY <1>1
<1>6. QED  BY <1>3, <1>4, <1>5

\* Nothing enters or leaves the link towards the bus but by Write, OnEvents
\* and the end of Stop.
LEMMA TxFrame ==
  ASSUME [Next]_vars, ~Write, ~OnEvents, ~FinishStop
  PROVE  UNCHANGED <<accepted, reported>>
<1>1. CASE MainNext
  BY <1>1 DEF MainNext, Request, RequestClose, SetConfig, LoadPort, DerefPort,
     DerefDestroyed, ProcessDies, WaitWake, WaitTimeout, BeginStop, Spawn,
     DispatchEvent, histVars
<1>2. CASE WorkerNext
  BY <1>2 DEF WorkerNext, WorkerCreate, WorkerOpen, WorkerConfigure, WorkerOpenThrows,
     ProcessDies, WorkerWaitStop, WorkerRead, WorkerTake, WorkerWrite,
     WorkerPublish, WorkerClose, WorkerClosePort, histVars
<1>3. CASE BusNext \/ Halted \/ UNCHANGED vars
  BY <1>3 DEF BusNext, FrameArrives, FrameWakesReader, Halted, vars, histVars
<1>4. QED  BY <1>1, <1>2, <1>3 DEF Next

\* Write is a Send, OnEvents with packets a Deliver, the end of Stop a Reset.
THEOREM TxImplementsFifo == Spec => TxIsFifo
<1>1. Init => TxLink!LinkInit
  BY DEF Init, TxLink!LinkInit
<1>2. SafetyInductive /\ [Next]_vars => [TxLink!LinkNext]_<<accepted, reported>>
  <2> SUFFICES ASSUME SafetyInductive, [Next]_vars
               PROVE  TxLink!LinkNext \/ UNCHANGED <<accepted, reported>>
    BY DEF TxLink!linkVars
  <2>1. CASE Write
    BY <2>1 DEF Write, TxLink!LinkNext, TxLink!Send
  <2>2. CASE OnEvents
    <3>1. reported' = reported \o TxEvents /\ accepted' = accepted
      BY <2>2 DEF OnEvents
    <3>2. /\ reported \in Seq(Packets) /\ TxEvents \in Seq(Packets)
          /\ written \in Seq(Packets) /\ txq \in Seq(Packets) /\ TxQueue \in Seq(Packets)
      BY DEF SafetyInductive, TypeOK
    <3>3. CASE TxEvents = <<>>
      BY <3>1, <3>2, <3>3, ConcatEmptySeq
    <3>4. CASE TxEvents # <<>>
      <4>1. written \o (txq \o TxQueue) \in Seq(Packets)
        BY <3>2, QueueTypes
      <4>2. accepted = reported \o TxEvents \o (written \o (txq \o TxQueue))
        <5>1. txq \in Seq(Packets) /\ TxQueue \in Seq(Packets)
          BY <3>2
        <5>2. reported \o TxEvents \o written \in Seq(Packets)
          BY <3>2, QueueTypes
        <5>3. reported \o TxEvents \o written \o txq \o TxQueue
                = reported \o TxEvents \o written \o (txq \o TxQueue)
          BY ONLY <5>1, <5>2, PacketsAssociate, Zenon
        <5>4. reported \o TxEvents \in Seq(Packets) /\ txq \o TxQueue \in Seq(Packets)
          BY <3>2, QueueTypes
        <5>5. written \in Seq(Packets)
          BY <3>2
        <5>6. reported \o TxEvents \o written \o (txq \o TxQueue)
                = reported \o TxEvents \o (written \o (txq \o TxQueue))
          BY ONLY <5>4, <5>5, PacketsAssociate, Zenon
        <5>7. QED  BY <5>3, <5>6 DEF SafetyInductive, TxConserved
      <4>3. \E n \in Len(reported) + 1 .. Len(accepted) :
              reported \o TxEvents = SubSeq(accepted, 1, n)
        <5>1. reported \in Seq(Packets) /\ TxEvents \in Seq(Packets)
          BY <3>2
        <5>2. QED  BY ONLY <5>1, <3>4, <4>1, <4>2, PrefixGrows, Zenon
      <4>4. QED  BY <3>1, <4>3 DEF TxLink!LinkNext, TxLink!Deliver
    <3>5. QED  BY <3>3, <3>4
  <2>3. CASE FinishStop
    BY <2>3 DEF FinishStop, ClearSession, TxLink!LinkNext, TxLink!Reset
  <2>4. QED  BY <2>1, <2>2, <2>3, TxFrame
<1>3. QED  BY <1>1, <1>2, SafetyInvariant, PTL DEF Spec, TxIsFifo, TxLink!LinkSpec, TxLink!linkVars

\* Nothing enters or leaves the link from the bus but by an arriving frame,
\* OnEvents and the end of Stop.
LEMMA RxFrame ==
  ASSUME [Next]_vars, ~FrameArrives, ~OnEvents, ~FinishStop
  PROVE  UNCHANGED <<arrived, delivered>>
<1>1. CASE MainNext
  BY <1>1 DEF MainNext, Request, RequestClose, SetConfig, LoadPort, DerefPort,
     DerefDestroyed, ProcessDies, WaitWake, WaitTimeout, Write, BeginStop, Spawn,
     DispatchEvent, histVars
<1>2. CASE WorkerNext
  BY <1>2 DEF WorkerNext, WorkerCreate, WorkerOpen, WorkerConfigure, WorkerOpenThrows,
     ProcessDies, WorkerWaitStop, WorkerRead, WorkerTake, WorkerWrite,
     WorkerPublish, WorkerClose, WorkerClosePort, histVars
<1>3. CASE FrameWakesReader \/ Halted \/ UNCHANGED vars
  BY <1>3 DEF FrameWakesReader, Halted, vars, histVars
<1>4. QED  BY <1>1, <1>2, <1>3 DEF Next, BusNext

\* A frame that arrives is a Send, OnEvents with frames a Deliver, the end of
\* Stop a Reset.
THEOREM RxImplementsFifo == Spec => RxIsFifo
<1>1. Init => RxLink!LinkInit
  BY DEF Init, RxLink!LinkInit
<1>2. SafetyInductive /\ [Next]_vars => [RxLink!LinkNext]_<<arrived, delivered>>
  <2> SUFFICES ASSUME SafetyInductive, [Next]_vars
               PROVE  RxLink!LinkNext \/ UNCHANGED <<arrived, delivered>>
    BY DEF RxLink!linkVars
  <2>1. CASE FrameArrives
    BY <2>1 DEF FrameArrives, RxLink!LinkNext, RxLink!Send
  <2>2. CASE OnEvents
    <3>1. delivered' = delivered \o RxEvents /\ arrived' = arrived
      BY <2>2 DEF OnEvents
    <3>2. /\ delivered \in Seq(Packets) /\ RxEvents \in Seq(Packets)
          /\ readPackets \in Seq(Packets) /\ portRx \in Seq(Packets)
      BY DEF SafetyInductive, TypeOK
    <3>3. CASE RxEvents = <<>>
      BY <3>1, <3>2, <3>3, ConcatEmptySeq
    <3>4. CASE RxEvents # <<>>
      <4>1. main # "join" /\ Alive
        BY <2>2 DEF OnEvents, Alive
      <4>2. worker \in Serving
        BY <3>4, <4>1 DEF SafetyInductive, ThreadsCoupled, HandsCoupled, TypeOK,
           WorkerStates, Alive
      <4>3. port.open
        BY <4>1, <4>2 DEF SafetyInductive, PortCoupled
      <4>4. /\ readPackets \o portRx \in Seq(Packets)
            /\ delivered \o RxEvents \in Seq(Packets)
        BY <3>2, QueueTypes
      <4>5. arrived = delivered \o RxEvents \o (readPackets \o portRx)
        <5>1. arrived = delivered \o RxEvents \o readPackets \o portRx
          BY <4>3 DEF SafetyInductive, RxConserved
        <5>2. QED  BY <3>2, <4>4, <5>1, ConcatAssociative
      <4>6. \E n \in Len(delivered) + 1 .. Len(arrived) :
              delivered \o RxEvents = SubSeq(arrived, 1, n)
        <5>1. delivered \in Seq(Packets) /\ RxEvents \in Seq(Packets)
          BY <3>2
        <5>2. readPackets \o portRx \in Seq(Packets)
          BY <4>4
        <5>3. QED  BY ONLY <5>1, <5>2, <3>4, <4>5, PrefixGrows, Zenon
      <4>7. QED  BY <3>1, <4>6 DEF RxLink!LinkNext, RxLink!Deliver
    <3>5. QED  BY <3>3, <3>4
  <2>3. CASE FinishStop
    BY <2>3 DEF FinishStop, ClearSession, RxLink!LinkNext, RxLink!Reset
  <2>4. QED  BY <2>1, <2>2, <2>3, RxFrame
<1>3. QED  BY <1>1, <1>2, SafetyInvariant, PTL DEF Spec, RxIsFifo, RxLink!LinkSpec, RxLink!linkVars

-----------------------------------------------------------------------------
(* The two threads together implement PortService. *)

\* The worker hands packets on; what is still to be reported stays the same.
LEMMA TxPendingStays ==
  ASSUME TypeOK, HandsCoupled, WorkerTake \/ WorkerWrite \/ WorkerPublish
  PROVE  TxPending' = TxPending
<1>1. /\ TxEvents \in Seq(Packets) /\ written \in Seq(Packets)
      /\ txq \in Seq(Packets) /\ TxQueue \in Seq(Packets)
  BY DEF TypeOK
<1>2. CASE WorkerTake
  <2>1. /\ txq = <<>> /\ txq' = TxQueue /\ TxQueue' = <<>>
        /\ UNCHANGED <<TxEvents, written>>
    BY <1>2 DEF WorkerTake, HandsCoupled
  <2>2. txq' \o TxQueue' = txq \o TxQueue
    BY <1>1, <2>1, ConcatEmptySeq
  <2>. QED
    BY <2>1, <2>2 DEF TxPending
<1>3. CASE WorkerWrite
  <2>1. /\ written' = Append(written, Head(txq)) /\ txq' = Tail(txq) /\ txq # <<>>
        /\ UNCHANGED <<TxEvents, TxQueue>>
    BY <1>3 DEF WorkerWrite, queueVars
  <2>2. Append(written, Head(txq)) \in Seq(Packets) /\ Tail(txq) \in Seq(Packets)
    BY <1>1, <2>1, HeadTailProperties, AppendProperties
  <2>3. Append(written, Head(txq)) \o (Tail(txq) \o TxQueue)
          = (Append(written, Head(txq)) \o Tail(txq)) \o TxQueue
    BY <1>1, <2>2, PacketsAssociate
  <2>4. Append(written, Head(txq)) \o Tail(txq) = written \o txq
    BY <1>1, <2>1, MoveHead
  <2>5. (written \o txq) \o TxQueue = written \o (txq \o TxQueue)
    BY <1>1, PacketsAssociate
  <2>. QED
    BY <2>1, <2>3, <2>4, <2>5 DEF TxPending
<1>4. CASE WorkerPublish
  <2>1. \/ TxEvents' = TxEvents \o written
        \/ written = <<>> /\ TxEvents' = TxEvents
    BY <1>4 DEF WorkerPublish, InsertEvents
  <2>2. written' = <<>> /\ UNCHANGED <<txq, TxQueue>>
    BY <1>4 DEF WorkerPublish
  <2>3. txq \o TxQueue \in Seq(Packets)
    BY <1>1, QueueTypes
  <2>4. /\ (TxEvents \o written) \o (txq \o TxQueue) = TxPending
        /\ <<>> \o (txq \o TxQueue) = txq \o TxQueue
    BY <1>1, <2>3, PacketsAssociate, ConcatEmptySeq DEF TxPending
  <2>. QED
    BY <2>1, <2>2, <2>4 DEF TxPending
<1>. QED
  BY <1>2, <1>3, <1>4

LEMMA RxPendingStays ==
  ASSUME TypeOK, WorkerRead \/ WorkerPublish
  PROVE  RxPending' = RxPending
<1>1. /\ RxEvents \in Seq(Packets) /\ readPackets \in Seq(Packets) /\ portRx \in Seq(Packets)
  BY DEF TypeOK
<1>2. CASE WorkerRead
  <2>1. /\ readPackets' = Append(readPackets, Head(portRx)) /\ portRx' = Tail(portRx)
        /\ portRx # <<>> /\ UNCHANGED RxEvents
    BY <1>2 DEF WorkerRead, queueVars
  <2>2. Append(readPackets, Head(portRx)) \o Tail(portRx) = readPackets \o portRx
    BY <1>1, <2>1, MoveHead
  <2>. QED
    BY <2>1, <2>2 DEF RxPending
<1>3. CASE WorkerPublish
  <2>1. \/ RxEvents' = RxEvents \o readPackets
        \/ readPackets = <<>> /\ RxEvents' = RxEvents
    BY <1>3 DEF WorkerPublish, InsertEvents
  <2>2. readPackets' = <<>> /\ UNCHANGED portRx
    BY <1>3 DEF WorkerPublish, portVars
  <2>3. /\ (RxEvents \o readPackets) \o portRx = RxPending
        /\ <<>> \o portRx = portRx
    BY <1>1, PacketsAssociate, ConcatEmptySeq DEF RxPending
  <2>. QED
    BY <2>1, <2>2, <2>3 DEF RxPending
<1>. QED
  BY <1>2, <1>3

\* A packet that comes in joins the end; what OnEvents takes was the beginning.
LEMMA PendingGrows ==
  ASSUME TypeOK, NEW p \in Packets
  PROVE  /\ TxEvents \o (written \o (txq \o Append(TxQueue, p))) = Append(TxPending, p)
         /\ RxEvents \o (readPackets \o Append(portRx, p)) = Append(RxPending, p)
<1>1. /\ TxEvents \in Seq(Packets) /\ written \in Seq(Packets)
      /\ txq \in Seq(Packets) /\ TxQueue \in Seq(Packets)
      /\ RxEvents \in Seq(Packets) /\ readPackets \in Seq(Packets) /\ portRx \in Seq(Packets)
  BY DEF TypeOK
<1>2. /\ txq \o TxQueue \in Seq(Packets) /\ written \o (txq \o TxQueue) \in Seq(Packets)
      /\ readPackets \o portRx \in Seq(Packets)
  BY <1>1, QueueTypes
<1>3. \A s, t \in Seq(Packets) : s \o Append(t, p) = Append(s \o t, p)
  BY AppendToLast
<1>4. /\ txq \o Append(TxQueue, p) = Append(txq \o TxQueue, p)
      /\ written \o Append(txq \o TxQueue, p) = Append(written \o (txq \o TxQueue), p)
      /\ TxEvents \o Append(written \o (txq \o TxQueue), p)
           = Append(TxEvents \o (written \o (txq \o TxQueue)), p)
  BY ONLY <1>1, <1>2, <1>3, Zenon
<1>5. /\ readPackets \o Append(portRx, p) = Append(readPackets \o portRx, p)
      /\ RxEvents \o Append(readPackets \o portRx, p)
           = Append(RxEvents \o (readPackets \o portRx), p)
  BY ONLY <1>1, <1>2, <1>3, Zenon
<1>. QED
  BY <1>4, <1>5, Zenon DEF TxPending, RxPending

LEMMA RestOfConcat ==
  ASSUME NEW s \in Seq(Packets), NEW t \in Seq(Packets)
  PROVE  /\ Len(s) \in 0 .. Len(s \o t)
         /\ t = SubSeq(s \o t, Len(s) + 1, Len(s \o t))
<1>1. /\ s \o t \in Seq(Packets) /\ Len(s \o t) = Len(s) + Len(t)
      /\ Len(s) \in Nat /\ Len(t) \in Nat
  BY ConcatProperties, LenProperties
<1>. QED
  BY <1>1

LEMMA OnEventsReports ==
  ASSUME TypeOK, OnEvents
  PROVE  /\ \E n \in 0 .. Len(RxPending) : RxPending' = SubSeq(RxPending, n + 1, Len(RxPending))
         /\ \E m \in 0 .. Len(TxPending) : TxPending' = SubSeq(TxPending, m + 1, Len(TxPending))
<1>1. /\ TxEvents \in Seq(Packets) /\ written \in Seq(Packets)
      /\ txq \in Seq(Packets) /\ TxQueue \in Seq(Packets)
      /\ RxEvents \in Seq(Packets) /\ readPackets \in Seq(Packets) /\ portRx \in Seq(Packets)
  BY DEF TypeOK
<1>2. written \o (txq \o TxQueue) \in Seq(Packets) /\ readPackets \o portRx \in Seq(Packets)
  BY <1>1, QueueTypes
<1>3. /\ RxEvents' = <<>> /\ TxEvents' = <<>>
      /\ UNCHANGED <<written, txq, TxQueue, readPackets, portRx>>
  BY DEF OnEvents, workerVars, portVars
<1>4. TxPending' = written \o (txq \o TxQueue) /\ RxPending' = readPackets \o portRx
  BY <1>2, <1>3, ConcatEmptySeq DEF TxPending, RxPending
<1>5. \A s, t \in Seq(Packets) :
        \E n \in 0 .. Len(s \o t) : t = SubSeq(s \o t, n + 1, Len(s \o t))
  BY RestOfConcat
<1>6. \E n \in 0 .. Len(RxPending) : readPackets \o portRx = SubSeq(RxPending, n + 1, Len(RxPending))
  BY ONLY <1>1, <1>2, <1>5, Zenon DEF RxPending
<1>7. \E m \in 0 .. Len(TxPending) :
        written \o (txq \o TxQueue) = SubSeq(TxPending, m + 1, Len(TxPending))
  BY ONLY <1>1, <1>2, <1>5, Zenon DEF TxPending
<1>. QED
  BY <1>4, <1>6, <1>7, Zenon

\* A step that keeps the port and the packets, and neither begins nor ends to
\* stop it, is none of the PortService.
LEMMA PortStutters ==
  ASSUME PortState' = PortState, PortState = "on" => UNCHANGED <<TxPending, RxPending>>
  PROVE  UNCHANGED PortView!portVars
BY DEF PortView!portVars

LEMMA PortStops == ASSUME PortState' = "off" PROVE PortView!PortNext
BY DEF PortView!PortNext, PortView!Stop

\* The main thread takes packets, reports them, stops and restarts.
LEMMA MainServes ==
  ASSUME SafetyInductive, MainNext
  PROVE  PortView!PortNext \/ UNCHANGED PortView!portVars
<1>. USE DEF PortState, Stopping
<1>1. CASE main' \in {"stop", "dead"}
  BY <1>1, PortStops
<1>2. CASE Write
  <2>1. PICK p \in Packets : TxQueue' = Append(TxQueue, p)
    BY <1>2 DEF Write
  <2>2. PortState = "on" /\ PortState' = "on"
    BY <1>2 DEF Write, SafetyInductive, PortCoupled, Serving, Alive, workerVars, portVars
  <2>3. TxPending' = Append(TxPending, p) /\ UNCHANGED RxPending
    BY <1>2, <2>1, PendingGrows
       DEF Write, TxPending, RxPending, workerVars, portVars, SafetyInductive
  <2>. QED
    BY <2>2, <2>3 DEF PortView!PortNext, PortView!Write
<1>3. CASE OnEvents
  <2>1. PortState' = PortState
    BY <1>3 DEF OnEvents, workerVars, portVars
  <2>2. PortState = "on" => PortView!PortNext
    BY <1>3, <2>1, OnEventsReports DEF SafetyInductive, PortView!PortNext, PortView!Report
  <2>. QED
    BY <2>1, <2>2, PortStutters
<1>4. CASE BeginStop \/ FinishStop
  <2>1. PortState = "off" /\ PortState' = "off"
    BY <1>4 DEF BeginStop, FinishStop, ClearSession
  <2>. QED
    BY <2>1, PortStutters
<1>5. CASE Spawn
  <2>1. PortState' = "opening"
    BY <1>5 DEF Spawn, portVars, SafetyInductive, ThreadsCoupled, PortCoupled, Serving, Alive
  <2>. QED
    BY <2>1 DEF PortView!PortNext, PortView!Restart
<1>6. CASE main' \notin {"stop", "dead"} /\ ~Write /\ ~OnEvents /\ ~BeginStop /\ ~FinishStop /\ ~Spawn
  <2>1. /\ UNCHANGED <<workerVars, portVars, queueVars>>
        /\ main' \notin {"stop", "join", "spawn", "dead"}
        /\ main \notin {"stop", "join", "spawn", "dead"}
    BY <1>6 DEF MainNext, Request, RequestClose, SetConfig, LoadPort, DerefPort, AfterProbe,
       DerefDestroyed, ProcessDies, WaitWake, WaitTimeout, DispatchEvent, mainVars
  <2>. QED
    BY <2>1, PortStutters DEF workerVars, portVars, queueVars, TxPending, RxPending
<1>. QED
  BY <1>1, <1>2, <1>3, <1>4, <1>5, <1>6

\* The worker opens it, and passes packets on; what it does after "cp" or in
\* another session is not seen.
LEMMA WorkerServes ==
  ASSUME SafetyInductive, WorkerNext
  PROVE  PortView!PortNext \/ UNCHANGED PortView!portVars
<1>. USE DEF PortState, Stopping, SafetyInductive, ThreadsCoupled, PortCoupled, Alive
<1>1. CASE WorkerOpenThrows
  BY <1>1, PortStops DEF WorkerOpenThrows, ProcessDies
<1>2. UNCHANGED main \/ WorkerOpenThrows
  BY DEF WorkerNext, WorkerCreate, WorkerOpen, WorkerConfigure, WorkerWaitStop, WorkerRead,
     WorkerTake, WorkerWrite, WorkerPublish, WorkerClose, WorkerClosePort, mainVars
<1>3. worker # "none" /\ (worker' # "none" \/ WorkerOpenThrows)
  BY DEF WorkerNext, WorkerCreate, WorkerOpen, WorkerConfigure, WorkerOpenThrows, WorkerWaitStop,
     WorkerRead, WorkerTake, WorkerWrite, WorkerPublish, WorkerClose, WorkerClosePort, workerVars
<1>4. CASE Stopping /\ ~WorkerOpenThrows
  <2>1. PortState = "off" /\ PortState' = "off"
    BY <1>2, <1>4
  <2>. QED
    BY <2>1, PortStutters
<1>5. CASE ~Stopping /\ WorkerCreate
  <2>1. ~port.open /\ ~port'.open
    BY <1>5 DEF WorkerCreate, Serving
  <2>2. PortState = "opening" /\ PortState' = "opening"
    BY <1>2, <1>3, <1>5, <2>1 DEF WorkerCreate, WorkerOpenThrows
  <2>. QED
    BY <2>2, PortStutters
<1>6. CASE ~Stopping /\ WorkerOpen
  <2>1. PortState = "opening" /\ PortState' \in {"opening", "on"}
    BY <1>6 DEF WorkerOpen, Serving, mainVars
  <2>2. TxPending' = <<>> /\ RxPending' = <<>>
    <3>1. /\ TxEvents = <<>> /\ written = <<>> /\ txq = <<>> /\ TxQueue = <<>>
          /\ RxEvents = <<>> /\ readPackets = <<>> /\ portRx = <<>>
      BY <1>6 DEF WorkerOpen, HandsCoupled
    <3>2. UNCHANGED <<TxEvents, written, txq, TxQueue, RxEvents, readPackets, portRx>>
      BY <1>6 DEF WorkerOpen, queueVars
    <3>3. <<>> \o <<>> = <<>>
      BY QueueTypes, ConcatEmptySeq
    <3>. QED
      BY <3>1, <3>2, <3>3 DEF TxPending, RxPending
  <2>. QED
    BY <2>1, <2>2, PortStutters DEF PortView!PortNext, PortView!Opens
<1>7. CASE ~Stopping /\ (WorkerConfigure \/ WorkerWaitStop)
  <2>1. UNCHANGED <<main, port, portRx, readPackets, txq, written, queueVars>> /\ worker' # "none"
    BY <1>7 DEF WorkerConfigure, WorkerWaitStop, mainVars, portVars
  <2>2. PortState' = PortState
    BY <1>3, <2>1
  <2>3. UNCHANGED <<TxPending, RxPending>>
    BY <2>1 DEF queueVars, TxPending, RxPending
  <2>. QED
    BY <2>2, <2>3, PortStutters
<1>8. CASE ~Stopping /\ (WorkerRead \/ WorkerTake \/ WorkerWrite \/ WorkerPublish)
  <2>1. UNCHANGED port /\ PortState' = PortState
    BY <1>2, <1>3, <1>8 DEF WorkerRead, WorkerTake, WorkerWrite, WorkerPublish, portVars, mainVars
  <2>2. TxPending' = TxPending
    BY <1>8, TxPendingStays DEF WorkerRead, queueVars, TxPending
  <2>3. RxPending' = RxPending
    BY <1>8, RxPendingStays DEF WorkerTake, WorkerWrite, queueVars, portVars, RxPending
  <2>. QED
    BY <2>1, <2>2, <2>3, PortStutters
<1>9. CASE ~Stopping /\ (WorkerClose \/ WorkerClosePort)
  BY <1>9 DEF WorkerClose, WorkerClosePort
<1>. QED
  BY <1>1, <1>4, <1>5, <1>6, <1>7, <1>8, <1>9 DEF WorkerNext

LEMMA BusServes ==
  ASSUME SafetyInductive, BusNext
  PROVE  PortView!PortNext \/ UNCHANGED PortView!portVars
<1>. USE DEF PortState, Stopping, SafetyInductive, ThreadsCoupled, PortCoupled, Alive
<1>1. UNCHANGED <<mainVars, port>> /\ worker # "none" /\ worker' # "none"
  BY DEF BusNext, FrameArrives, FrameWakesReader, workerVars, portVars, Serving
<1>2. PortState' = PortState
  BY <1>1 DEF mainVars
<1>3. CASE Stopping
  BY <1>2, <1>3, PortStutters
<1>4. CASE ~Stopping /\ FrameArrives
  <2>1. PortState = "on"
    BY <1>1, <1>4 DEF FrameArrives, Serving
  <2>2. PICK p \in Packets : portRx' = Append(portRx, p)
    BY <1>4 DEF FrameArrives
  <2>3. RxPending' = Append(RxPending, p) /\ UNCHANGED TxPending
    BY <1>4, <2>2, PendingGrows DEF FrameArrives, TxPending, RxPending, workerVars, queueVars
  <2>. QED
    BY <1>2, <2>1, <2>3 DEF PortView!PortNext, PortView!Arrives
<1>5. CASE ~Stopping /\ FrameWakesReader
  BY <1>5 DEF FrameWakesReader
<1>. QED
  BY <1>3, <1>4, <1>5 DEF BusNext

\* Whatever the two threads interleave, the handlers of ServerApp deal with one
\* port that is off, opening or on, takes packets only when it is on, and reports
\* each once.
THEOREM ThreadsImplementPort == Spec => IsPortService
<1>1. Init => PortView!PortInit
  BY DEF Init, PortView!PortInit, PortState, Stopping
<1>2. SafetyInductive /\ [Next]_vars => [PortView!PortNext]_(PortView!portVars)
  <2>1. ASSUME SafetyInductive, Halted \/ UNCHANGED vars
        PROVE  UNCHANGED PortView!portVars
    BY <2>1 DEF Halted, PortView!portVars, PortState, Stopping, TxPending, RxPending,
       vars, mainVars, workerVars, portVars, queueVars
  <2>. QED
    BY <2>1, MainServes, WorkerServes, BusServes DEF Next
<1>3. QED  BY <1>1, <1>2, SafetyInvariant, PTL DEF Spec, IsPortService, PortView!PortSpec
=============================================================================
