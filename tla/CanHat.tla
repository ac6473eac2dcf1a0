------------------------------- MODULE CanHat -------------------------------
(***************************************************************************)
(* The SocketCAN port (App/CanHat.cpp): the worker thread of the           *)
(* transporter opens, reads and closes it, a reader thread of its own      *)
(* takes frames out of the socket.  They share RxQueue, a std::deque, with *)
(* no lock, and threadFlag, an atomic.                                     *)
(*                                                                         *)
(* Transporter sees the port as a queue that frames get into one by one;   *)
(* this module shows what the two threads make of that.  Frames are        *)
(* numbered as they come in a session, so that the frames 1 .. arrived are *)
(* those that the kernel accepted for the socket.                          *)
(***************************************************************************)
EXTENDS Integers, Sequences, FiniteSets

CONSTANTS Descriptors,   \* file descriptors the process may have
          MaxFrames,     \* bound: frames of a session, and one while it closes
          SocketBuffer,  \* frames the kernel keeps for a socket
          Block          \* packets in a block of the std::deque: 512 bytes of
                         \* libstdc++ hold 21 packets of 24 bytes

ASSUME DescriptorsAssumption == Descriptors \subseteq Nat /\ IsFiniteSet(Descriptors)
ASSUME BoundsAssumption == MaxFrames \in Nat /\ SocketBuffer \in Nat \ {0}
ASSUME BlockAssumption == Block \in Nat \ {0}

NoFd == -1
Garbage == 0
Frames == 1 .. MaxFrames + 1

VARIABLES worker,       \* "idle", "open", "run", "join" (waits for the reader)
          reader,       \* "none", "check", "read", "parsed", "pushing", "done"
          frame,        \* what the reader has read and not yet pushed
          threadFlag, isOpened, canSocketFd, RxQueue,
          descriptors,  \* open descriptors of the process
          buffer,       \* frames in the kernel, for the socket
          arrived,      \* number of frames accepted in this session
          got,          \* what Read gave to the worker in this session
          leaked,       \* descriptors of sockets that Open gave up on
          corrupt       \* a data race tore the deque: anything may follow

sessionVars == <<frame, RxQueue, buffer, arrived, got>>
portVars == <<threadFlag, isOpened, canSocketFd, descriptors, leaked>>
vars == <<worker, reader, sessionVars, portVars, corrupt>>

(* Definitions named <Definition>_<Fault> are seeded faults, as in Transporter. *)

-----------------------------------------------------------------------------
Init ==
  /\ worker = "idle" /\ reader = "none" /\ frame = <<>>
  /\ threadFlag = FALSE /\ isOpened = FALSE /\ canSocketFd = NoFd
  /\ RxQueue = <<>> /\ descriptors = {} /\ buffer = <<>>
  /\ arrived = 0 /\ got = <<>> /\ leaked = {} /\ corrupt = FALSE

(* The worker: ThreadProc calls these in this order. *)

\* CreateCanHat leaves canSocketFd uninitialised.  The port object of the last
\* session is destroyed, which closes it once more: nothing is left to close.
CreateCanHat ==
  /\ worker = "idle" /\ worker' = "open"
  /\ threadFlag' = FALSE /\ isOpened' = FALSE /\ canSocketFd' \in Descriptors \cup {NoFd}
  /\ RxQueue' = <<>>
  /\ UNCHANGED <<reader, frame, buffer, arrived, got, descriptors, leaked, corrupt>>

\* Open: no socket; a socket, but no interface to bind it to; or an open port.
OpenNoSocket ==
  /\ worker = "open" /\ worker' = "idle" /\ canSocketFd' = NoFd
  /\ UNCHANGED <<reader, sessionVars, threadFlag, isOpened, descriptors, leaked, corrupt>>

OpenNoInterface ==
  /\ worker = "open" /\ worker' = "idle"
  /\ \E fd \in Descriptors \ descriptors :
       canSocketFd' = fd /\ descriptors' = descriptors \cup {fd} /\ leaked' = leaked \cup {fd}
  /\ UNCHANGED <<reader, sessionVars, threadFlag, isOpened, corrupt>>

OpenBound_Flagless ==
  /\ worker = "open" /\ worker' = "run"
  /\ \E fd \in Descriptors \ descriptors :
       canSocketFd' = fd /\ descriptors' = descriptors \cup {fd}
  /\ isOpened' = TRUE /\ reader' = "check"
  /\ UNCHANGED <<sessionVars, threadFlag, leaked, corrupt>>
OpenBound ==
  /\ worker = "open" /\ worker' = "run"
  /\ \E fd \in Descriptors \ descriptors :
       canSocketFd' = fd /\ descriptors' = descriptors \cup {fd}
  /\ isOpened' = TRUE /\ threadFlag' = TRUE /\ reader' = "check"
  /\ UNCHANGED <<sessionVars, leaked, corrupt>>

\* Read of one packet takes the front of RxQueue.  If the reader is inside
\* push_back, this is a data race: a push into the empty deque may be seen or
\* not, or seen before the packet is written.  A push that fills a block also
\* moves the end to a new one: a read that meets it may find any size and front.
ReadFront ==
  /\ RxQueue # <<>>
  /\ got' = Append(got, Head(RxQueue)) /\ RxQueue' = Tail(RxQueue)
  /\ UNCHANGED <<reader, frame, corrupt>>
ReadPushed ==
  /\ reader = "pushing" /\ RxQueue = <<>>
  /\ \E packet \in {frame[1], Garbage} : got' = Append(got, packet)
  /\ reader' = "check" /\ frame' = <<>>
  /\ UNCHANGED <<RxQueue, corrupt>>
FillsBlock == (Len(got) + Len(RxQueue) + 1) % Block = 0
ReadTorn ==
  /\ reader = "pushing" /\ FillsBlock /\ corrupt' = TRUE
  /\ UNCHANGED <<got, RxQueue, reader, frame>>
Read ==
  /\ worker = "run" /\ (ReadFront \/ ReadPushed \/ ReadTorn)
  /\ UNCHANGED <<worker, buffer, arrived, portVars>>

\* Close: the flag, then the wait for the reader, then the socket.
CloseBegins_KeepsFlag ==
  /\ worker = "run" /\ worker' = "join"
  /\ UNCHANGED <<reader, sessionVars, portVars, corrupt>>
CloseBegins ==
  /\ worker = "run" /\ worker' = "join" /\ threadFlag' = FALSE
  /\ UNCHANGED <<reader, sessionVars, isOpened, canSocketFd, descriptors, leaked, corrupt>>

ClosesSocket_FlagFirst ==
  /\ RxQueue' = <<>> /\ buffer' = <<>> /\ arrived' = 0 /\ got' = <<>>
  /\ isOpened' = FALSE /\ worker' = "idle"
  /\ UNCHANGED <<frame, threadFlag, canSocketFd, descriptors, leaked, corrupt>>
ClosesSocket ==
  /\ RxQueue' = <<>> /\ buffer' = <<>> /\ arrived' = 0 /\ got' = <<>>
  /\ isOpened' = FALSE /\ descriptors' = descriptors \ {canSocketFd}
  /\ worker' = "idle"
  /\ UNCHANGED <<frame, threadFlag, canSocketFd, leaked, corrupt>>
CloseEnds_Detaches == worker = "join" /\ ClosesSocket /\ UNCHANGED reader
CloseEnds == worker = "join" /\ reader = "done" /\ reader' = "none" /\ ClosesSocket

-----------------------------------------------------------------------------
(* The reader: ReadThread. *)

ReaderChecks ==
  /\ reader = "check"
  /\ reader' = IF threadFlag THEN "read" ELSE "done"
  /\ UNCHANGED <<worker, sessionVars, portVars, corrupt>>

\* read() blocks until there is a frame, or fails: the interface went down.
ReaderReads ==
  /\ reader = "read" /\ buffer # <<>> /\ reader' = "parsed"
  /\ frame' = <<Head(buffer)>> /\ buffer' = Tail(buffer)
  /\ UNCHANGED <<worker, RxQueue, arrived, got, portVars, corrupt>>
ReaderReadFails ==
  /\ reader = "read" /\ reader' = "check"
  /\ UNCHANGED <<worker, sessionVars, portVars, corrupt>>

PushBegins ==
  /\ reader = "parsed" /\ reader' = "pushing"
  /\ UNCHANGED <<worker, sessionVars, portVars, corrupt>>
PushEnds_Front ==
  /\ reader = "pushing" /\ reader' = "check"
  /\ RxQueue' = frame \o RxQueue /\ frame' = <<>>
  /\ UNCHANGED <<worker, buffer, arrived, got, portVars, corrupt>>
PushEnds ==
  /\ reader = "pushing" /\ reader' = "check"
  /\ RxQueue' = RxQueue \o frame /\ frame' = <<>>
  /\ UNCHANGED <<worker, buffer, arrived, got, portVars, corrupt>>

(* The bus: the kernel drops a frame for which the socket has no room. *)

FrameArrives ==
  /\ isOpened /\ Len(buffer) < SocketBuffer
  /\ arrived < MaxFrames + (IF worker = "join" THEN 1 ELSE 0)
  /\ arrived' = arrived + 1 /\ buffer' = Append(buffer, arrived + 1)
  /\ UNCHANGED <<worker, reader, frame, RxQueue, got, portVars, corrupt>>

-----------------------------------------------------------------------------
WorkerNext ==
  \/ CreateCanHat \/ OpenNoSocket \/ OpenNoInterface \/ OpenBound
  \/ Read \/ CloseBegins \/ CloseEnds
ReaderNext ==
  ReaderChecks \/ ReaderReads \/ ReaderReadFails \/ PushBegins \/ PushEnds

Halted == corrupt /\ UNCHANGED vars
Next == Halted \/ (~corrupt /\ (WorkerNext \/ ReaderNext \/ FrameArrives))

Spec == Init /\ [][Next]_vars

\* Both threads run, the worker reads in every cycle, an error of the interface
\* fails one read and not every read, and the bus carries another frame while
\* Close waits.
BusyBusSpec ==
  /\ Spec /\ WF_vars(Read) /\ WF_vars(CloseEnds)
  /\ WF_vars(ReaderChecks \/ PushBegins \/ PushEnds) /\ SF_vars(ReaderReads)
  /\ WF_vars(worker = "join" /\ FrameArrives)

-----------------------------------------------------------------------------
\* Type correctness; an open port has a descriptor.
TypeOK ==
  /\ worker \in {"idle", "open", "run", "join"}
  /\ reader \in {"none", "check", "read", "parsed", "pushing", "done"}
  /\ frame \in Seq(Frames) /\ Len(frame) <= 1
  /\ threadFlag \in BOOLEAN /\ isOpened \in BOOLEAN /\ corrupt \in BOOLEAN
  /\ canSocketFd \in Descriptors \cup {NoFd} /\ (isOpened => canSocketFd # NoFd)
  /\ descriptors \subseteq Descriptors /\ leaked \subseteq Descriptors
  /\ RxQueue \in Seq(Frames) /\ buffer \in Seq(Frames)
  /\ got \in Seq(Frames \cup {Garbage}) /\ arrived \in 0 .. MaxFrames + 1

\* What the worker gets is frame by frame what arrived, also where a read overlaps a
\* push: the frame may come out as garbage, but none is lost or doubled or comes
\* late because of it. The exception is the read that meets the push that fills a
\* block: after it nothing is promised, but no session has it before its Block-th
\* frame.
OnTheWay == RxQueue \o frame \o buffer
FramesInPlace ==
  /\ corrupt => arrived >= Block
  /\ ~corrupt =>
       /\ Len(got) + Len(OnTheWay) = arrived
       /\ \A k \in DOMAIN got : got[k] \in {k, Garbage}
       /\ \A k \in DOMAIN OnTheWay : OnTheWay[k] = Len(got) + k

\* The reader runs on the socket of the port that started it: the socket stays
\* open, and the port object exists, until the reader has ended.
ReaderOnOwnSocket ==
  reader # "none" => /\ isOpened /\ canSocketFd \in descriptors \ leaked
                     /\ worker \in {"run", "join"}

\* A session that opened gives its descriptor back; one that failed to bind
\* does not, and the descriptor is never closed again.
OnlyFailedOpensLeak ==
  descriptors = leaked \cup (IF isOpened THEN {canSocketFd} ELSE {})

\* Whatever threads, failures and overlaps make of it, Close returns if the
\* bus carries one more frame.
CloseReturns == worker = "join" ~> worker = "idle"

\* A frame that arrived is given to the worker, unless the port is closed or a read
\* tore the deque.
FramesRead ==
  \A n \in 1 .. MaxFrames :
    arrived >= n ~> Len(got) >= n \/ worker = "join" \/ corrupt
=============================================================================
