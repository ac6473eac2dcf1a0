---------------------------- MODULE Transporter ----------------------------
(***************************************************************************)
(* Protos::Transporter (App/protos_transporter.cpp): the main thread, which*)
(* runs the Qt event loop and every handler of ServerApp, and the worker   *)
(* thread, which owns the CAN port.  They share TxQueue, RxEvents,         *)
(* TxEvents, Posted and StopWork under one mutex, and the pointer Port and *)
(* the port's open flag under no lock at all.                              *)
(*                                                                         *)
(* A critical section is one step.  Reads made outside the mutex (the      *)
(* pointer, then the object behind it) are separate steps, because the     *)
(* worker may replace the object in between.                               *)
(***************************************************************************)
EXTENDS Naturals, Sequences

CONSTANTS Packets,    \* CAN packets, told apart by identity only
          ReadBatch,  \* size of readPackets[]: 256 in the code
          MaxTx,      \* bound: packets accepted for sending in one session
          MaxRx       \* bound: frames arriving from the bus in one session

ASSUME ReadBatchAssumption == ReadBatch \in Nat \ {0}
ASSUME BoundsAssumption == MaxTx \in Nat /\ MaxRx \in Nat

(* Definitions named <Definition>_<Fault> are seeded faults: what the        *)
(* definition would say if the code had a plausible bug.  No specification   *)
(* uses them; PROJECT.json pairs each with a property it must break.         *)

\* Conf::Port.Type; ThreadProc has no case for PORT_PICA.
PortTypes == {"PICA", "CAN_HAT", "CAN_USB_M"}
Supported == {"CAN_HAT", "CAN_USB_M"}

VARIABLES
  \* the main thread
  main,         \* where its current handler is
  cmd,          \* which handler that is, see Cmds
  probe,        \* the Port pointer it has loaded and not yet dereferenced
  confirmed,    \* "op" was answered Res=true and the port not stopped since
  \* the worker thread and the port it owns
  worker,       \* where ThreadProc is; "none" when Thread is not joinable
  readPackets,  \* frames read in this cycle
  txq,          \* packets taken from TxQueue and not yet written
  written,      \* packets of txq already handed to Port->Write
  port,         \* [type, open] of *Port; type "null" before the first Create
  portRx,       \* the port object's own RxQueue
  \* shared state
  conf,         \* Conf::Port.Type
  TxQueue, RxEvents, TxEvents, Posted, StopWork,
  events,       \* PORT_EVENTs waiting in the Qt event queue
  \* history of the current session, never read by the code
  accepted, reported,   \* packets given to Write; "tx" reports made of them
  arrived, delivered    \* frames the port received; "rx" reports made

mainVars   == <<main, cmd, probe, confirmed>>
workerVars == <<worker, readPackets, txq, written>>
portVars   == <<port, portRx>>
queueVars  == <<TxQueue, RxEvents, TxEvents>>
wakeVars   == <<Posted, events>>
histVars   == <<accepted, reported, arrived, delivered>>
vars == <<mainVars, workerVars, portVars, conf, queueVars, wakeVars,
          StopWork, histVars>>

\* tx: IsStarted() before Port.Write; op: IsStarted() before Restart, and
\* Restart's own Stop and spawn; cp: Port.Stop; opening: WaitPortOpened;
\* timeout: its last look at the predicate, once the 500 ms are over.
Cmds == {"none", "tx", "op", "cp", "opening", "timeout"}
MainStates == {"idle", "load", "deref", "write", "stop", "join", "spawn",
               "waiting", "onEvents", "dead"}
\* From the moment the port says it is open, inside Open(), to the exit from
\* the while loop of ThreadProc.
Serving == {"configure", "wait", "read", "write"}
WorkerStates == {"none", "create", "open", "close", "joinReader",
                 "closePort", "done", "dead"} \cup Serving

\* WaitPortOpened evaluates its predicate with the mutex held.
MutexHeldByMain == main \in {"load", "deref"} /\ cmd \in {"opening", "timeout"}

\* ServerApp::Start calls Port.Restart before the event loop runs; nothing
\* has been started yet.
Init ==
  /\ main = "stop" /\ cmd = "op" /\ probe = "none" /\ confirmed = FALSE
  /\ worker = "none" /\ readPackets = <<>> /\ txq = <<>> /\ written = <<>>
  /\ port = [type |-> "null", open |-> FALSE] /\ portRx = <<>>
  /\ conf = "CAN_HAT"
  /\ TxQueue = <<>> /\ RxEvents = <<>> /\ TxEvents = <<>>
  /\ Posted = FALSE /\ events = 0
  /\ StopWork = FALSE
  /\ accepted = <<>> /\ reported = <<>> /\ arrived = <<>> /\ delivered = <<>>

\* Both threads end wherever they are.
ProcessDies ==
  /\ main' = "dead" /\ worker' = "dead"
  /\ UNCHANGED <<cmd, probe, confirmed, readPackets, txq, written, portVars,
                 conf, queueVars, wakeVars, StopWork, histVars>>

Alive == main # "dead"

-----------------------------------------------------------------------------
(* The main thread: handlers of ServerApp, one at a time. *)

\* A client's packet or "tx" request, an "op" request: both ask IsStarted().
Request(c) ==
  /\ main = "idle"
  /\ c = "tx" => Len(accepted) < MaxTx
  /\ main' = "load" /\ cmd' = c
  /\ UNCHANGED <<probe, confirmed, workerVars, portVars, conf, queueVars,
                 wakeVars, StopWork, histVars>>

\* "cp": Port.Stop() whatever the state of the port.
RequestClose ==
  /\ main = "idle"
  /\ main' = "stop" /\ cmd' = "cp" /\ confirmed' = FALSE
  /\ UNCHANGED <<probe, workerVars, portVars, conf, queueVars, wakeVars,
                 StopWork, histVars>>

\* "scfg" stores a new configuration and rereads it at once.
SetConfig ==
  /\ main = "idle"
  /\ conf' \in PortTypes \ {conf}
  /\ UNCHANGED <<mainVars, workerVars, portVars, queueVars, wakeVars,
                 StopWork, histVars>>

\* Port && ...: the pointer is read.
LoadPort ==
  /\ main = "load"
  /\ main' = "deref"
  /\ probe' = IF port.type = "null" THEN "null" ELSE "live"
  /\ UNCHANGED <<cmd, confirmed, workerVars, portVars, conf, queueVars,
                 wakeVars, StopWork, histVars>>

\* What Port && Port->IsOpen() yields.  An object replaced since the pointer
\* was read had been closed before it was destroyed.  IsStarted() also asks for
\* a joinable Thread: an open port has one, as it is closed before the join.
ProbeResult_PointerOnly == probe = "live"
ProbeResult == probe = "live" /\ port.open

\* Where the handler that asked goes on with the answer.
AfterProbe(open) ==
  CASE cmd = "tx"      -> IF open THEN "write" ELSE "idle"
    [] cmd = "op"      -> IF open THEN "idle" ELSE "stop"
    [] cmd = "opening" -> IF open THEN "idle" ELSE "waiting"
    [] OTHER           -> "idle"

DerefPort ==
  /\ main = "deref"
  /\ main' = AfterProbe(ProbeResult)
  /\ confirmed' = IF cmd = "tx" THEN confirmed ELSE ProbeResult
  /\ probe' = "none"
  /\ UNCHANGED <<cmd, workerVars, portVars, conf, queueVars, wakeVars,
                 StopWork, histVars>>

\* The call into a destroyed port object may kill the process instead.
DerefDestroyed ==
  /\ main = "deref" /\ probe = "dangling"
  /\ ProcessDies

\* Cv.wait_for in WaitPortOpened: nobody notifies Cv when the port opens, so
\* only a spurious wakeup makes it look again before the deadline.
WaitWake ==
  /\ main = "waiting"
  /\ main' = "load"
  /\ UNCHANGED <<cmd, probe, confirmed, workerVars, portVars, conf, queueVars,
                 wakeVars, StopWork, histVars>>

WaitTimeout ==
  /\ main = "waiting"
  /\ main' = "load" /\ cmd' = "timeout"
  /\ UNCHANGED <<probe, confirmed, workerVars, portVars, conf, queueVars,
                 wakeVars, StopWork, histVars>>

\* Transporter::Write, after IsStarted() said yes.
Write ==
  /\ main = "write"
  /\ \E p \in Packets : /\ TxQueue' = Append(TxQueue, p)
                        /\ accepted' = Append(accepted, p)
  /\ main' = "idle"
  /\ UNCHANGED <<cmd, probe, confirmed, workerVars, portVars, conf, RxEvents,
                 TxEvents, wakeVars, StopWork, reported, arrived,
                 delivered>>

\* Transporter::Stop up to Thread.join(), when there is a thread to join.
BeginStop_Silent ==
  /\ main = "stop" /\ worker # "none"
  /\ main' = "join"
  /\ UNCHANGED <<cmd, probe, confirmed, workerVars, portVars, conf, queueVars,
                 wakeVars, StopWork, histVars>>

BeginStop ==
  /\ main = "stop" /\ worker # "none"
  /\ StopWork' = TRUE
  /\ main' = "join"
  /\ UNCHANGED <<cmd, probe, confirmed, workerVars, portVars, conf, queueVars,
                 wakeVars, histVars>>

\* The Thread object is emptied and the queues cleared, unlocked: nobody else
\* runs.  The history of the session ends with it.
ClearSession ==
  /\ worker' = "none"
  /\ RxEvents' = <<>> /\ TxEvents' = <<>> /\ TxQueue' = <<>>
  /\ accepted' = <<>> /\ reported' = <<>>
  /\ arrived' = <<>> /\ delivered' = <<>>

\* The rest of Stop.  Posted is left as it is.
FinishStop ==
  /\ \/ main = "join" /\ worker = "done"
     \/ main = "stop" /\ worker = "none"
  /\ StopWork' = FALSE
  /\ ClearSession
  /\ main' = IF cmd = "cp" THEN "idle" ELSE "spawn"
  /\ UNCHANGED <<cmd, probe, confirmed, readPackets, txq, written, portVars,
                 conf, wakeVars>>

\* Restart after its Stop: the configuration file is reread and the worker
\* thread started.
Spawn ==
  /\ main = "spawn"
  /\ conf' \in PortTypes
  /\ worker' = "create"
  /\ main' = "load" /\ cmd' = "opening"
  /\ UNCHANGED <<probe, confirmed, readPackets, txq, written, portVars,
                 queueVars, wakeVars, StopWork, histVars>>

\* The Qt event loop hands a PORT_EVENT to ServerApp::event.
DispatchEvent ==
  /\ main = "idle" /\ events > 0
  /\ events' = events - 1
  /\ main' = "onEvents"
  /\ UNCHANGED <<cmd, probe, confirmed, workerVars, portVars, conf, queueVars,
                 Posted, StopWork, histVars>>

\* OnEvents: both queues are taken in one critical section; OnPacket then
\* reports every packet, which only the main thread sees.
OnEvents_KeepsPosted ==
  /\ main = "onEvents"
  /\ RxEvents' = <<>> /\ TxEvents' = <<>>
  /\ delivered' = delivered \o RxEvents
  /\ reported' = reported \o TxEvents
  /\ main' = "idle"
  /\ UNCHANGED <<cmd, probe, confirmed, workerVars, portVars, conf, TxQueue,
                 wakeVars, StopWork, accepted, arrived>>

OnEvents_CopiesRx ==
  /\ main = "onEvents"
  /\ TxEvents' = <<>>
  /\ Posted' = FALSE
  /\ delivered' = delivered \o RxEvents
  /\ reported' = reported \o TxEvents
  /\ main' = "idle"
  /\ UNCHANGED <<cmd, probe, confirmed, workerVars, portVars, conf, TxQueue,
                 RxEvents, events, StopWork, accepted, arrived>>

OnEvents ==
  /\ main = "onEvents"
  /\ RxEvents' = <<>> /\ TxEvents' = <<>>
  /\ Posted' = FALSE
  /\ delivered' = delivered \o RxEvents
  /\ reported' = reported \o TxEvents
  /\ main' = "idle"
  /\ UNCHANGED <<cmd, probe, confirmed, workerVars, portVars, conf, TxQueue,
                 events, StopWork, accepted, arrived>>

MainNext ==
  \/ \E c \in {"tx", "op"} : Request(c)
  \/ RequestClose \/ SetConfig
  \/ LoadPort \/ DerefPort \/ DerefDestroyed
  \/ WaitWake \/ WaitTimeout
  \/ Write \/ BeginStop \/ FinishStop \/ Spawn
  \/ DispatchEvent \/ OnEvents

-----------------------------------------------------------------------------
(* The worker thread: ThreadProc. *)

\* Port = Create...(): the previous object dies; for other port types the
\* thread returns at once.
WorkerCreate ==
  /\ worker = "create"
  /\ IF conf \in Supported
       THEN /\ port' = [type |-> conf, open |-> FALSE]
            /\ portRx' = <<>>
            /\ probe' = IF probe = "live" THEN "dangling" ELSE probe
            /\ worker' = "open"
       ELSE /\ worker' = "done"
            /\ UNCHANGED <<port, portRx, probe>>
  /\ UNCHANGED <<main, cmd, confirmed, readPackets, txq, written, conf,
                 queueVars, wakeVars, StopWork, histVars>>

\* Port->Open(), which may take any time, up to where IsOpen() turns true, or
\* to the return after a failure.
WorkerOpen ==
  /\ worker = "open"
  /\ \/ /\ port' = [port EXCEPT !.open = TRUE]
        /\ worker' = "configure"
     \/ /\ worker' = "done"
        /\ UNCHANGED port
  /\ UNCHANGED <<mainVars, readPackets, txq, written, portRx, conf, queueVars,
                 wakeVars, StopWork, histVars>>

\* The rest of Open(): CanHat starts its reader thread, USBCANM2 sets up the
\* serial line.
WorkerConfigure ==
  /\ worker = "configure"
  /\ worker' = "wait"
  /\ UNCHANGED <<mainVars, readPackets, txq, written, portVars, conf,
                 queueVars, wakeVars, StopWork, histVars>>

\* USBCANM2::Open throws a string literal when the set-up fails and catches
\* only QString: nothing catches the exception in the thread.
WorkerOpenThrows ==
  /\ worker = "configure" /\ port.type = "CAN_USB_M"
  /\ ProcessDies

\* WaitStop: StopWork, or the 5 ms are over.
WorkerWaitStop_AnyWakeup ==
  /\ worker = "wait" /\ ~MutexHeldByMain
  /\ worker' \in {"close", "read"}
  /\ UNCHANGED <<mainVars, readPackets, txq, written, portVars, conf,
                 queueVars, wakeVars, StopWork, histVars>>

WorkerWaitStop ==
  /\ worker = "wait" /\ ~MutexHeldByMain
  /\ worker' = IF StopWork THEN "close" ELSE "read"
  /\ UNCHANGED <<mainVars, readPackets, txq, written, portVars, conf,
                 queueVars, wakeVars, StopWork, histVars>>

BatchFull == Len(readPackets) >= ReadBatch

\* One turn of the for loop that fills readPackets[].
WorkerRead ==
  /\ worker = "read" /\ portRx # <<>> /\ ~BatchFull
  /\ readPackets' = Append(readPackets, Head(portRx))
  /\ portRx' = Tail(portRx)
  /\ UNCHANGED <<mainVars, worker, txq, written, port, conf, queueVars,
                 wakeVars, StopWork, histVars>>

\* auto txq = std::move(TxQueue), once nothing more can be read.
WorkerTake_Copies ==
  /\ worker = "read" /\ (portRx = <<>> \/ BatchFull) /\ ~MutexHeldByMain
  /\ txq' = TxQueue
  /\ worker' = "write"
  /\ UNCHANGED <<mainVars, readPackets, written, portVars, conf, queueVars,
                 wakeVars, StopWork, histVars>>

WorkerTake ==
  /\ worker = "read" /\ (portRx = <<>> \/ BatchFull) /\ ~MutexHeldByMain
  /\ txq' = TxQueue
  /\ TxQueue' = <<>>
  /\ worker' = "write"
  /\ UNCHANGED <<mainVars, readPackets, written, portVars, conf, RxEvents,
                 TxEvents, wakeVars, StopWork, histVars>>

\* Port->Write of one packet.  A refused packet looks the same from here on,
\* since GetLastError() of both ports never holds an error.
WorkerWrite ==
  /\ worker = "write" /\ txq # <<>>
  /\ written' = Append(written, Head(txq))
  /\ txq' = Tail(txq)
  /\ UNCHANGED <<mainVars, worker, readPackets, portVars, conf, queueVars,
                 wakeVars, StopWork, histVars>>

\* Called with the mutex held.
Notify_Always == Posted' = TRUE /\ events' = events + 1
Notify ==
  IF Posted THEN UNCHANGED wakeVars
            ELSE Posted' = TRUE /\ events' = events + 1

\* insert(end(), ...) into both event queues.
InsertEvents_Replaces ==
  /\ RxEvents' = readPackets
  /\ TxEvents' = TxEvents \o written
InsertEvents ==
  /\ RxEvents' = RxEvents \o readPackets
  /\ TxEvents' = TxEvents \o written

\* The end of a cycle: what was read and written becomes visible to main.
WorkerPublish ==
  /\ worker = "write" /\ txq = <<>>
  /\ \/ /\ readPackets # <<>> \/ written # <<>>
        /\ ~MutexHeldByMain
        /\ InsertEvents
        /\ Notify
     \/ /\ readPackets = <<>> /\ written = <<>>
        /\ UNCHANGED <<RxEvents, TxEvents, wakeVars>>
  /\ readPackets' = <<>> /\ written' = <<>>
  /\ worker' = "wait"
  /\ UNCHANGED <<mainVars, txq, portVars, conf, TxQueue, StopWork,
                 histVars>>

\* Port->Close().  CanHat::closeConnection joins its reader thread, which
\* may be about to test threadFlag or blocked in read() on the CAN socket.
WorkerClose ==
  /\ worker = "close"
  /\ \/ worker' = "closePort"
     \/ port.type = "CAN_HAT" /\ worker' = "joinReader"
  /\ UNCHANGED <<mainVars, readPackets, txq, written, portVars, conf,
                 queueVars, wakeVars, StopWork, histVars>>

\* The port is closed and its queue is gone (CanHat clears it; USBCANM2 keeps
\* it until the object is replaced, but nobody reads it any more).
WorkerClosePort ==
  /\ worker = "closePort"
  /\ port' = [port EXCEPT !.open = FALSE]
  /\ portRx' = <<>>
  /\ worker' = "done"
  /\ UNCHANGED <<mainVars, readPackets, txq, written, conf, queueVars,
                 wakeVars, StopWork, histVars>>

WorkerNext ==
  \/ WorkerCreate \/ WorkerOpen \/ WorkerConfigure \/ WorkerOpenThrows
  \/ WorkerWaitStop \/ WorkerRead \/ WorkerTake \/ WorkerWrite \/ WorkerPublish
  \/ WorkerClose \/ WorkerClosePort

-----------------------------------------------------------------------------
(* The CAN bus, through the port object. *)

\* A frame reaches the RxQueue of the open port.
FrameArrives ==
  /\ worker \in Serving \cup {"close"}
  /\ Len(arrived) < MaxRx
  /\ \E p \in Packets : /\ portRx' = Append(portRx, p)
                        /\ arrived' = Append(arrived, p)
  /\ UNCHANGED <<mainVars, workerVars, port, conf, queueVars, wakeVars,
                 StopWork, accepted, reported, delivered>>

\* A frame lets CanHat's reader leave read() and see threadFlag; the queue it
\* pushed that frame to is then cleared.
FrameWakesReader ==
  /\ worker = "joinReader"
  /\ worker' = "closePort"
  /\ UNCHANGED <<mainVars, readPackets, txq, written, portVars, conf,
                 queueVars, wakeVars, StopWork, histVars>>

BusNext == FrameArrives \/ FrameWakesReader

\* A dead process takes no more steps.
Halted == ~Alive /\ UNCHANGED vars

Next == MainNext \/ WorkerNext \/ BusNext \/ Halted

Spec == Init /\ [][Next]_vars

(* Fairness.  Both threads are scheduled, and neither keeps the mutex; that  *)
(* clients ask for anything, or that the process dies, is never owed.  Every *)
(* pass of the Qt event loop sends the posted events, whatever the sockets   *)
(* bring: SF.  The 500 ms deadline of wait_for is absolute, so that spurious *)
(* wakeups cannot put it off: SF.                                            *)
MainOwes == \/ LoadPort \/ DerefPort \/ Write \/ BeginStop \/ FinishStop
            \/ Spawn \/ OnEvents
WorkerOwes == \/ WorkerCreate \/ WorkerOpen \/ WorkerConfigure
              \/ WorkerWaitStop \/ WorkerRead \/ WorkerTake \/ WorkerWrite
              \/ WorkerPublish \/ WorkerClose \/ WorkerClosePort

Fairness == /\ WF_vars(MainOwes) /\ WF_vars(WorkerOwes)
            /\ SF_vars(DispatchEvent) /\ SF_vars(WaitTimeout)

\* The bus always carries another frame: other nodes keep talking.
BusyBus == WF_vars(FrameWakesReader)

\* Both threads run; the bus may fall silent at any time.
FairSpec == Spec /\ Fairness

-----------------------------------------------------------------------------
(* Type correctness of every variable of the two threads and what they share.*)
TypeOK ==
  /\ main \in MainStates /\ cmd \in Cmds
  /\ probe \in {"none", "null", "live", "dangling"}
  /\ confirmed \in BOOLEAN
  /\ worker \in WorkerStates
  /\ readPackets \in Seq(Packets)
  /\ txq \in Seq(Packets) /\ written \in Seq(Packets)
  /\ port \in [type : {"null", "CAN_HAT", "CAN_USB_M"}, open : BOOLEAN]
  /\ portRx \in Seq(Packets)
  /\ conf \in PortTypes
  /\ TxQueue \in Seq(Packets)
  /\ RxEvents \in Seq(Packets) /\ TxEvents \in Seq(Packets)
  /\ Posted \in BOOLEAN /\ StopWork \in BOOLEAN
  /\ events \in Nat
  /\ accepted \in Seq(Packets) /\ reported \in Seq(Packets)
  /\ arrived \in Seq(Packets) /\ delivered \in Seq(Packets)

\* No lost wakeup, and no flood: Posted says exactly that one PORT_EVENT is
\* on its way to OnEvents, also across Stop, which clears the queues but not
\* Posted; and whenever packets wait to be reported such an event exists.
WakeupPending ==
  /\ Alive => events + (IF main = "onEvents" THEN 1 ELSE 0)
                = (IF Posted THEN 1 ELSE 0)
  /\ RxEvents # <<>> \/ TxEvents # <<>> => Posted

\* The unlocked check is not stale when it is used: a packet is only queued
\* (IsStarted() then Write) for a port that is still open, with a worker
\* still there to send it.
CheckedPortStillOpen ==
  main = "write" => port.open /\ worker \in Serving

\* Once "op" was answered Res=true, the port stays open and the pointer to it
\* stays good until "cp" or another "op" stops it.
ConfirmedStaysOpen ==
  confirmed /\ Alive => port.open /\ worker \in Serving /\ probe # "dangling"

\* Of the packets given to Write in a session each is in exactly one place on
\* its way to the "tx" report, in order: none is lost, doubled or overtaken
\* in any hand-over between the threads.
TxConserved ==
  reported \o TxEvents \o written \o txq \o TxQueue = accepted

\* The same for the frames of the bus on their way to the "rx" report, as
\* long as the port is open.
RxConserved ==
  port.open => delivered \o RxEvents \o readPackets \o portRx = arrived

\* A thread that starts finds nothing of the session before it: no packet to
\* send or to report, no request to stop that it did not get itself.
CleanStart ==
  worker = "create" =>
    /\ TxQueue = <<>> /\ RxEvents = <<>> /\ TxEvents = <<>>
    /\ readPackets = <<>> /\ txq = <<>> /\ written = <<>>
    /\ StopWork <=> main = "join"

(* The inductive invariant of the safety properties: how far each thread has *)
(* got limits what the other one may be doing, and what the queues hold.     *)
\* Both threads die together; StopWork is up exactly while Stop waits in
\* join(), and the worker leaves its loop only then; no thread exists when
\* Restart spawns one.
ThreadsCoupled ==
  /\ main = "dead" <=> worker = "dead"
  /\ Alive => (StopWork <=> main = "join")
  /\ worker \in {"close", "joinReader", "closePort"} => main = "join"
  /\ main = "spawn" => worker = "none"

\* The port is open exactly from Open() to Close(), and what main has learnt
\* of it stays true although no lock protects it.
PortCoupled ==
  /\ Alive => (port.open <=> worker \in Serving \cup {"close", "joinReader", "closePort"})
  /\ Alive /\ main # "deref" => probe = "none"
  /\ main = "write" => worker \in Serving
  /\ confirmed /\ Alive => /\ worker \in Serving
                          /\ main \notin {"stop", "join", "spawn"}
                          /\ probe # "dangling"

\* Packets are in the worker's hands only in the part of the cycle that needs
\* them, and nothing at all is under way before a port is open.
HandsCoupled ==
  /\ worker \notin {"read", "write", "dead"} => readPackets = <<>>
  /\ worker \notin {"write", "dead"} => txq = <<>> /\ written = <<>>
  /\ worker = "open" => portRx = <<>>
  /\ worker \in {"none", "create", "open"} \/ (worker = "done" /\ main # "join") =>
       /\ TxQueue = <<>> /\ RxEvents = <<>> /\ TxEvents = <<>>
       /\ accepted = <<>> /\ reported = <<>>
       /\ arrived = <<>> /\ delivered = <<>>

\* What the proofs carry from step to step.
SafetyInductive ==
  /\ TypeOK
  /\ ThreadsCoupled /\ PortCoupled /\ HandsCoupled
  /\ WakeupPending /\ TxConserved /\ RxConserved

\* Each direction of the transporter is a FifoLink: what comes out is what
\* went in, in order, once, until a Stop forgets the rest.
TxLink == INSTANCE FifoLink WITH sent <- accepted, got <- reported
RxLink == INSTANCE FifoLink WITH sent <- arrived, got <- delivered

TxIsFifo == TxLink!LinkSpec
RxIsFifo == RxLink!LinkSpec

\* The two threads together are a PortService: a port is on when it is open, and
\* off from the moment a handler decides to stop it; whoever has a packet, it is
\* one that is still to be reported. Packets are taken only by a port that is on.
Stopping == main \in {"stop", "join", "spawn", "dead"}
PortState == IF Stopping \/ worker = "none" THEN "off" ELSE IF port.open THEN "on" ELSE "opening"
TxPending == TxEvents \o (written \o (txq \o TxQueue))
RxPending == RxEvents \o (readPackets \o portRx)
PortView == INSTANCE PortService WITH port <- PortState,
              txq <- IF PortState = "on" THEN TxPending ELSE <<>>,
              rxq <- IF PortState = "on" THEN RxPending ELSE <<>>
IsPortService == PortView!PortSpec

\* A port that is open closes only while the main thread waits in Stop: it
\* never disappears under a handler that runs.
ClosedOnlyByStop ==
  [][port.open /\ ~port'.open => main = "join" /\ main' = "join"]_vars

\* Every handler returns to the event loop: the waits of WaitPortOpened and
\* of Stop end.
HandlersReturn == main # "idle" ~> (main = "idle" \/ ~Alive)

\* "cp" closes the port.
CloseCompletes == main = "join" ~> (~port.open \/ ~Alive)

\* Every packet accepted for sending is reported, unless the port is stopped.
TxReported ==
  \A n \in 1 .. MaxTx :
    Len(accepted) >= n ~> (Len(reported) >= n \/ main \in {"stop", "join", "dead"})

\* Every frame received is reported, unless the port is stopped.
RxReported ==
  \A n \in 1 .. MaxRx :
    Len(arrived) >= n ~> (Len(delivered) >= n \/ main \in {"stop", "join", "dead"})
=============================================================================
