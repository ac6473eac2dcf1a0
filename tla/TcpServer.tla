----------------------------- MODULE TcpServer -----------------------------
(***************************************************************************)
(* TcpServer (App/tcp_server_qt.cpp) with the handlers of ServerApp that   *)
(* it calls (App/server_app.cpp) and the port as they see it.              *)
(*                                                                         *)
(* Everything runs on the main thread.  A handler is begun when the event  *)
(* loop calls it and then goes on, one socket write at a time, until there *)
(* is nothing left to write or parse: a write may end the connection it    *)
(* writes to, and with it change Assocs under the loop.                    *)
(*                                                                         *)
(* A frame is two pieces, its head and its tail: TCP may cut it anywhere.  *)
(* FrameStream shows that the assembler takes from a stream of frames the  *)
(* same frames.  A frame the server makes itself is written whole.         *)
(***************************************************************************)
EXTENDS Naturals, Sequences, FiniteSets

CONSTANTS Sockets,     \* addresses of QTcpSocket objects, the order of Assocs
          ASSOC_MAXIMUM,
          Kinds,       \* kinds of frames that clients send, of those below
          MaxFrames,   \* bound: frames made by clients
          MaxRx        \* bound: frames arriving from the bus

ASSUME SocketsAssumption == Sockets \subseteq Nat \ {0} /\ IsFiniteSet(Sockets)
ASSUME BoundsAssumption ==
  ASSOC_MAXIMUM \in Nat /\ MaxFrames \in Nat /\ MaxRx \in Nat
ASSUME KindsAssumption == Kinds \subseteq {"data", "op", "cp", "tx", "state", "hi"}

Nobody == 0

VARIABLES Assocs,   \* sockets in the map
          asm,      \* per socket: what its assembler holds: nothing or a head
          wire,     \* per socket: what the client sent and nobody read
          out,      \* per socket: what was written to it since it connected
          port,     \* "off", "opening" or "on"
          txq, rxq, \* what the transporter will report
          todo,     \* rest of the running handler: loops to run, the first one
          it,       \*   at the sockets above `it'
          chunk,    \*   and pieces to parse
          from,     \*   which this socket sent
          made,     \* number of frames clients made
          arrived,  \* number of frames the bus carried
          missed    \* history, per socket: frames whose head was read before
                    \*   it connected, and whose tail had still to come

handler == <<todo, it, chunk, from>>
portVars == <<port, txq, rxq, arrived>>
vars ==
  <<Assocs, asm, wire, out, missed, port, txq, rxq, todo, it, chunk, from, made, arrived>>

-----------------------------------------------------------------------------
(* Frames, pieces and what is written *)

Frames == [no : 1 .. MaxFrames, from : Sockets, kind : Kinds]
HeadOf(f) == [frame |-> f, part |-> "head"]
TailOf(f) == [frame |-> f, part |-> "tail"]
Pieces == [frame : Frames, part : {"head", "tail"}]
NoHead == <<>>

Raw(pieces) == [what |-> "raw", pieces |-> pieces]
Wrapped(f) == [what |-> "wrapped", frame |-> f]
Answer(f) == [what |-> "answer", frame |-> f]
\* OnPacket: a frame with the packet and a line of the log, to everybody.
Report(packet) == [what |-> "report", packet |-> packet]
LogLine(packet) == [what |-> "log", packet |-> packet]
BusFrame(n) == [no |-> n, from |-> Nobody, kind |-> "rx"]
BusFrames == {BusFrame(n) : n \in 1 .. MaxRx}
Packets == Frames \cup BusFrames

\* A loop over Assocs that is still to run, and whom it leaves out.
Loop(item, skip) == [item |-> item, skip |-> skip]

Idle == todo = <<>> /\ chunk = <<>>

(* Definitions named <Definition>_<Fault> are seeded faults, as in Transporter. *)

-----------------------------------------------------------------------------
Init ==
  /\ Assocs = {} /\ asm = [s \in Sockets |-> NoHead]
  /\ wire = [s \in Sockets |-> <<>>] /\ out = [s \in Sockets |-> <<>>]
  /\ port \in {"opening", "on"} /\ txq = <<>> /\ rxq = <<>> /\ arrived = 0
  /\ todo = <<>> /\ it = Nobody /\ chunk = <<>> /\ from = Nobody
  /\ made = 0 /\ missed = [s \in Sockets |-> {}]

(* Clients and bus *)

\* The frames that are in an assembler, their head read and not their tail.
Begun == {f \in Frames : \E s \in Sockets : asm[s] = <<HeadOf(f)>>}

\* OnNewConnection; a connection beyond the maximum is closed at once.
Admit(s) ==
  /\ Assocs' = Assocs \cup {s} /\ asm' = [asm EXCEPT ![s] = NoHead]
  /\ wire' = [wire EXCEPT ![s] = <<>>] /\ out' = [out EXCEPT ![s] = <<>>]
  /\ missed' = [missed EXCEPT ![s] = Begun]
  /\ UNCHANGED <<portVars, handler, made>>
OnNewConnection_AnyNumber(s) == Idle /\ s \notin Assocs /\ Admit(s)
OnNewConnection(s) ==
  /\ Idle /\ s \notin Assocs /\ Cardinality(Assocs) # ASSOC_MAXIMUM
  /\ Admit(s)

ClientSends(s, kind) ==
  /\ s \in Assocs /\ made < MaxFrames /\ made' = made + 1
  /\ LET f == [no |-> made + 1, from |-> s, kind |-> kind] IN
       wire' = [wire EXCEPT ![s] = @ \o <<HeadOf(f), TailOf(f)>>]
  /\ UNCHANGED <<Assocs, asm, out, missed, portVars, handler>>

\* The slot connected to QTcpSocket::disconnected.
Forget(s) ==
  /\ Assocs' = Assocs \ {s} /\ asm' = [asm EXCEPT ![s] = NoHead]
  /\ wire' = [wire EXCEPT ![s] = <<>>] /\ out' = [out EXCEPT ![s] = <<>>]
  /\ missed' = [missed EXCEPT ![s] = {}]

Disconnected(s) ==
  /\ Idle /\ s \in Assocs /\ Forget(s)
  /\ UNCHANGED <<portVars, handler, made>>

PortOpens ==
  /\ port = "opening" /\ port' = "on"
  /\ UNCHANGED <<Assocs, asm, wire, out, missed, txq, rxq, handler, made, arrived>>

FrameArrives ==
  /\ port = "on" /\ arrived < MaxRx
  /\ arrived' = arrived + 1 /\ rxq' = Append(rxq, BusFrame(arrived + 1))
  /\ UNCHANGED <<Assocs, asm, wire, out, missed, port, txq, handler, made>>

-----------------------------------------------------------------------------
(* Handlers begin *)

\* readyRead: everything that has arrived, which TCP may end inside a frame, is
\* read and written to the others.
Arrived(s) == 1 .. Len(wire[s])

\* The first n pieces of a socket's data are read.
Take(s, n) ==
  /\ Idle /\ s \in Assocs
  /\ wire' = [wire EXCEPT ![s] = SubSeq(@, n + 1, Len(@))]
  /\ chunk' = SubSeq(wire[s], 1, n) /\ from' = s
  /\ UNCHANGED <<Assocs, asm, out, missed, portVars, it, made>>

ReadyRead_WholeOnly(s) ==
  \E n \in Arrived(s) :
    Take(s, n) /\ todo' = IF chunk'[n].part = "head" THEN <<>> ELSE <<Loop(Raw(chunk'), s)>>
ReadyRead(s) ==
  \E n \in Arrived(s) : Take(s, n) /\ todo' = <<Loop(Raw(chunk'), s)>>

\* PORT_EVENT: the transporter reports what it has, frames from the bus first.
Loops(packets) ==
  [i \in 1 .. 2 * Len(packets) |->
     LET packet == packets[(i + 1) \div 2] IN
       Loop(IF i % 2 = 1 THEN Report(packet) ELSE LogLine(packet), Nobody)]

OnEvents ==
  /\ Idle
  /\ \E n \in 0 .. Len(rxq), m \in 0 .. Len(txq) :
       /\ n + m > 0
       /\ todo' = Loops(SubSeq(rxq, 1, n) \o SubSeq(txq, 1, m)) /\ it' = Nobody
       /\ rxq' = SubSeq(rxq, n + 1, Len(rxq)) /\ txq' = SubSeq(txq, m + 1, Len(txq))
  /\ UNCHANGED <<Assocs, asm, wire, out, missed, port, chunk, from, made, arrived>>

-----------------------------------------------------------------------------
(* Handlers go on *)

\* One turn of a loop over Assocs, at socket s; the write may end the connection.
Turn(s) ==
  /\ it' = s
  /\ IF s = Head(todo).skip
       THEN UNCHANGED <<Assocs, asm, wire, out, missed>>
       ELSE \/ out' = [out EXCEPT ![s] = Append(@, Head(todo).item)]
               /\ UNCHANGED <<Assocs, asm, wire, missed>>
            \/ Forget(s)
  /\ UNCHANGED <<portVars, todo, chunk, from, made>>

\* The next socket is upper_bound of the last, which may be gone from the map.
Above == {s \in Assocs : s > it}
IsLowest(s, S) == s \in S /\ \A r \in S : s <= r
WriteNext_LowerBound ==
  todo # <<>> /\ \E s \in Assocs : IsLowest(s, {r \in Assocs : r >= it}) /\ Turn(s)
WriteNext == todo # <<>> /\ \E s \in Assocs : IsLowest(s, Above) /\ Turn(s)

\* The loop ends at the socket whose entry went away under the iterator.
LoopEnds_AtGone ==
  /\ todo # <<>> /\ (Above = {} \/ it \notin Assocs \cup {Nobody})
  /\ todo' = Tail(todo) /\ it' = Nobody
  /\ UNCHANGED <<Assocs, asm, wire, out, missed, portVars, chunk, from, made>>
LoopEnds ==
  /\ todo # <<>> /\ Above = {}
  /\ todo' = Tail(todo) /\ it' = Nobody
  /\ UNCHANGED <<Assocs, asm, wire, out, missed, portVars, chunk, from, made>>

\* SendToUI; it writes to the socket whether or not it is still connected.
SendToUI(f) ==
  /\ \/ from \in Assocs /\ out' = [out EXCEPT ![from] = Append(@, Answer(f))]
        /\ UNCHANGED <<Assocs, wire, missed>>
     \/ from \in Assocs /\ Assocs' = Assocs \ {from}
        /\ wire' = [wire EXCEPT ![from] = <<>>] /\ out' = [out EXCEPT ![from] = <<>>]
        /\ missed' = [missed EXCEPT ![from] = {}]
     \/ from \notin Assocs /\ UNCHANGED <<Assocs, wire, out, missed>>
  /\ UNCHANGED todo
NoAnswer == UNCHANGED <<Assocs, wire, out, missed, todo>>

\* Port.Write of a packet, and Port.Restart and Port.Stop.
WritePacket(f) == txq' = Append(txq, f) /\ UNCHANGED <<port, rxq>>
RestartPort == port' \in {"opening", "on"} /\ txq' = <<>> /\ rxq' = <<>>
StopPort_KeepsQueues == port' = "off" /\ UNCHANGED <<txq, rxq>>
StopPort == port' = "off" /\ txq' = <<>> /\ rxq' = <<>>
PortUntouched == UNCHANGED <<port, txq, rxq>>

DataPacket_SkipsNobody(f) ==
  /\ IF port = "on" THEN WritePacket(f) ELSE PortUntouched
  /\ todo' = <<Loop(Wrapped(f), Nobody)>> /\ UNCHANGED <<Assocs, wire, out, missed>>
\* A frame with '#': to the port if it is open, and wrapped to the others.
DataPacket(f) ==
  /\ IF port = "on" THEN WritePacket(f) ELSE PortUntouched
  /\ todo' = <<Loop(Wrapped(f), from)>> /\ UNCHANGED <<Assocs, wire, out, missed>>

\* ProcessControlPacket; "state" stands for the requests that touch neither the
\* port nor the clients, and "hi" is answered only while the log is open.
ControlPacket(f) ==
  \/ f.kind = "op" /\ SendToUI(f)
     /\ IF port = "on" THEN PortUntouched ELSE RestartPort
  \/ f.kind = "cp" /\ SendToUI(f) /\ StopPort
  \/ f.kind = "tx" /\ IF port = "on" THEN WritePacket(f) /\ NoAnswer
                                     ELSE PortUntouched /\ SendToUI(f)
  \/ f.kind = "state" /\ SendToUI(f) /\ PortUntouched
  \/ f.kind = "hi" /\ (SendToUI(f) \/ NoAnswer) /\ PortUntouched

\* One turn of the parse loop of readyRead, with the slot it calls.
Parse ==
  /\ todo = <<>> /\ chunk # <<>> /\ chunk' = Tail(chunk)
  /\ LET f == Head(chunk).frame IN
       \/ /\ Head(chunk).part = "head"
          /\ asm' = [asm EXCEPT ![from] = <<Head(chunk)>>] /\ NoAnswer /\ PortUntouched
       \/ /\ Head(chunk).part = "tail" /\ asm[from] = <<HeadOf(f)>>
          /\ asm' = [asm EXCEPT ![from] = NoHead]
          /\ IF f.kind = "data" THEN DataPacket(f) ELSE ControlPacket(f)
  /\ UNCHANGED <<it, from, made, arrived>>

-----------------------------------------------------------------------------
Next ==
  \/ \E s \in Sockets : \/ OnNewConnection(s) \/ Disconnected(s) \/ ReadyRead(s)
                        \/ \E kind \in Kinds : ClientSends(s, kind)
  \/ PortOpens \/ FrameArrives \/ OnEvents \/ WriteNext \/ LoopEnds \/ Parse

Spec == Init /\ [][Next]_vars

\* A handler runs to its end: nothing in it waits.
FairSpec == Spec /\ WF_vars(WriteNext \/ LoopEnds \/ Parse)

-----------------------------------------------------------------------------
ItemSet ==
  [what : {"raw"}, pieces : Seq(Pieces)]
  \cup [what : {"wrapped", "answer"}, frame : Frames]
  \cup [what : {"report", "log"}, packet : Packets]

\* Type correctness; the number of connections never exceeds the maximum.
TypeOK ==
  /\ Assocs \subseteq Sockets /\ Cardinality(Assocs) <= ASSOC_MAXIMUM
  /\ asm \in [Sockets -> {NoHead} \cup {<<piece>> : piece \in Pieces}]
  /\ wire \in [Sockets -> Seq(Pieces)] /\ out \in [Sockets -> Seq(ItemSet)]
  /\ port \in {"off", "opening", "on"}
  /\ txq \in Seq(Frames) /\ rxq \in Seq(BusFrames)
  /\ todo \in Seq([item : ItemSet, skip : Sockets \cup {Nobody}])
  /\ it \in Sockets \cup {Nobody} /\ from \in Sockets \cup {Nobody}
  /\ chunk \in Seq(Pieces)
  /\ made \in 0 .. MaxFrames /\ arrived \in 0 .. MaxRx
  /\ missed \in [Sockets -> SUBSET Frames]

\* The data of a client goes to others only, raw or wrapped, and an answer only
\* to the client that asked.
MeantFor(s, item) ==
  CASE item.what = "raw" -> \A k \in DOMAIN item.pieces : item.pieces[k].frame.from # s
    [] item.what = "wrapped" -> item.frame.from # s
    [] item.what = "answer" -> item.frame.from = s
    [] OTHER -> TRUE
RightClient == \A s \in Assocs : \A k \in DOMAIN out[s] : MeantFor(s, out[s][k])

\* What makes it so: everything on its way carries the client it came from, and
\* what is still to be written is meant for all that the loop does not skip.
OriginKept ==
  /\ \A s \in Sockets : \A k \in DOMAIN wire[s] : wire[s][k].frame.from = s
  /\ \A k \in DOMAIN chunk : chunk[k].frame.from = from
  /\ \A k \in DOMAIN todo :
       \A s \in Sockets \ {todo[k].skip} : MeantFor(s, todo[k].item)
AtRest ==
  /\ todo = <<>> => it = Nobody
  /\ \A s \in Sockets \ Assocs : out[s] = <<>>
RelayInductive == TypeOK /\ OriginKept /\ AtRest /\ RightClient

\* A client has the whole frame, its head and then its tail, before the copy that
\* the server wraps it into; the head is missing only where the client connected
\* after the head was read, between two reads of a frame that TCP had cut.
PiecesAt(s, j) == IF out[s][j].what = "raw" THEN out[s][j].pieces ELSE <<>>
HeadBefore(s, j, n, f) ==
  \/ f \in missed[s]
  \/ \E m \in 1 .. n - 1 : PiecesAt(s, j)[m] = HeadOf(f)
  \/ \E i \in 1 .. j - 1 : \E m \in DOMAIN PiecesAt(s, i) : PiecesAt(s, i)[m] = HeadOf(f)
WholeBefore(s, k, f) ==
  \E j \in 1 .. k - 1 : \E n \in DOMAIN PiecesAt(s, j) :
    PiecesAt(s, j)[n] = TailOf(f) /\ HeadBefore(s, j, n, f)
WrappedAfterRaw ==
  \A s \in Assocs : \A k \in DOMAIN out[s] :
    out[s][k].what = "wrapped" => WholeBefore(s, k, out[s][k].frame)

\* What is written to a client can be taken apart into frames again: no frame
\* has anything inside it that is not its own.
Bytes(item) == IF item.what = "raw" THEN item.pieces ELSE <<item>>
BrokenBy(item, next) ==
  LET last == Bytes(item)[Len(Bytes(item))] IN
    "part" \in DOMAIN last /\ last.part = "head" /\ Bytes(next)[1] # TailOf(last.frame)
FramesUnbroken ==
  \A s \in Assocs : \A k \in 1 .. Len(out[s]) - 1 : ~BrokenBy(out[s][k], out[s][k + 1])

\* A client that was told its port is closed gets no report of a packet that it
\* gave to that port.
ClosedMeansSilent ==
  \A s \in Assocs : \A i, j \in DOMAIN out[s] :
    LET asked == out[s][i]  told == out[s][j] IN
      /\ i < j /\ told.what = "report" /\ told.packet.from = s
      /\ asked.what = "answer" /\ asked.frame.kind = "cp"
      => told.packet.no > asked.frame.no

\* The loops over Assocs are posts to everybody at once: Hub is implemented,
\* with what the first loop has not reached yet counted as written.
StreamOf(s) ==
  IF s \in Assocs /\ todo # <<>> /\ s > it /\ s # Head(todo).skip
    THEN Append(out[s], Head(todo).item)
    ELSE out[s]
HubView == INSTANCE Hub WITH Members <- Sockets, joined <- Assocs,
                             stream <- [s \in Sockets |-> StreamOf(s)]
IsHub == HubView!HubSpec

\* The server makes no more of the port than a PortService gives.
PortView == INSTANCE PortService
UsesPortService == PortView!PortSpec

\* Every handler returns to the event loop, whatever connections end under it.
HandlersReturn == ~Idle ~> Idle
=============================================================================
