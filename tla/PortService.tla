---------------------------- MODULE PortService ----------------------------
(***************************************************************************)
(* What the Transporter promises the handlers of ServerApp about the port: *)
(* one thing that is off, opening or on, and the packets that are still to *)
(* be reported.  The worker thread, its cycles and the ways in which a     *)
(* port opens and closes are abstracted away.  Transporter implements it,  *)
(* and what TcpServer says of the port is no more than this.               *)
(***************************************************************************)
EXTENDS Naturals, Sequences

CONSTANT Packets    \* the packets that may travel

VARIABLES port,     \* "off", "opening" or "on"
          txq,      \* packets accepted for sending and not reported yet
          rxq       \* packets received and not reported yet

portVars == <<port, txq, rxq>>

PortInit == port \in {"off", "opening", "on"} /\ txq = <<>> /\ rxq = <<>>

\* A port that is restarted may be open before the handler has its answer.
Restart == port' \in {"opening", "on"} /\ txq' = <<>> /\ rxq' = <<>>
Stop == port' = "off" /\ txq' = <<>> /\ rxq' = <<>>

\* A port may also be opening for ever.
Opens == port = "opening" /\ port' = "on" /\ UNCHANGED <<txq, rxq>>

\* Packets are taken only while the port is on.
Write == port = "on" /\ \E p \in Packets : txq' = Append(txq, p) /\ UNCHANGED <<port, rxq>>
Arrives == port = "on" /\ \E p \in Packets : rxq' = Append(rxq, p) /\ UNCHANGED <<port, txq>>

\* The oldest packets of both directions are reported.
Report ==
  /\ \E n \in 0 .. Len(rxq) : rxq' = SubSeq(rxq, n + 1, Len(rxq))
  /\ \E m \in 0 .. Len(txq) : txq' = SubSeq(txq, m + 1, Len(txq))
  /\ UNCHANGED port

PortNext == Restart \/ Stop \/ Opens \/ Write \/ Arrives \/ Report
PortSpec == PortInit /\ [][PortNext]_portVars
=============================================================================
