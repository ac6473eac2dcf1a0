--------------------------- MODULE MCTransporter ---------------------------
(* Transporter on a small instance.  It only moves packets, and compares    *)
(* none with another, so that it is enough to tell them apart by the order  *)
(* they come in: the nth packet given to Write, and the nth frame of the    *)
(* bus, has the number n.                                                   *)
EXTENDS Transporter

InTurn ==
  /\ \A k \in DOMAIN accepted : accepted[k] = k
  /\ \A k \in DOMAIN arrived : arrived[k] = k

InTurnSpec == Init /\ [][Next /\ InTurn']_vars /\ Fairness /\ BusyBus
=============================================================================
