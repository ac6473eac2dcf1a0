------------------------------ MODULE FifoLink ------------------------------
(***************************************************************************)
(* What the transporter promises its owner about one direction of packet   *)
(* traffic, with threads, locks, batches and wakeups all abstracted away.  *)
(* `sent' is what entered the link in the current port session and `got'   *)
(* what came out of it: packets come out once, in order and without gaps,  *)
(* and stopping the port forgets whatever was still inside.                *)
(***************************************************************************)
EXTENDS Naturals, Sequences

CONSTANT Packets    \* the packets that may travel

VARIABLES sent,     \* packets that entered the link since the last reset
          got       \* packets that left it since the last reset

linkVars == <<sent, got>>

LinkInit == sent = <<>> /\ got = <<>>

Send == /\ \E p \in Packets : sent' = Append(sent, p)
        /\ UNCHANGED got

\* A non-empty batch of the oldest undelivered packets leaves the link.
Deliver == /\ \E n \in Len(got) + 1 .. Len(sent) : got' = SubSeq(sent, 1, n)
           /\ UNCHANGED sent

\* Stopping the port loses what has not left the link yet.
Reset == sent' = <<>> /\ got' = <<>>

LinkNext == Send \/ Deliver \/ Reset

LinkSpec == LinkInit /\ [][LinkNext]_linkVars

=============================================================================
