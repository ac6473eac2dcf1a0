-------------------------------- MODULE Hub --------------------------------
(***************************************************************************)
(* What the TCP server promises its clients: every item is posted at one   *)
(* moment to everyone connected then, but for the one it is not meant for, *)
(* or to one client alone.  Clients come and go; one that leaves forgets   *)
(* what it got.  Nothing is posted twice, so that all clients see what     *)
(* they share in the same order.                                           *)
(***************************************************************************)
EXTENDS Naturals, Sequences

CONSTANT Members    \* who may join

VARIABLES joined,   \* who is connected
          stream    \* what each of them got since it joined

hubVars == <<joined, stream>>

HubInit == joined = {} /\ stream = [m \in Members |-> <<>>]

Join(m) ==
  /\ m \notin joined
  /\ joined' = joined \cup {m} /\ stream' = [stream EXCEPT ![m] = <<>>]

Leave(m) ==
  /\ m \in joined
  /\ joined' = joined \ {m} /\ stream' = [stream EXCEPT ![m] = <<>>]

\* One item, whatever it is, that nobody has got yet, is added to the streams of
\* all the readers.
Has(m, item) == \E k \in DOMAIN stream[m] : stream[m][k] = item
Post(readers) ==
  /\ \E item \in {stream'[m][Len(stream'[m])] : m \in {r \in readers : stream'[r] # <<>>}} :
       /\ \A m \in Members : ~Has(m, item)
       /\ stream' = [m \in Members |->
                       IF m \in readers THEN Append(stream[m], item) ELSE stream[m]]
  /\ UNCHANGED joined

HubNext ==
  \/ Post(joined)
  \/ \E m \in Members : Join(m) \/ Leave(m) \/ Post(joined \ {m})
  \/ \E m \in joined : Post({m})

HubSpec == HubInit /\ [][HubNext]_hubVars

\* Whoever gets two items gets them in the same order, and gets neither twice.
SameOrder ==
  \A m, n \in joined :
    \A i, j \in DOMAIN stream[m], k, l \in DOMAIN stream[n] :
      stream[m][i] = stream[n][k] /\ stream[m][j] = stream[n][l] /\ i < j => k < l
=============================================================================
