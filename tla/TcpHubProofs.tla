---------------------------- MODULE TcpHubProofs ----------------------------
(***************************************************************************)
(* Proofs that TcpServer implements Hub: nothing is posted twice, and the  *)
(* loops over Assocs post to everybody at once.  Clients that are          *)
(* connected at the same time hence agree on the order of what they get.   *)
(***************************************************************************)
EXTENDS TcpServerProofs

-----------------------------------------------------------------------------
(* Nothing is posted twice *)

Elements(s) == {s[k] : k \in DOMAIN s}
Distinct(s) == \A j, k \in DOMAIN s : s[j] = s[k] => j = k

\* What was written, or is to be written by a loop of the running handler.
Written == UNION {Elements(out[s]) : s \in Sockets}
Posted == Written \cup {todo[k].item : k \in DOMAIN todo}

\* What clients or the bus have still to make, or nobody has handled yet.
PieceAhead(p) == p.frame.no > made \/ p \in Elements(wire[p.frame.from])
FrameAhead(f) == PieceAhead(TailOf(f)) \/ TailOf(f) \in Elements(chunk)
PacketAhead(packet) ==
  \/ packet \in Elements(txq) \/ packet \in Elements(rxq)
  \/ packet.from = Nobody /\ packet.no > arrived
  \/ packet.from # Nobody /\ FrameAhead(packet)

\* What may still be posted.
Ahead(x) ==
  \/ x.what = "raw" /\ \E k \in DOMAIN x.pieces : PieceAhead(x.pieces[k])
  \/ x.what \in {"wrapped", "answer"} /\ FrameAhead(x.frame)
  \/ x.what \in {"report", "log"} /\ PacketAhead(x.packet)

QueuesOnce ==
  /\ Distinct(txq) /\ \A k \in DOMAIN txq : ~FrameAhead(txq[k])
  /\ Distinct(rxq) /\ \A k \in DOMAIN rxq : rxq[k].no <= arrived
LoopsOnce ==
  /\ \A j, k \in DOMAIN todo : todo[j].item = todo[k].item => j = k
  /\ \A k \in DOMAIN todo : k # 1 \/ it = Nobody => todo[k].item \notin Written
Once == (\A x \in Posted : ~Ahead(x)) /\ QueuesOnce /\ LoopsOnce

\* Pieces, frames and packets that are ahead only get fewer.
FewerAhead ==
  /\ \A p \in Pieces : PieceAhead(p)' => PieceAhead(p)
  /\ \A f \in Frames : FrameAhead(f)' => FrameAhead(f)
  /\ \A packet \in Packets : PacketAhead(packet)' => PacketAhead(packet)

\* When it is so: everything on its way was on its way, or is new.
LEMMA FewerIf ==
  ASSUME TypeOK, TypeOK', made <= made', arrived <= arrived',
         \A s \in Sockets : \A p \in Elements(wire'[s]) :
           p \in Elements(wire[s]) \/ p.frame.no > made,
         \A p \in Elements(chunk') : p \in Elements(chunk) \/ PieceAhead(p),
         \A packet \in Elements(txq') \cup Elements(rxq') : PacketAhead(packet)
  PROVE  FewerAhead
<1>1. /\ made \in Nat /\ made' \in Nat /\ arrived \in Nat /\ arrived' \in Nat
      /\ \A p \in Packets : p.no \in Nat
      /\ \A f \in Frames : f.no \in Nat /\ f.from \in Sockets /\ f.from # Nobody
  <2>1. /\ made \in Nat /\ made' \in Nat /\ arrived \in Nat /\ arrived' \in Nat
    BY BoundsAssumption DEF TypeOK
  <2>2. \A f \in Frames : f.no \in Nat /\ f.from \in Sockets /\ f.from # Nobody
    BY SocketsAssumption DEF Frames, Nobody
  <2>3. \A p \in BusFrames : p.no \in Nat
    BY DEF BusFrames, BusFrame
  <2>. QED
    BY <2>1, <2>2, <2>3 DEF Packets
<1>2. \A p \in Pieces : p.frame \in Frames
  BY PieceNumbers
<1>3. \A p \in Pieces : PieceAhead(p)' => PieceAhead(p)
  BY <1>1, <1>2 DEF PieceAhead
<1>4. \A f \in Frames : TailOf(f) \in Pieces /\ TailOf(f).frame = f
  BY DEF TailOf, Pieces
<1>5. \A f \in Frames : FrameAhead(f)' => FrameAhead(f)
  BY <1>3, <1>4 DEF FrameAhead
<1>6. \A packet \in Packets : packet.from # Nobody => packet \in Frames
  BY DEF Packets, BusFrames, BusFrame
<1>7. \A packet \in Packets : PacketAhead(packet)' => PacketAhead(packet)
  BY <1>1, <1>5, <1>6 DEF PacketAhead
<1>. QED
  BY <1>3, <1>5, <1>7 DEF FewerAhead

\* Then what may still be posted gets less.
LEMMA AheadLess ==
  ASSUME FewerAhead, NEW x \in ItemSet, Ahead(x)'
  PROVE  Ahead(x)
<1>1. CASE x.what = "raw"
  <2>1. x.pieces \in Seq(Pieces)
    BY <1>1 DEF ItemSet
  <2>2. PICK k \in DOMAIN x.pieces : PieceAhead(x.pieces[k])'
    BY <1>1 DEF Ahead
  <2>3. x.pieces[k] \in Pieces
    BY <2>1, <2>2
  <2>. QED
    BY <1>1, <2>2, <2>3 DEF FewerAhead, Ahead
<1>2. CASE x.what \in {"wrapped", "answer"}
  <2>1. x.frame \in Frames
    BY <1>2 DEF ItemSet
  <2>. QED
    BY <1>2, <2>1 DEF FewerAhead, Ahead
<1>3. CASE x.what \in {"report", "log"}
  <2>1. x.packet \in Packets
    BY <1>3 DEF ItemSet
  <2>. QED
    BY <1>3, <2>1 DEF FewerAhead, Ahead
<1>. QED
  BY <1>1, <1>2, <1>3 DEF ItemSet

\* What was posted are items.
LEMMA PostedTypes ==
  ASSUME TypeOK
  PROVE  Posted \subseteq ItemSet
<1>1. \A s \in Sockets : Elements(out[s]) \subseteq ItemSet
  BY DEF TypeOK, Elements
<1>2. \A k \in DOMAIN todo : todo[k].item \in ItemSet
  <2>1. \A k \in DOMAIN todo : todo[k] \in LoopSet
    BY TypeParts DEF HandlerTyped
  <2>. QED
    BY <2>1 DEF LoopSet
<1>. QED
  BY <1>1, <1>2 DEF Posted, Written

\* A step that posts only what is not ahead any more keeps everything posted once.
LEMMA OnceStays ==
  ASSUME TypeOK, Once, FewerAhead, \A x \in Posted' : x \in Posted \/ ~Ahead(x)',
         QueuesOnce', LoopsOnce'
  PROVE  Once'
<1>1. \A x \in Posted : x \in ItemSet
  BY PostedTypes
<1>2. \A x \in Posted' : ~Ahead(x)'
  BY <1>1, AheadLess DEF Once
<1>. QED
  BY <1>2 DEF Once

\* What else can stay as it was.
LEMMA OnceParts ==
  ASSUME TypeOK, Once, FewerAhead
  PROVE  /\ UNCHANGED <<txq, rxq, arrived>> => QueuesOnce'
         /\ UNCHANGED <<todo, it>> /\ Written' \subseteq Written =>
              LoopsOnce' /\ \A x \in Posted' : x \in Posted \/ ~Ahead(x)'
         /\ todo' = <<>> /\ Written' \subseteq Written =>
              LoopsOnce' /\ \A x \in Posted' : x \in Posted \/ ~Ahead(x)'
<1>1. \A k \in DOMAIN txq : txq[k] \in Frames
  BY DEF TypeOK
<1>2. UNCHANGED <<txq, rxq, arrived>> => QueuesOnce'
  BY <1>1 DEF Once, QueuesOnce, Distinct, FewerAhead
<1>3. UNCHANGED <<todo, it>> /\ Written' \subseteq Written =>
        LoopsOnce' /\ \A x \in Posted' : x \in Posted \/ ~Ahead(x)'
  BY DEF Once, LoopsOnce, Posted
<1>4. todo' = <<>> /\ Written' \subseteq Written =>
        LoopsOnce' /\ \A x \in Posted' : x \in Posted \/ ~Ahead(x)'
  BY DEF Once, LoopsOnce, Posted
<1>. QED
  BY <1>2, <1>3, <1>4

\* What a client sent and nobody parsed yet has no piece twice.
LEMMA UnparsedOnce ==
  ASSUME TypeOK, SilenceKept, NEW s \in Sockets
  PROVE  Distinct(Unparsed(s))
<1>1. Unparsed(s) \in Seq(Pieces)
  BY TypeParts, UnparsedTyped
<1>2. \A k \in DOMAIN Unparsed(s) :
        /\ Unparsed(s)[k].frame.no \in Nat /\ Unparsed(s)[k].part \in {"head", "tail"}
  <2>1. \A k \in DOMAIN Unparsed(s) : Unparsed(s)[k] \in Pieces
    BY <1>1
  <2>. QED
    BY <2>1, PieceNumbers DEF Pieces
<1>3. \A j, k \in DOMAIN Unparsed(s) : j < k => Unparsed(s)[j] # Unparsed(s)[k]
  BY <1>2 DEF SilenceKept, SentInOrder, Precedes
<1>4. \A j, k \in DOMAIN Unparsed(s) : j < k \/ k < j \/ j = k
  BY <1>1
<1>. QED
  BY <1>3, <1>4 DEF Distinct

\* The two ends of a sequence have nothing in common.
LEMMA EndsApart ==
  ASSUME NEW S, NEW s \in Seq(S), Distinct(s), NEW n \in 0 .. Len(s)
  PROVE  LET a == SubSeq(s, 1, n)  b == SubSeq(s, n + 1, Len(s)) IN
           /\ Distinct(a) /\ Distinct(b)
           /\ Elements(a) \subseteq Elements(s) /\ Elements(b) \subseteq Elements(s)
           /\ \A x \in Elements(a) : x \notin Elements(b)
<1> DEFINE a == SubSeq(s, 1, n)
           b == SubSeq(s, n + 1, Len(s))
<1>1. /\ Len(s) \in Nat /\ n \in Nat /\ DOMAIN s = 1 .. Len(s)
      /\ DOMAIN a = 1 .. n /\ \A k \in DOMAIN a : k \in DOMAIN s /\ a[k] = s[k]
      /\ DOMAIN b \subseteq Nat
      /\ \A k \in DOMAIN b : k # 0 /\ k + n \in DOMAIN s /\ b[k] = s[k + n]
  OBVIOUS
<1> HIDE DEF a, b
<1>2. \A j \in DOMAIN a, k \in DOMAIN b : a[j] # b[k]
  <2>1. \A j \in 1 .. n, k \in Nat \ {0} : j # k + n
    BY <1>1
  <2>2. \A j \in DOMAIN a, k \in DOMAIN b : j # k + n
    BY <1>1, <2>1
  <2>. QED
    BY <1>1, <2>2 DEF Distinct
<1>3. Distinct(a)
  BY <1>1 DEF Distinct
<1>4. Distinct(b)
  <2>1. \A j, k \in DOMAIN b : b[j] = b[k] => j + n = k + n
    BY <1>1 DEF Distinct
  <2>2. \A j, k \in Nat : j + n = k + n => j = k
    BY <1>1
  <2>. QED
    BY <1>1, <2>1, <2>2 DEF Distinct
<1>5. Elements(a) \subseteq Elements(s) /\ Elements(b) \subseteq Elements(s)
  BY <1>1 DEF Elements
<1>. QED
  BY <1>2, <1>3, <1>4, <1>5 DEF a, b, Elements

\* A sequence put together of two.
LEMMA Joined ==
  ASSUME NEW S, NEW s \in Seq(S), NEW t \in Seq(S)
  PROVE  /\ Elements(s \o t) = Elements(s) \cup Elements(t)
         /\ Distinct(s \o t) =>
              Distinct(s) /\ \A x \in Elements(s) : x \notin Elements(t)
         /\ Distinct(s) /\ Distinct(t) /\ (\A x \in Elements(s) : x \notin Elements(t)) =>
              Distinct(s \o t)
<1> DEFINE u == s \o t
           m == Len(s)
           n == Len(t)
<1>1. /\ m \in Nat /\ n \in Nat
      /\ DOMAIN s = 1 .. m /\ DOMAIN t = 1 .. n /\ DOMAIN u = 1 .. m + n
      /\ \A k \in 1 .. m : k \in DOMAIN u /\ u[k] = s[k]
      /\ \A k \in 1 .. n : m + k \in DOMAIN u /\ u[m + k] = t[k]
  OBVIOUS
<1>2. \A k \in DOMAIN u : k \in 1 .. m \/ \E i \in 1 .. n : k = m + i
  <2>1. \A k \in DOMAIN u : k \in 1 .. m \/ (k - m \in 1 .. n /\ k = m + (k - m))
    BY <1>1
  <2>. QED
    BY <2>1
<1>3. \A j \in 1 .. m, k \in 1 .. n : j # m + k
  BY <1>1
<1>4. \A j, k \in 1 .. n : m + j = m + k => j = k
  BY <1>1
<1> HIDE DEF u, m, n
<1>5. Elements(u) = Elements(s) \cup Elements(t)
  <2>1. \A k \in DOMAIN u : u[k] \in Elements(s) \/ u[k] \in Elements(t)
    BY <1>1, <1>2 DEF Elements
  <2>2. \A k \in DOMAIN s : s[k] \in Elements(u)
    BY <1>1 DEF Elements
  <2>3. \A k \in DOMAIN t : t[k] \in Elements(u)
    BY <1>1 DEF Elements
  <2>. QED
    BY <2>1, <2>2, <2>3 DEF Elements
<1>6. Distinct(u) => Distinct(s) /\ \A x \in Elements(s) : x \notin Elements(t)
  <2>1. Distinct(u) => \A j, k \in 1 .. m : s[j] = s[k] => j = k
    BY <1>1 DEF Distinct
  <2>2. Distinct(u) => \A j \in 1 .. m, k \in 1 .. n : s[j] # t[k]
    BY <1>1, <1>3 DEF Distinct
  <2>. QED
    BY <1>1, <2>1, <2>2 DEF Distinct, Elements
<1>7. ASSUME Distinct(s), Distinct(t), \A x \in Elements(s) : x \notin Elements(t)
      PROVE  Distinct(u)
  <2>1. \A j \in 1 .. m, k \in 1 .. n : s[j] # t[k]
    BY <1>1, <1>7 DEF Elements
  <2>2. \A j, k \in 1 .. m : s[j] = s[k] => j = k
    BY <1>1, <1>7 DEF Distinct
  <2>3. \A j, k \in 1 .. n : t[j] = t[k] => j = k
    BY <1>1, <1>7 DEF Distinct
  <2>4. ASSUME NEW j \in DOMAIN u, NEW k \in DOMAIN u, u[j] = u[k]
        PROVE  j = k
    <3>1. CASE j \in 1 .. m /\ k \in 1 .. m
      BY <1>1, <2>2, <2>4, <3>1
    <3>2. CASE \E i \in 1 .. n : j = m + i
      <4>1. PICK i \in 1 .. n : j = m + i
        BY <3>2
      <4>2. k \notin 1 .. m
        BY <1>1, <2>1, <2>4, <4>1
      <4>3. PICK l \in 1 .. n : k = m + l
        BY <1>2, <4>2
      <4>4. u[j] = t[i] /\ u[k] = t[l]
        BY <1>1, <4>1, <4>3
      <4>5. i = l
        BY <2>3, <2>4, <4>4
      <4>. QED
        BY <4>1, <4>3, <4>5
    <3>3. CASE \E i \in 1 .. n : k = m + i
      <4>1. PICK i \in 1 .. n : k = m + i
        BY <3>3
      <4>2. j \notin 1 .. m
        BY <1>1, <2>1, <2>4, <4>1
      <4>3. PICK l \in 1 .. n : j = m + l
        BY <1>2, <4>2
      <4>4. u[j] = t[l] /\ u[k] = t[i]
        BY <1>1, <4>1, <4>3
      <4>5. i = l
        BY <2>3, <2>4, <4>4
      <4>. QED
        BY <4>1, <4>3, <4>5
    <3>. QED
      BY <1>2, <3>1, <3>2, <3>3
  <2>. QED
    BY <2>4 DEF Distinct
<1>. QED
  BY <1>5, <1>6, <1>7 DEF u

\* A sequence with one element more at its end.
LEMMA Appended ==
  ASSUME NEW S, NEW s \in Seq(S), NEW x \in S
  PROVE  /\ Elements(Append(s, x)) = Elements(s) \cup {x}
         /\ Distinct(s) /\ x \notin Elements(s) => Distinct(Append(s, x))
<1>1. <<x>> \in Seq(S) /\ Append(s, x) = s \o <<x>>
  OBVIOUS
<1>2. Elements(<<x>>) = {x} /\ Distinct(<<x>>)
  BY DEF Elements, Distinct
<1>3. PICK t \in Seq(S) : t = <<x>>
  BY <1>1
<1>4. /\ Elements(s \o t) = Elements(s) \cup Elements(t)
      /\ Distinct(s) /\ Distinct(t) /\ (\A y \in Elements(s) : y \notin Elements(t)) =>
           Distinct(s \o t)
  BY Joined
<1>. QED
  BY <1>1, <1>2, <1>3, <1>4

\* A sequence without its head.
LEMMA Headless ==
  ASSUME NEW S, NEW s \in Seq(S), s # <<>>
  PROVE  /\ Head(s) \in Elements(s) /\ Elements(Tail(s)) \subseteq Elements(s)
         /\ Distinct(s) => Distinct(Tail(s)) /\ Head(s) \notin Elements(Tail(s))
<1>1. /\ Head(s) = s[1] /\ 1 \in DOMAIN s /\ DOMAIN s \subseteq Nat
      /\ DOMAIN Tail(s) \subseteq Nat \ {0}
      /\ \A k \in DOMAIN Tail(s) : k + 1 \in DOMAIN s /\ Tail(s)[k] = s[k + 1]
  OBVIOUS
<1>2. \A k \in Nat \ {0} : k + 1 # 1
  OBVIOUS
<1>3. \A j, k \in Nat : j + 1 = k + 1 => j = k
  OBVIOUS
<1>4. Distinct(s) => \A j, k \in DOMAIN Tail(s) : Tail(s)[j] = Tail(s)[k] => j + 1 = k + 1
  BY <1>1 DEF Distinct
<1>5. Distinct(s) => Distinct(Tail(s))
  BY <1>1, <1>3, <1>4 DEF Distinct
<1>6. Distinct(s) => \A k \in DOMAIN Tail(s) : Tail(s)[k] # s[1]
  BY <1>1, <1>2 DEF Distinct
<1>. QED
  BY <1>1, <1>5, <1>6 DEF Elements

\* A write to a socket adds one item to what was written.
LEMMA WrittenGrows ==
  ASSUME TypeOK, NEW s \in Sockets, NEW x \in ItemSet,
         out' = [out EXCEPT ![s] = Append(@, x)]
  PROVE  Written' \subseteq Written \cup {x}
<1>1. out[s] \in Seq(ItemSet) /\ out'[s] = Append(out[s], x)
      /\ \A r \in Sockets \ {s} : out'[r] = out[r]
  BY DEF TypeOK
<1>2. Elements(out'[s]) = Elements(out[s]) \cup {x}
  BY <1>1, Appended
<1>3. \A r \in Sockets : Elements(out'[r]) \subseteq Elements(out[r]) \cup {x}
  BY <1>1, <1>2
<1>. QED
  BY <1>3 DEF Written

\* Nothing new is written when nobody writes, or when a connection ends.
LEMMA WrittenShrinks ==
  ASSUME TypeOK, NEW s \in Sockets,
         UNCHANGED out \/ out' = [out EXCEPT ![s] = <<>>]
  PROVE  Written' \subseteq Written
<1>1. \A r \in Sockets : out'[r] = out[r] \/ out'[r] = <<>>
  BY DEF TypeOK
<1>2. Elements(<<>>) = {}
  BY DEF Elements
<1>3. \A r \in Sockets : Elements(out'[r]) \subseteq Elements(out[r])
  BY <1>1, <1>2
<1>. QED
  BY <1>3 DEF Written

\* Connections come and go.
LEMMA OnceConnections ==
  ASSUME TypeOK, TypeOK', Once, NEW s \in Sockets, OnNewConnection(s) \/ Disconnected(s)
  PROVE  Once'
<1>1. /\ wire' = [wire EXCEPT ![s] = <<>>] /\ out' = [out EXCEPT ![s] = <<>>]
      /\ UNCHANGED <<txq, rxq, arrived, todo, it, chunk, made>>
  BY DEF OnNewConnection, Admit, Disconnected, Forget, handler, portVars
<1>2. FewerAhead
  <2>1. \A r \in Sockets : wire'[r] = wire[r] \/ wire'[r] = <<>>
    BY <1>1 DEF TypeOK
  <2>2. Elements(<<>>) = {}
    BY DEF Elements
  <2>3. \A packet \in Elements(txq') \cup Elements(rxq') : PacketAhead(packet)
    BY <1>1 DEF PacketAhead
  <2>. QED
    BY <1>1, <2>1, <2>2, <2>3, FewerIf DEF TypeOK
<1>. QED
  BY <1>1, <1>2, WrittenShrinks, OnceParts, OnceStays

\* The pieces of a chunk are taken off the wire.
LEMMA OnceRead ==
  ASSUME TypeOK, TypeOK', Once, OriginKept, SilenceKept, NEW s \in Sockets, ReadyRead(s)
  PROVE  Once'
<1>1. PICK n \in 1 .. Len(wire[s]) : Take(s, n) /\ todo' = <<Loop(Raw(chunk'), s)>>
  BY DEF ReadyRead, Arrived
<1>2. /\ todo = <<>> /\ chunk = <<>> /\ chunk' = SubSeq(wire[s], 1, n)
      /\ wire' = [wire EXCEPT ![s] = SubSeq(@, n + 1, Len(@))]
      /\ UNCHANGED <<out, txq, rxq, arrived, made>>
  BY <1>1 DEF Take, Idle, portVars
<1>3. PICK w \in Seq(Pieces) : w = wire[s]
  BY DEF TypeOK
<1>4. wire'[s] = SubSeq(w, n + 1, Len(w)) /\ \A r \in Sockets \ {s} : wire'[r] = wire[r]
  BY <1>2, <1>3 DEF TypeOK
<1>5. Distinct(w)
  <2>1. Unparsed(s) = w
    BY <1>2, <1>3 DEF Unparsed
  <2>. QED
    BY <2>1, UnparsedOnce
<1>6. /\ Elements(chunk') \subseteq Elements(w) /\ Elements(wire'[s]) \subseteq Elements(w)
      /\ \A p \in Elements(chunk') : p \notin Elements(wire'[s])
  <2>1. n \in 0 .. Len(w)
    BY <1>3
  <2>. QED
    BY <1>2, <1>3, <1>4, <1>5, <2>1, EndsApart
<1>7. \A p \in Elements(w) : p \in Pieces /\ p.frame.from = s /\ p.frame.no <= made
  <2>1. \A k \in DOMAIN w : w[k] \in Pieces
    OBVIOUS
  <2>2. Unparsed(s) = w
    BY <1>2, <1>3 DEF Unparsed
  <2>. QED
    BY <1>3, <2>1, <2>2 DEF Elements, OriginKept, SilenceKept, SentInOrder
<1>8. FewerAhead
  <2>1. \A p \in Elements(chunk') : PieceAhead(p)
    BY <1>3, <1>6, <1>7 DEF PieceAhead
  <2>2. \A packet \in Elements(txq') \cup Elements(rxq') : PacketAhead(packet)
    BY <1>2 DEF PacketAhead
  <2>3. \A r \in Sockets : Elements(wire'[r]) \subseteq Elements(wire[r])
    BY <1>3, <1>4, <1>6
  <2>4. made <= made' /\ arrived <= arrived'
    BY <1>2 DEF TypeOK
  <2>. QED
    BY <2>1, <2>2, <2>3, <2>4, FewerIf
<1>9. PICK x : x = Raw(chunk')
  OBVIOUS
<1>10. todo' = <<Loop(x, s)>> /\ Loop(x, s).item = x /\ x.what = "raw" /\ x.pieces = chunk'
  BY <1>1, <1>9 DEF Loop, Raw
\* It was ahead, and is not any more.
<1>11. ~Ahead(x)'
  <2>1. \A p \in Elements(chunk') : ~PieceAhead(p)'
    <3>1. made \in Nat /\ made' = made
      BY <1>2 DEF TypeOK
    <3>2. \A p \in Elements(chunk') : p.frame.no \in Nat
      BY <1>6, <1>7, PieceNumbers
    <3>. QED
      BY <1>6, <1>7, <3>1, <3>2 DEF PieceAhead
  <2>. QED
    BY <1>10, <2>1 DEF Ahead, Elements
<1>12. Posted' = Written \cup {x} /\ Written' = Written
  BY <1>2, <1>10 DEF Posted, Written
<1>13. LoopsOnce'
  <2>1. PieceAhead(w[1]) /\ chunk'[1] = w[1] /\ 1 \in DOMAIN chunk'
    <3>1. chunk'[1] = w[1] /\ 1 \in DOMAIN chunk' /\ 1 \in DOMAIN w
      BY <1>2, <1>3
    <3>. QED
      BY <1>3, <1>7, <3>1 DEF PieceAhead, Elements
  <2>2. Ahead(x)
    BY <1>10, <2>1 DEF Ahead
  <2>3. x \notin Written
    BY <2>2 DEF Once, Posted
  <2>. QED
    BY <1>10, <1>12, <2>3 DEF LoopsOnce
<1>. QED
  BY <1>2, <1>8, <1>11, <1>12, <1>13, OnceParts, OnceStays DEF Posted

\* A client sends a frame that nobody saw before.
LEMMA OnceSent ==
  ASSUME TypeOK, TypeOK', Once, NEW s \in Sockets, NEW kind \in Kinds, ClientSends(s, kind)
  PROVE  Once'
<1>1. PICK f : f = [no |-> made + 1, from |-> s, kind |-> kind]
  OBVIOUS
<1>2. /\ made' = made + 1 /\ wire' = [wire EXCEPT ![s] = @ \o <<HeadOf(f), TailOf(f)>>]
      /\ UNCHANGED <<out, txq, rxq, arrived, todo, it, chunk>>
  BY <1>1 DEF ClientSends, handler, portVars
<1>3. /\ HeadOf(f) \in Pieces /\ TailOf(f) \in Pieces
      /\ HeadOf(f).frame.no = made + 1 /\ TailOf(f).frame.no = made + 1
  <2>1. f \in Frames
    BY <1>1, BoundsAssumption DEF ClientSends, Frames, TypeOK
  <2>. QED
    BY <1>1, <2>1 DEF HeadOf, TailOf, Pieces
<1>4. wire[s] \in Seq(Pieces) /\ wire'[s] = wire[s] \o <<HeadOf(f), TailOf(f)>>
      /\ \A r \in Sockets \ {s} : wire'[r] = wire[r]
  BY <1>2 DEF TypeOK
<1>5. Elements(wire'[s]) = Elements(wire[s]) \cup {HeadOf(f), TailOf(f)}
  <2>1. <<HeadOf(f), TailOf(f)>> \in Seq(Pieces)
    BY <1>3
  <2>2. Elements(<<HeadOf(f), TailOf(f)>>) = {HeadOf(f), TailOf(f)}
    BY DEF Elements
  <2>. QED
    BY <1>4, <2>1, <2>2, Joined
<1>6. made \in Nat /\ arrived \in Nat
  BY DEF TypeOK
<1>7. FewerAhead
  <2>1. \A r \in Sockets : \A p \in Elements(wire'[r]) :
          p \in Elements(wire[r]) \/ p.frame.no > made
    <3>1. \A p \in {HeadOf(f), TailOf(f)} : p.frame.no > made
      BY <1>3, <1>6
    <3>. QED
      BY <1>4, <1>5, <3>1
  <2>2. \A packet \in Elements(txq') \cup Elements(rxq') : PacketAhead(packet)
    BY <1>2 DEF PacketAhead
  <2>3. made <= made' /\ arrived <= arrived'
    BY <1>2, <1>6
  <2>. QED
    BY <1>2, <2>1, <2>2, <2>3, FewerIf
<1>. QED
  BY <1>2, <1>7, WrittenShrinks, OnceParts, OnceStays

\* The port opens, and the bus carries frames.
LEMMA OncePort ==
  ASSUME TypeOK, TypeOK', Once, PortOpens \/ FrameArrives \/ UNCHANGED vars
  PROVE  Once'
<1>1. UNCHANGED <<wire, out, txq, todo, it, chunk, made>>
  BY DEF PortOpens, FrameArrives, vars, handler
<1>2. /\ arrived \in Nat /\ rxq \in Seq(BusFrames) /\ rxq' \in Seq(BusFrames)
      /\ \A b \in BusFrames : b.from = Nobody /\ b.no \in Nat
  <2>1. \A b \in BusFrames : b.from = Nobody /\ b.no \in Nat
    BY DEF BusFrames, BusFrame
  <2>. QED
    BY <2>1 DEF TypeOK
<1>3. CASE UNCHANGED <<rxq, arrived>>
  <2>1. FewerAhead
    <3>1. \A packet \in Elements(txq') \cup Elements(rxq') : PacketAhead(packet)
      BY <1>1, <1>3 DEF PacketAhead
    <3>. QED
      BY <1>1, <1>2, <1>3, <3>1, FewerIf DEF TypeOK
  <2>2. Written' = Written
    BY <1>1 DEF Written
  <2>. QED
    BY <1>1, <1>3, <2>1, <2>2, OnceParts, OnceStays
<1>4. CASE FrameArrives
  <2>1. PICK b \in BusFrames : b = BusFrame(arrived + 1)
    BY <1>2, <1>4, BoundsAssumption DEF FrameArrives, BusFrames
  <2>2. arrived' = arrived + 1 /\ rxq' = Append(rxq, b) /\ b.no = arrived + 1 /\ b.from = Nobody
    BY <1>4, <2>1 DEF FrameArrives, BusFrame
  <2>3. Distinct(rxq) /\ \A k \in DOMAIN rxq : rxq[k].no <= arrived
    BY DEF Once, QueuesOnce
  <2>4. b \notin Elements(rxq)
    BY <1>2, <2>2, <2>3 DEF Elements
  <2>5. Elements(rxq') = Elements(rxq) \cup {b} /\ Distinct(rxq')
    BY <1>2, <2>2, <2>3, <2>4, Appended
  <2>6. FewerAhead
    <3>1. PacketAhead(b)
      BY <1>2, <2>2 DEF PacketAhead
    <3>2. \A packet \in Elements(txq') \cup Elements(rxq') : PacketAhead(packet)
      BY <1>1, <2>5, <3>1 DEF PacketAhead
    <3>3. made <= made' /\ arrived <= arrived'
      BY <1>1, <1>2, <2>2 DEF TypeOK
    <3>. QED
      BY <1>1, <3>2, <3>3, FewerIf
  <2>7. QueuesOnce'
    <3>1. \A k \in DOMAIN rxq' : rxq'[k] \in Elements(rxq) \cup {b}
      BY <2>5 DEF Elements
    <3>2. \A x \in Elements(rxq) : x.no <= arrived /\ x \in BusFrames
      BY <1>2, <2>3 DEF Elements
    <3>3. \A k \in DOMAIN rxq' : rxq'[k].no <= arrived + 1
      BY <1>2, <2>2, <3>1, <3>2
    <3>4. \A k \in DOMAIN txq : txq[k] \in Frames
      BY DEF TypeOK
    <3>. QED
      BY <1>1, <2>2, <2>5, <2>6, <3>3, <3>4 DEF Once, QueuesOnce, FewerAhead
  <2>8. Written' = Written
    BY <1>1 DEF Written
  <2>. QED
    BY <1>1, <2>6, <2>7, <2>8, OnceParts, OnceStays
<1>. QED
  BY <1>3, <1>4 DEF PortOpens, vars, portVars

\* The loops that report packets write each item once.
LEMMA ReportsOnce ==
  ASSUME NEW packets \in Seq(Packets), Distinct(packets),
         NEW j \in DOMAIN Loops(packets), NEW k \in DOMAIN Loops(packets),
         Loops(packets)[j].item = Loops(packets)[k].item
  PROVE  j = k
<1> DEFINE n == 2 * Len(packets)
           at(i) == (i + 1) \div 2
           item(i) == IF i % 2 = 1 THEN Report(packets[at(i)]) ELSE LogLine(packets[at(i)])
<1>1. Len(packets) \in Nat /\ n \in Nat
  OBVIOUS
<1>2. DOMAIN Loops(packets) = 1 .. n
  BY DEF Loops
<1>3. \A i \in 1 .. n : at(i) \in 1 .. Len(packets)
  BY <1>1, Z3
<1>4. \A i \in 1 .. n : Loops(packets)[i].item = item(i)
  BY DEF Loops, Loop
<1>5. item(j) = item(k)
  BY <1>2, <1>4
<1>6. /\ \A p, q : Report(p) # LogLine(q)
      /\ \A p, q : Report(p) = Report(q) \/ LogLine(p) = LogLine(q) => p = q
  BY DEF Report, LogLine
<1>7. (j % 2 = 1 <=> k % 2 = 1) /\ packets[at(j)] = packets[at(k)]
  BY <1>5, <1>6
<1>8. at(j) = at(k)
  BY <1>2, <1>3, <1>7 DEF Distinct
<1>9. j \in Int /\ k \in Int
  BY <1>2
<1>. QED
  BY <1>7, <1>8, <1>9, Z3

\* Reported packets are taken off the queues.
LEMMA OnceReported ==
  ASSUME TypeOK, TypeOK', Once, OnEvents
  PROVE  Once'
<1>1. /\ todo = <<>> /\ UNCHANGED <<wire, out, chunk, made, arrived>>
      /\ \E n \in 0 .. Len(rxq), m \in 0 .. Len(txq) :
           /\ todo' = Loops(SubSeq(rxq, 1, n) \o SubSeq(txq, 1, m))
           /\ rxq' = SubSeq(rxq, n + 1, Len(rxq)) /\ txq' = SubSeq(txq, m + 1, Len(txq))
  BY DEF OnEvents, Idle
<1>2. PICK n \in 0 .. Len(rxq), m \in 0 .. Len(txq) :
        /\ todo' = Loops(SubSeq(rxq, 1, n) \o SubSeq(txq, 1, m))
        /\ rxq' = SubSeq(rxq, n + 1, Len(rxq)) /\ txq' = SubSeq(txq, m + 1, Len(txq))
  BY <1>1
<1>3. PICK rx, tx : rx = SubSeq(rxq, 1, n) /\ tx = SubSeq(txq, 1, m)
  OBVIOUS
<1>4. /\ rxq \in Seq(BusFrames) /\ txq \in Seq(Frames) /\ Distinct(rxq) /\ Distinct(txq)
      /\ \A k \in DOMAIN txq : ~FrameAhead(txq[k])
      /\ \A k \in DOMAIN rxq : rxq[k].no <= arrived
  BY DEF TypeOK, Once, QueuesOnce
<1>5. /\ rx \in Seq(BusFrames) /\ Distinct(rx) /\ Distinct(rxq')
      /\ Elements(rx) \subseteq Elements(rxq) /\ Elements(rxq') \subseteq Elements(rxq)
      /\ \A b \in Elements(rx) : b \notin Elements(rxq')
  BY <1>2, <1>3, <1>4, EndsApart, Ends
<1>6. /\ tx \in Seq(Frames) /\ Distinct(tx) /\ Distinct(txq')
      /\ Elements(tx) \subseteq Elements(txq) /\ Elements(txq') \subseteq Elements(txq)
      /\ \A f \in Elements(tx) : f \notin Elements(txq')
  BY <1>2, <1>3, <1>4, EndsApart, Ends
<1>7. /\ \A f \in Elements(txq) : f \in Frames /\ ~FrameAhead(f)
      /\ \A b \in Elements(rxq) : b \in BusFrames /\ b.no <= arrived
  BY <1>4 DEF Elements
<1>8. /\ \A f \in Frames : f.from # Nobody
      /\ \A b \in BusFrames : b.from = Nobody /\ b.no \in Nat
  BY SocketsAssumption DEF Frames, BusFrames, BusFrame, Nobody
<1>9. PICK packets : packets = rx \o tx
  OBVIOUS
<1>10. /\ packets \in Seq(Packets) /\ Elements(packets) = Elements(rx) \cup Elements(tx)
       /\ Distinct(packets) /\ todo' = Loops(packets)
  <2>1. rx \in Seq(Packets) /\ tx \in Seq(Packets)
    BY <1>5, <1>6 DEF Packets
  <2>2. \A b \in Elements(rx) : b \notin Elements(tx)
    BY <1>5, <1>6, <1>7, <1>8
  <2>3. packets \in Seq(Packets)
    BY <1>9, <2>1
  <2>4. Elements(packets) = Elements(rx) \cup Elements(tx) /\ Distinct(packets)
    BY <1>5, <1>6, <1>9, <2>1, <2>2, Joined
  <2>. QED
    BY <1>2, <1>3, <1>9, <2>3, <2>4
<1>11. FewerAhead
  <2>1. \A packet \in Elements(txq') \cup Elements(rxq') : PacketAhead(packet)
    BY <1>5, <1>6 DEF PacketAhead
  <2>2. made <= made' /\ arrived <= arrived'
    BY <1>1 DEF TypeOK
  <2>. QED
    BY <1>1, <2>1, <2>2, FewerIf
<1>12. QueuesOnce'
  <2>1. \A k \in DOMAIN txq' : txq'[k] \in Elements(txq)
    BY <1>6 DEF Elements
  <2>2. \A k \in DOMAIN rxq' : rxq'[k] \in Elements(rxq)
    BY <1>5 DEF Elements
  <2>. QED
    BY <1>1, <1>5, <1>6, <1>7, <1>11, <2>1, <2>2 DEF QueuesOnce, FewerAhead
\* A packet was ahead, and is not any more.
<1>13. ASSUME NEW packet \in Elements(packets)
       PROVE  packet \in Packets /\ PacketAhead(packet) /\ ~PacketAhead(packet)'
  <2>1. CASE packet \in Elements(rx)
    <3>1. packet \in BusFrames /\ packet \in Elements(rxq) /\ packet \notin Elements(rxq')
      BY <1>5, <1>7, <2>1
    <3>2. packet \notin Elements(txq')
      BY <1>6, <1>7, <1>8, <3>1
    <3>3. ~(packet.no > arrived)
      <4>1. packet.no \in Nat /\ packet.no <= arrived
        BY <1>7, <1>8, <3>1
      <4>2. arrived \in Nat
        BY DEF TypeOK
      <4>. QED
        BY <4>1, <4>2
    <3>. QED
      BY <1>1, <1>8, <3>1, <3>2, <3>3 DEF PacketAhead, Packets
  <2>2. CASE packet \in Elements(tx)
    <3>1. /\ packet \in Frames /\ packet \in Elements(txq) /\ packet \notin Elements(txq')
          /\ ~FrameAhead(packet)
      BY <1>6, <1>7, <2>2
    <3>2. packet \notin Elements(rxq')
      BY <1>5, <1>7, <1>8, <3>1
    <3>3. ~FrameAhead(packet)'
      BY <1>11, <3>1 DEF FewerAhead
    <3>. QED
      BY <1>8, <3>1, <3>2, <3>3 DEF PacketAhead, Packets
  <2>. QED
    BY <1>10, <2>1, <2>2
<1>14. \A k \in DOMAIN todo' : \E packet \in Elements(packets) :
         todo'[k].item \in {Report(packet), LogLine(packet)}
  BY <1>10, ReportLoops DEF Elements
<1>15. \A packet : \A x \in {Report(packet), LogLine(packet)} :
         x.what \in {"report", "log"} /\ x.packet = packet
  BY DEF Report, LogLine
<1>16. \A k \in DOMAIN todo' : Ahead(todo'[k].item) /\ ~Ahead(todo[k].item)'
  <2>1. ASSUME NEW x, NEW packet \in Elements(packets), x \in {Report(packet), LogLine(packet)}
        PROVE  Ahead(x) /\ ~Ahead(x)'
    BY <1>13, <1>15, <2>1 DEF Ahead
  <2>2. ASSUME NEW k \in DOMAIN todo'
        PROVE  Ahead(todo'[k].item) /\ ~Ahead(todo[k].item)'
    <3>1. PICK x : x = todo'[k].item
      OBVIOUS
    <3>2. PICK packet \in Elements(packets) : x \in {Report(packet), LogLine(packet)}
      BY <1>14, <3>1
    <3>3. Ahead(x) /\ ~Ahead(x)'
      BY <2>1, <3>2
    <3>. QED
      BY <3>1, <3>3
  <2>. QED
    BY <2>2
<1>17. Written' = Written
  BY <1>1 DEF Written
<1>18. LoopsOnce'
  <2>1. \A j, k \in DOMAIN todo' : todo'[j].item = todo'[k].item => j = k
    BY <1>10, ReportsOnce
  <2>2. \A k \in DOMAIN todo' : todo'[k].item \notin Written
    BY <1>16 DEF Once, Posted
  <2>. QED
    BY <1>17, <2>1, <2>2 DEF LoopsOnce
<1>19. \A x \in Posted' : x \in Posted \/ ~Ahead(x)'
  <2>1. \A x \in Posted' : x \in Written \/ \E k \in DOMAIN todo' : x = todo'[k].item
    BY <1>17 DEF Posted
  <2>2. Written \subseteq Posted
    BY DEF Posted
  <2>. QED
    BY <1>16, <2>1, <2>2
<1>. QED
  BY <1>11, <1>12, <1>18, <1>19, OnceStays

\* A loop writes its item, and comes to its end.
LEMMA OnceWritten ==
  ASSUME TypeOK, TypeOK', Once, WriteNext \/ LoopEnds
  PROVE  Once'
<1>1. /\ todo # <<>> /\ UNCHANGED <<txq, rxq, arrived, chunk, made>>
      /\ todo \in Seq(LoopSet)
  BY TypeParts DEF WriteNext, Turn, LoopEnds, portVars, HandlerTyped
<1>2. Head(todo) = todo[1] /\ 1 \in DOMAIN todo /\ todo[1] \in LoopSet
  BY <1>1
<1>3. PICK x \in ItemSet : x = Head(todo).item
  BY <1>2 DEF LoopSet
<1>4. \A packet \in Elements(txq') \cup Elements(rxq') : PacketAhead(packet)
  BY <1>1 DEF PacketAhead
<1>5. made <= made' /\ arrived <= arrived'
  BY <1>1 DEF TypeOK
<1>6. CASE WriteNext
  <2>1. PICK s \in Assocs : Turn(s)
    BY <1>6 DEF WriteNext
  <2>2. s \in Sockets /\ UNCHANGED todo /\ it' # Nobody
    BY <2>1, SocketsAssumption DEF TypeOK, Turn, Nobody
  <2>3. \/ UNCHANGED <<wire, out>>
        \/ out' = [out EXCEPT ![s] = Append(@, x)] /\ UNCHANGED wire
        \/ out' = [out EXCEPT ![s] = <<>>] /\ wire' = [wire EXCEPT ![s] = <<>>]
    BY <1>3, <2>1 DEF Turn, Forget
  <2>4. FewerAhead
    <3>1. \A r \in Sockets : wire'[r] = wire[r] \/ wire'[r] = <<>>
      BY <2>2, <2>3 DEF TypeOK
    <3>2. Elements(<<>>) = {}
      BY DEF Elements
    <3>. QED
      BY <1>1, <1>4, <1>5, <3>1, <3>2, FewerIf
  <2>5. Written' \subseteq Written \cup {x}
    BY <2>2, <2>3, WrittenGrows, WrittenShrinks
  <2>6. Posted' \subseteq Posted
    BY <1>2, <1>3, <2>2, <2>5 DEF Posted
  <2>7. LoopsOnce'
    <3>1. \A k \in DOMAIN todo : k # 1 => todo[k].item # x
      BY <1>2, <1>3 DEF Once, LoopsOnce
    <3>. QED
      BY <2>2, <2>5, <3>1 DEF Once, LoopsOnce
  <2>. QED
    BY <1>1, <2>4, <2>6, <2>7, OnceParts, OnceStays
<1>7. CASE LoopEnds
  <2>1. todo' = Tail(todo) /\ UNCHANGED <<wire, out>>
    BY <1>7 DEF LoopEnds
  <2>2. /\ \A k \in DOMAIN todo' :
             k \in Nat /\ k # 0 /\ k + 1 \in DOMAIN todo /\ todo'[k] = todo[k + 1]
        /\ \A j, k \in Nat : j + 1 = k + 1 => j = k
        /\ \A k \in Nat \ {0} : k + 1 # 1
    BY <1>1, <2>1
  <2>3. FewerAhead
    BY <1>1, <1>4, <1>5, <2>1, FewerIf
  <2>4. Written' = Written
    BY <2>1 DEF Written
  <2>5. Posted' \subseteq Posted
    BY <2>2, <2>4 DEF Posted
  <2>6. LoopsOnce'
    BY <2>2, <2>4 DEF Once, LoopsOnce
  <2>. QED
    BY <1>1, <2>3, <2>5, <2>6, OnceParts, OnceStays
<1>. QED
  BY <1>6, <1>7

\* A parsed frame is handled: it is queued and posted as what it was ahead for.
LEMMA OnceParsed ==
  ASSUME TypeOK, TypeOK', Once, OriginKept, SilenceKept, Parse
  PROVE  Once'
<1>0. PICK f : f = Head(chunk).frame
  OBVIOUS
<1>1. /\ todo = <<>> /\ chunk # <<>> /\ chunk' = Tail(chunk)
      /\ UNCHANGED <<from, made, arrived>>
      /\ \/ NoAnswer /\ PortUntouched
         \/ Head(chunk).part = "tail" /\ (DataPacket(f) \/ ControlPacket(f))
  BY <1>0 DEF Parse
<1>2. PICK c \in Seq(Pieces) : c = chunk
  BY DEF TypeOK
<1>3. Head(c) \in Elements(c) /\ Elements(chunk') \subseteq Elements(c)
  BY <1>1, <1>2, Headless
<1>4. \A p \in Elements(c) : p \in Pieces /\ p.frame.from = from
  <2>1. \A k \in DOMAIN c : c[k] \in Pieces
    OBVIOUS
  <2>. QED
    BY <1>2, <2>1 DEF Elements, OriginKept
<1>5. f \in Frames /\ f.from = from /\ from \in Sockets /\ from # Nobody
  <2>1. f \in Frames /\ f.from = from
    BY <1>0, <1>2, <1>3, <1>4 DEF Pieces
  <2>. QED
    BY <2>1, SocketsAssumption DEF Frames, Nobody
<1>6. PICK s \in Sockets : s = from
  BY <1>5
<1>7. PICK w \in Seq(Pieces) : w = wire[s]
  BY DEF TypeOK
<1>8. /\ Distinct(c) /\ \A p \in Elements(c) : p \notin Elements(w)
      /\ \A p \in Elements(c) : p.frame.no <= made
  <2>1. Unparsed(s) = c \o w
    BY <1>2, <1>6, <1>7 DEF Unparsed
  <2>2. Distinct(c) /\ \A p \in Elements(c) : p \notin Elements(w)
    <3>1. Distinct(Unparsed(s))
      BY UnparsedOnce
    <3>2. Distinct(c \o w)
      BY <2>1, <3>1
    <3>. QED
      BY <3>2, Joined
  <2>3. \A p \in Elements(c \o w) : p.frame.no <= made
    BY <2>1 DEF SilenceKept, SentInOrder, Elements
  <2>. QED
    BY <2>2, <2>3, Joined
\* What the packet makes of the port, and of its client.
<1>9. \/ UNCHANGED <<txq, rxq>>
      \/ txq' = <<>> /\ rxq' = <<>>
      \/ Head(chunk).part = "tail" /\ txq' = Append(txq, f) /\ rxq' = rxq
  BY <1>1, <1>5, ControlPacketEffects
  DEF PortUntouched, DataPacket, WritePacket, RestartPort, StopPort
<1>10. \/ UNCHANGED <<out, wire>> /\ todo' = <<>>
       \/ /\ Head(chunk).part = "tail" /\ UNCHANGED <<out, wire>>
          /\ todo' = <<Loop(Wrapped(f), from)>>
       \/ /\ Head(chunk).part = "tail" /\ UNCHANGED wire /\ todo' = <<>>
          /\ out' = [out EXCEPT ![s] = Append(@, Answer(f))]
       \/ /\ out' = [out EXCEPT ![s] = <<>>] /\ wire' = [wire EXCEPT ![s] = <<>>]
          /\ todo' = <<>>
  <2>1. CASE NoAnswer
    BY <1>1, <2>1 DEF NoAnswer
  <2>2. CASE Head(chunk).part = "tail" /\ DataPacket(f)
    BY <2>2 DEF DataPacket
  <2>3. CASE Head(chunk).part = "tail" /\ SendToUI(f)
    BY <1>1, <1>6, <2>3 DEF SendToUI
  <2>. QED
    BY <1>1, <1>5, <2>1, <2>2, <2>3, ControlPacketEffects
<1>11. \A r \in Sockets : wire'[r] = wire[r] \/ wire'[r] = <<>>
  BY <1>10 DEF TypeOK
<1>12. Elements(<<>>) = {}
  BY DEF Elements
\* The frame was ahead until its tail was parsed.
<1>13. ASSUME Head(chunk).part = "tail"
       PROVE  FrameAhead(f) /\ ~FrameAhead(f)'
  <2>1. Head(c) = TailOf(f) /\ TailOf(f).frame = f
    BY <1>0, <1>2, <1>3, <1>4, <1>13 DEF TailOf, Pieces
  <2>2. FrameAhead(f)
    BY <1>2, <1>3, <2>1 DEF FrameAhead
  <2>3. TailOf(f) \notin Elements(chunk')
    BY <1>1, <1>2, <1>8, <2>1, Headless
  <2>4. TailOf(f) \notin Elements(wire'[s])
    BY <1>3, <1>7, <1>8, <1>11, <1>12, <2>1
  <2>5. ~(f.no > made')
    <3>1. f.no <= made /\ f.no \in Nat
      BY <1>3, <1>5, <1>8, <2>1 DEF Frames
    <3>2. made \in Nat
      BY DEF TypeOK
    <3>. QED
      BY <1>1, <3>1, <3>2
  <2>6. ~PieceAhead(TailOf(f))'
    BY <1>5, <1>6, <2>1, <2>4, <2>5 DEF PieceAhead, TailOf
  <2>. QED
    BY <2>2, <2>3, <2>6 DEF FrameAhead, TailOf
<1>14. txq \in Seq(Frames) /\ rxq \in Seq(BusFrames) /\ QueuesOnce
  BY DEF TypeOK, Once
<1>15. FewerAhead
  <2>1. \A packet \in Elements(txq') \cup Elements(rxq') : PacketAhead(packet)
    <3>1. CASE UNCHANGED <<txq, rxq>> \/ (txq' = <<>> /\ rxq' = <<>>)
      BY <1>12, <3>1 DEF PacketAhead
    <3>2. CASE Head(chunk).part = "tail" /\ txq' = Append(txq, f) /\ rxq' = rxq
      <4>1. Elements(txq') = Elements(txq) \cup {f}
        BY <1>5, <1>14, <3>2, Appended
      <4>2. PacketAhead(f)
        BY <1>5, <1>13, <3>2 DEF PacketAhead
      <4>. QED
        BY <3>2, <4>1, <4>2 DEF PacketAhead
    <3>. QED
      BY <1>9, <3>1, <3>2
  <2>2. made <= made' /\ arrived <= arrived'
    BY <1>1 DEF TypeOK
  <2>. QED
    BY <1>2, <1>3, <1>11, <1>12, <2>1, <2>2, FewerIf
<1>16. QueuesOnce'
  <2>1. CASE UNCHANGED <<txq, rxq>>
    BY <1>1, <1>15, <2>1, OnceParts
  <2>2. CASE txq' = <<>> /\ rxq' = <<>>
    BY <2>2 DEF QueuesOnce, Distinct
  <2>3. CASE Head(chunk).part = "tail" /\ txq' = Append(txq, f) /\ rxq' = rxq
    <3>1. \A g \in Elements(txq) : g \in Frames /\ ~FrameAhead(g)
      BY <1>14 DEF QueuesOnce, Elements
    <3>2. f \notin Elements(txq)
      BY <1>13, <2>3, <3>1
    <3>3. Elements(txq') = Elements(txq) \cup {f} /\ Distinct(txq')
      BY <1>5, <1>14, <2>3, <3>2, Appended DEF QueuesOnce
    <3>4. \A g \in Elements(txq') : ~FrameAhead(g)'
      BY <1>13, <1>15, <2>3, <3>1, <3>3 DEF FewerAhead
    <3>5. \A k \in DOMAIN txq' : ~FrameAhead(txq[k])'
      BY <3>4 DEF Elements
    <3>. QED
      BY <1>1, <1>14, <2>3, <3>3, <3>5 DEF QueuesOnce
  <2>. QED
    BY <1>9, <2>1, <2>2, <2>3
<1>17. LoopsOnce' /\ \A x \in Posted' : x \in Posted \/ ~Ahead(x)'
  <2>1. \A x \in {Wrapped(f), Answer(f)} : x.what \in {"wrapped", "answer"} /\ x.frame = f
    BY DEF Wrapped, Answer
  <2>2. Head(chunk).part = "tail" => ~Ahead(Wrapped(f))' /\ ~Ahead(Answer(f))'
    <3>1. PICK g : g = f
      OBVIOUS
    <3>2. Head(chunk).part = "tail" => ~FrameAhead(g)'
      BY <1>13, <3>1
    <3>. QED
      BY <2>1, <3>1, <3>2 DEF Ahead, Wrapped, Answer
  <2>3. CASE todo' = <<>> /\ (UNCHANGED out \/ out' = [out EXCEPT ![s] = <<>>])
    BY <1>15, <2>3, WrittenShrinks, OnceParts
  <2>4. CASE /\ Head(chunk).part = "tail" /\ UNCHANGED out
             /\ todo' = <<Loop(Wrapped(f), from)>>
    <3>1. Written' = Written
      BY <2>4 DEF Written
    <3>2. \A k \in DOMAIN todo' : k = 1 /\ todo'[k].item = Wrapped(f)
      BY <2>4 DEF Loop
    <3>3. Posted' \subseteq Posted \cup {Wrapped(f)}
      BY <3>1, <3>2 DEF Posted
    <3>4. LoopsOnce'
      <4>1. Wrapped(f) \notin Written
        BY <1>13, <2>1, <2>4 DEF Once, Posted, Ahead
      <4>. QED
        BY <3>1, <3>2, <4>1 DEF LoopsOnce
    <3>. QED
      BY <2>2, <2>4, <3>3, <3>4
  <2>5. CASE /\ Head(chunk).part = "tail" /\ todo' = <<>>
             /\ out' = [out EXCEPT ![s] = Append(@, Answer(f))]
    <3>1. Answer(f) \in ItemSet
      BY <1>5, ItemTypes
    <3>2. Written' \subseteq Written \cup {Answer(f)}
      BY <2>5, <3>1, WrittenGrows
    <3>3. Posted' \subseteq Posted \cup {Answer(f)}
      BY <2>5, <3>2 DEF Posted
    <3>4. LoopsOnce'
      BY <2>5 DEF LoopsOnce
    <3>. QED
      BY <2>2, <2>5, <3>3, <3>4
  <2>. QED
    BY <1>10, <2>3, <2>4, <2>5
<1>. QED
  BY <1>15, <1>16, <1>17, OnceStays

\* So nothing is ever posted twice.
LEMMA OnceInvariant == Spec => []Once
<1>1. Init => Once
  BY DEF Init, Once, Posted, Written, Elements, QueuesOnce, Distinct, LoopsOnce
<1>2. RelayInductive /\ SilenceKept /\ Once /\ [Next]_vars => Once'
  <2> SUFFICES ASSUME RelayInductive, SilenceKept, Once, [Next]_vars
               PROVE  Once'
    OBVIOUS
  <2>1. TypeOK /\ TypeOK' /\ OriginKept
    BY TypeStep DEF RelayInductive
  <2>. QED
    BY <2>1, OnceConnections, OnceRead, OnceSent, OncePort, OnceReported, OnceWritten,
       OnceParsed DEF Next
<1>. QED
  BY <1>1, <1>2, RelayInvariant, SilenceInvariant, PTL DEF Spec

-----------------------------------------------------------------------------
(* The loops over Assocs are posts to everybody at once *)

HubStep == [HubView!HubNext]_(HubView!hubVars)

\* What the hub does, read off the streams of the clients.
LEMMA HubStays ==
  ASSUME UNCHANGED Assocs, \A s \in Sockets : StreamOf(s)' = StreamOf(s)
  PROVE  HubStep
  BY DEF HubStep, HubView!hubVars

LEMMA HubPosts ==
  ASSUME UNCHANGED Assocs, NEW readers \in SUBSET Sockets, NEW item,
         \A s \in Sockets : StreamOf(s) \in Seq(ItemSet), item \in ItemSet,
         \A s \in Sockets : item \notin Elements(StreamOf(s)),
         \A s \in Sockets : StreamOf(s)' =
                              IF s \in readers THEN Append(StreamOf(s), item) ELSE StreamOf(s)
  PROVE  HubView!Post(readers) \/ HubStep
<1> DEFINE View == [s \in Sockets |-> StreamOf(s)]
<1>1. CASE readers = {}
  BY <1>1, HubStays
<1>2. CASE readers # {}
  <2>1. PICK m \in readers : TRUE
    BY <1>2
  <2>2. View'[m] = Append(StreamOf(m), item)
    OBVIOUS
  <2>3. StreamOf(m) \in Seq(ItemSet)
    OBVIOUS
  <2>4. View'[m] # <<>> /\ View'[m][Len(View'[m])] = item
    BY <2>2, <2>3
  <2>5. View' = [s \in Sockets |-> IF s \in readers THEN Append(View[s], item) ELSE View[s]]
    OBVIOUS
  <2>6. \A s \in Sockets : ~HubView!Has(s, item)
    BY DEF HubView!Has, Elements
  <2>. QED
    BY <2>4, <2>5, <2>6 DEF HubView!Post
<1>. QED
  BY <1>1, <1>2

\* A client leaves, with what it got and what it was still to get.
LEMMA HubLeaves ==
  ASSUME NEW s \in Assocs, s \in Sockets, Assocs' = Assocs \ {s}, StreamOf(s)' = <<>>,
         \A r \in Sockets \ {s} : StreamOf(r)' = StreamOf(r)
  PROVE  HubStep
<1>1. HubView!Leave(s)
  BY DEF HubView!Leave
<1>. QED
  BY <1>1 DEF HubStep, HubView!HubNext

\* Streams are sequences of items, and those of the sockets that no loop is
\* about to reach are what was written.
LEMMA StreamTypes ==
  ASSUME ClientsTyped, HandlerTyped
  PROVE  /\ \A s \in Sockets : StreamOf(s) \in Seq(ItemSet)
         /\ (todo = <<>> \/ Above = {}) => \A s \in Sockets : StreamOf(s) = out[s]
         /\ Nobody \notin Sockets
<1>1. todo # <<>> => Head(todo).item \in ItemSet
  <2>1. todo # <<>> => Head(todo) \in LoopSet
    BY DEF HandlerTyped
  <2>. QED
    BY <2>1 DEF LoopSet
<1>2. \A s \in Sockets : out[s] \in Seq(ItemSet)
  BY DEF ClientsTyped
<1>3. (todo = <<>> \/ Above = {}) => \A s \in Sockets : StreamOf(s) = out[s]
  BY DEF StreamOf, Above
<1>. QED
  BY <1>1, <1>2, <1>3, SocketsAssumption DEF StreamOf, Nobody

\* A loop that begins is a post to everybody it does not skip.
LEMMA LoopBegins ==
  ASSUME ClientsTyped, HandlerTyped, HandlerTyped', LoopsOnce',
         todo = <<>> \/ Above = {}, todo' # <<>>, it' = Nobody, UNCHANGED <<Assocs, out>>
  PROVE  HubStep
<1> DEFINE skip == Head(todo').skip
           item == Head(todo').item
           readers == Assocs \ {skip}
<1>1. skip \in Sockets \cup {Nobody} /\ item \in ItemSet
  <2>1. Head(todo') \in LoopSet
    BY DEF HandlerTyped
  <2>. QED
    BY <2>1 DEF LoopSet
<1>2. \A s \in Sockets : s > Nobody
  BY SocketsAssumption DEF Nobody
<1>3. \A s \in Sockets : StreamOf(s) = out[s] /\ StreamOf(s) \in Seq(ItemSet)
  BY StreamTypes
<1>4. \A s \in Sockets : StreamOf(s)' =
        IF s \in readers THEN Append(StreamOf(s), item) ELSE StreamOf(s)
  BY <1>2, <1>3 DEF StreamOf
<1>f. \A s \in Sockets : item \notin Elements(StreamOf(s))
  <2>1. 1 \in DOMAIN todo' /\ Head(todo') = todo'[1]
    BY DEF HandlerTyped
  <2>2. item \notin Written'
    BY <2>1 DEF LoopsOnce
  <2>3. Written' = Written
    BY DEF Written
  <2>. QED
    BY <1>3, <2>2, <2>3 DEF Written
<1>5. readers \in SUBSET Sockets
  BY DEF ClientsTyped
<1>6. skip \in Sockets \/ readers = Assocs
  BY <1>1, StreamTypes DEF ClientsTyped
<1> HIDE DEF skip, item
<1>7. HubView!Post(readers) \/ HubStep
  BY <1>1, <1>3, <1>4, <1>5, <1>f, HubPosts
<1>. QED
  BY <1>6, <1>7 DEF HubStep, HubView!HubNext

\* An answer is a post to one client, if it is still there.
LEMMA AnswerPosts ==
  ASSUME ClientsTyped, HandlerTyped, todo = <<>>, NEW f \in Frames, SendToUI(f),
         Answer(f) \notin Written
  PROVE  HubStep
<1>1. \A s \in Sockets : /\ StreamOf(s) = out[s] /\ StreamOf(s) \in Seq(ItemSet)
                         /\ StreamOf(s)' = out'[s]
  BY StreamTypes DEF SendToUI, StreamOf
<1>2. Answer(f) \in ItemSet
  BY ItemTypes
<1>3. CASE from \in Assocs /\ out' = [out EXCEPT ![from] = Append(@, Answer(f))]
           /\ UNCHANGED <<Assocs, wire>>
  <2>1. from \in Sockets
    BY <1>3 DEF ClientsTyped
  <2>2. \A s \in Sockets : StreamOf(s)' =
          IF s \in {from} THEN Append(StreamOf(s), Answer(f)) ELSE StreamOf(s)
    BY <1>1, <1>3, <2>1 DEF ClientsTyped
  <2>3. HubView!Post({from}) \/ HubStep
    <3>1. \A s \in Sockets : Answer(f) \notin Elements(StreamOf(s))
      BY <1>1 DEF Written
    <3>. QED
      BY <1>1, <1>2, <1>3, <2>1, <2>2, <3>1, HubPosts
  <2>. QED
    BY <1>3, <2>3 DEF HubStep, HubView!HubNext
<1>4. CASE from \in Assocs /\ Assocs' = Assocs \ {from}
           /\ wire' = [wire EXCEPT ![from] = <<>>] /\ out' = [out EXCEPT ![from] = <<>>]
  <2>1. from \in Sockets
    BY <1>4 DEF ClientsTyped
  <2>2. out'[from] = <<>> /\ \A r \in Sockets \ {from} : out'[r] = out[r]
    BY <1>4, <2>1 DEF ClientsTyped
  <2>3. from \in Assocs /\ Assocs' = Assocs \ {from}
    BY <1>4
  <2>4. ASSUME NEW s \in Assocs, s = from PROVE HubStep
    <3>1. StreamOf(s)' = <<>> /\ \A r \in Sockets \ {s} : StreamOf(r)' = StreamOf(r)
      BY <1>1, <2>1, <2>2, <2>4
    <3>. QED
      BY <2>1, <2>3, <2>4, <3>1, HubLeaves
  <2>. QED
    BY <2>3, <2>4
<1>5. CASE UNCHANGED <<Assocs, wire, out>>
  BY <1>1, <1>5, HubStays
<1>. QED
  BY <1>3, <1>4, <1>5 DEF SendToUI

\* Every step of the server is a step of the hub.
LEMMA ServerStep ==
  ASSUME TypeOK, AtRest, Once, Once', [Next]_vars
  PROVE  HubStep
<1>1. ClientsTyped /\ HandlerTyped /\ ClientsTyped' /\ HandlerTyped' /\ LoopsOnce'
  BY TypeParts, TypePartsNext, TypeStep DEF Once
<1>2. todo = <<>> => it = Nobody
  BY DEF AtRest
<1>3. ASSUME NEW s \in Sockets, OnNewConnection(s) PROVE HubStep
  <2>1. todo = <<>> /\ todo' = <<>>
    BY <1>3 DEF OnNewConnection, Idle, Admit, handler
  <2>2. \A r \in Sockets : StreamOf(r) = out[r] /\ StreamOf(r)' = out'[r]
    BY <2>1 DEF StreamOf
  <2>3. HubView!Join(s)
    BY <1>1, <1>3, <2>2 DEF OnNewConnection, Admit, HubView!Join, ClientsTyped
  <2>. QED
    BY <2>3 DEF HubStep, HubView!HubNext
<1>4. ASSUME NEW s \in Sockets, Disconnected(s) PROVE HubStep
  <2>1. todo = <<>> /\ todo' = <<>>
    BY <1>4 DEF Disconnected, Idle, handler
  <2>2. \A r \in Sockets : StreamOf(r) = out[r] /\ StreamOf(r)' = out'[r]
    BY <2>1 DEF StreamOf
  <2>3. StreamOf(s)' = <<>> /\ \A r \in Sockets \ {s} : StreamOf(r)' = StreamOf(r)
    BY <1>1, <1>4, <2>2 DEF Disconnected, Forget, ClientsTyped
  <2>. QED
    BY <1>4, <2>3, HubLeaves DEF Disconnected, Forget
<1>5. ASSUME NEW s \in Sockets, ReadyRead(s) PROVE HubStep
  <2>1. todo = <<>> /\ todo' # <<>> /\ it' = it /\ UNCHANGED <<Assocs, out>>
    BY <1>5 DEF ReadyRead, Take, Idle
  <2>. QED
    BY <1>1, <1>2, <2>1, LoopBegins
<1>6. ASSUME OnEvents PROVE HubStep
  <2>1. PICK n \in 0 .. Len(rxq), m \in 0 .. Len(txq) :
          /\ n + m > 0
          /\ todo' = Loops(SubSeq(rxq, 1, n) \o SubSeq(txq, 1, m)) /\ it' = Nobody
    BY <1>6 DEF OnEvents
  <2>2. rxq \in Seq(BusFrames) /\ txq \in Seq(Frames)
    BY DEF TypeOK
  <2>3. SubSeq(rxq, 1, n) \in Seq(BusFrames) /\ SubSeq(txq, 1, m) \in Seq(Frames)
    BY <2>2, Ends
  <2>4. Len(SubSeq(rxq, 1, n)) = n /\ Len(SubSeq(txq, 1, m)) = m
    BY <2>2
  <2>5. /\ SubSeq(rxq, 1, n) \o SubSeq(txq, 1, m) \in Seq(Packets)
        /\ Len(SubSeq(rxq, 1, n) \o SubSeq(txq, 1, m)) = n + m
    BY <2>3, <2>4 DEF Packets
  <2>6. Len(todo') = 2 * (n + m)
    BY <2>1, <2>5, ReportLoops
  <2>7. todo' # <<>>
    BY <2>1, <2>2, <2>6
  <2>. QED
    BY <1>1, <1>6, <2>1, <2>7, LoopBegins DEF OnEvents, Idle
<1>7. ASSUME WriteNext PROVE HubStep
  <2>1. PICK s \in Assocs : IsLowest(s, Above) /\ Turn(s)
    BY <1>7 DEF WriteNext
  <2>2. /\ s \in Sockets /\ s \in Nat /\ it \in Nat /\ s > it /\ it' = s
        /\ todo # <<>> /\ todo' = todo
    <3>1. s \in Sockets /\ s \in Nat
      BY <1>1, <2>1, SocketsAssumption DEF ClientsTyped
    <3>2. it \in Nat
      BY <1>1, SocketsAssumption DEF HandlerTyped, Nobody
    <3>3. it' = s /\ todo # <<>> /\ todo' = todo
      BY <1>7, <2>1 DEF WriteNext, Turn
    <3>. QED
      BY <2>1, <3>1, <3>2, <3>3 DEF IsLowest, Above
  <2>3. \A r \in Assocs \ {s} : r > it <=> r > s
    <3>1. \A r \in Assocs : r \in Nat /\ (r > it => s <= r)
      BY <1>1, <2>1, SocketsAssumption DEF IsLowest, Above, ClientsTyped
    <3>2. \A r \in Nat : r # s => ((r > it => s <= r) => (r > it <=> r > s))
      BY <2>2
    <3>. QED
      BY <3>1, <3>2
  <2>4. ~(s > s)
    BY <2>2
  <2>5. CASE s = Head(todo).skip /\ UNCHANGED <<Assocs, out>>
    <3>1. \A r \in Sockets : StreamOf(r)' = StreamOf(r)
      BY <2>2, <2>3, <2>4, <2>5 DEF StreamOf
    <3>. QED
      BY <2>5, <3>1, HubStays
  <2>6. CASE s # Head(todo).skip /\ UNCHANGED Assocs
             /\ out' = [out EXCEPT ![s] = Append(@, Head(todo).item)]
    <3>1. out'[s] = Append(out[s], Head(todo).item) /\ \A r \in Sockets \ {s} : out'[r] = out[r]
      BY <1>1, <2>2, <2>6 DEF ClientsTyped
    <3>2. \A r \in Sockets : StreamOf(r)' = StreamOf(r)
      BY <2>2, <2>3, <2>4, <2>6, <3>1 DEF StreamOf
    <3>. QED
      BY <2>6, <3>2, HubStays
  <2>7. CASE Forget(s)
    <3>1. out'[s] = <<>> /\ (\A r \in Sockets \ {s} : out'[r] = out[r]) /\ Assocs' = Assocs \ {s}
      BY <1>1, <2>2, <2>7 DEF ClientsTyped, Forget
    <3>2. StreamOf(s)' = <<>>
      BY <2>4, <3>1 DEF StreamOf
    <3>3. \A r \in Sockets \ {s} : StreamOf(r)' = StreamOf(r)
      BY <2>2, <2>3, <3>1 DEF StreamOf
    <3>. QED
      BY <2>2, <3>1, <3>2, <3>3, HubLeaves
  <2>. QED
    BY <2>1, <2>5, <2>6, <2>7 DEF Turn
<1>8. ASSUME LoopEnds PROVE HubStep
  <2>1. Above = {} /\ todo' = Tail(todo) /\ it' = Nobody /\ UNCHANGED <<Assocs, out>>
    BY <1>8 DEF LoopEnds
  <2>2. CASE todo' = <<>>
    <3>1. \A r \in Sockets : StreamOf(r) = out[r] /\ StreamOf(r)' = out'[r]
      BY <1>1, <2>1, <2>2, StreamTypes DEF StreamOf
    <3>. QED
      BY <2>1, <3>1, HubStays
  <2>3. CASE todo' # <<>>
    BY <1>1, <2>1, <2>3, LoopBegins
  <2>. QED
    BY <2>2, <2>3
<1>9. ASSUME Parse PROVE HubStep
  <2> DEFINE f == Head(chunk).frame
  <2>1. /\ todo = <<>> /\ chunk # <<>> /\ it' = it
        /\ \/ NoAnswer /\ PortUntouched
           \/ Head(chunk).part = "tail" /\ (DataPacket(f) \/ ControlPacket(f))
    BY <1>9 DEF Parse
  <2>2. Head(chunk) \in Pieces
    BY <1>1, <2>1 DEF HandlerTyped
  <2>3. f \in Frames
    BY <2>2 DEF Pieces
  <2> HIDE DEF f
  <2>4. CASE DataPacket(f)
    <3>1. todo' # <<>> /\ UNCHANGED <<Assocs, out>>
      BY <2>4 DEF DataPacket
    <3>. QED
      BY <1>1, <1>2, <2>1, <3>1, LoopBegins
  <2>5. CASE Head(chunk).part = "tail" /\ SendToUI(f)
    <3>1. FrameAhead(f)
      <4>1. Head(chunk) = TailOf(f)
        BY <2>2, <2>5 DEF f, Pieces, TailOf
      <4>2. Head(chunk) = chunk[1] /\ 1 \in DOMAIN chunk
        BY <1>1, <2>1 DEF HandlerTyped
      <4>. QED
        BY <4>1, <4>2 DEF FrameAhead, Elements
    <3>2. Answer(f) \notin Written
      BY <3>1 DEF Once, Posted, Ahead, Answer
    <3>. QED
      BY <1>1, <2>1, <2>3, <2>5, <3>2, AnswerPosts
  <2>6. CASE NoAnswer
    BY <2>1, <2>6, HubStays DEF NoAnswer, StreamOf
  <2>. QED
    BY <2>1, <2>3, <2>4, <2>5, <2>6, ControlPacketEffects
<1>10. ASSUME UNCHANGED <<Assocs, out, todo, it>> PROVE HubStep
  BY <1>10, HubStays DEF StreamOf
<1>11. PortOpens \/ FrameArrives \/ UNCHANGED vars => UNCHANGED <<Assocs, out, todo, it>>
  BY DEF PortOpens, FrameArrives, vars, handler
<1>12. ASSUME NEW s \in Sockets, NEW kind \in Kinds, ClientSends(s, kind)
       PROVE  UNCHANGED <<Assocs, out, todo, it>>
  BY <1>12 DEF ClientSends, handler
<1>. QED
  BY <1>3, <1>4, <1>5, <1>6, <1>7, <1>8, <1>9, <1>10, <1>11, <1>12 DEF Next

\* The server starts as the hub does.
LEMMA ServerInit == Init => HubView!HubInit
  BY DEF Init, HubView!HubInit, StreamOf

\* The server implements the hub: although every loop writes to one socket at a
\* time, and entries of Assocs go away under it, what is written is as if it had
\* been posted at one moment, and never before, to everybody it is meant for.
THEOREM ServerImplementsHub == Spec => IsHub
<1>1. RelayInductive => TypeOK /\ AtRest
  BY DEF RelayInductive
<1>2. RelayInductive /\ Once /\ Once' /\ [Next]_vars => [HubView!HubNext]_(HubView!hubVars)
  BY <1>1, ServerStep DEF HubStep
<1>. QED
  BY <1>2, ServerInit, RelayInvariant, OnceInvariant, PTL DEF Spec, IsHub, HubView!HubSpec

-----------------------------------------------------------------------------
(* What clients see is in the same order *)

\* Two streams that have the items they share in the same order, once each.
Agree(a, b) ==
  \A i, j \in DOMAIN a, k, l \in DOMAIN b : a[i] = b[k] /\ a[j] = b[l] /\ i < j => k < l

\* They go on agreeing when something new is added to either or to both.
LEMMA AgreeGrows ==
  ASSUME NEW a \in Seq(ItemSet), NEW b \in Seq(ItemSet), NEW x \in ItemSet,
         x \notin Elements(a), x \notin Elements(b), Agree(a, b)
  PROVE  /\ Agree(Append(a, x), Append(b, x))
         /\ Agree(a, Append(b, x)) /\ Agree(Append(a, x), b)
<1> SUFFICES ASSUME NEW c \in {a, Append(a, x)}, NEW d \in {b, Append(b, x)}
             PROVE  Agree(c, d)
  OBVIOUS
<1>1. /\ Len(a) \in Nat /\ DOMAIN a = 1 .. Len(a) /\ DOMAIN c \subseteq 1 .. Len(a) + 1
      /\ \A i \in DOMAIN c :
           (i \in DOMAIN a /\ c[i] = a[i]) \/ (i = Len(a) + 1 /\ c[i] = x)
  <2>1. CASE c = a
    BY <2>1
  <2>2. CASE c = Append(a, x)
    BY <2>2
  <2>. QED
    BY <2>1, <2>2
<1>2. /\ Len(b) \in Nat /\ DOMAIN b = 1 .. Len(b) /\ DOMAIN d \subseteq 1 .. Len(b) + 1
      /\ \A k \in DOMAIN d :
           (k \in DOMAIN b /\ d[k] = b[k]) \/ (k = Len(b) + 1 /\ d[k] = x)
  <2>1. CASE d = b
    BY <2>1
  <2>2. CASE d = Append(b, x)
    BY <2>2
  <2>. QED
    BY <2>1, <2>2
<1>3. (\A i \in DOMAIN a : a[i] # x) /\ (\A k \in DOMAIN b : b[k] # x)
  BY DEF Elements
<1>4. ASSUME NEW i \in DOMAIN c, NEW j \in DOMAIN c, NEW k \in DOMAIN d, NEW l \in DOMAIN d,
             c[i] = d[k], c[j] = d[l], i < j
      PROVE  k < l
  <2>1. i \in DOMAIN a /\ c[i] = a[i]
    <3>1. i # Len(a) + 1
      BY <1>1, <1>4
    <3>. QED
      BY <1>1, <3>1
  <2>2. k \in DOMAIN b /\ d[k] = b[k]
    BY <1>2, <1>3, <1>4, <2>1
  <2>3. CASE j \in DOMAIN a /\ c[j] = a[j]
    <3>1. l \in DOMAIN b /\ d[l] = b[l]
      BY <1>2, <1>3, <1>4, <2>3
    <3>. QED
      BY <1>4, <2>1, <2>2, <2>3, <3>1 DEF Agree
  <2>4. CASE c[j] = x
    <3>1. l = Len(b) + 1
      BY <1>2, <1>3, <1>4, <2>4
    <3>. QED
      BY <1>2, <2>2, <3>1
  <2>. QED
    BY <1>1, <2>3, <2>4
<1>. QED
  BY <1>4 DEF Agree

\* The hub never makes its members disagree.
LEMMA HubOrder ==
  ASSUME ClientsTyped, HandlerTyped, ClientsTyped', HandlerTyped',
         HubView!SameOrder, HubStep
  PROVE  HubView!SameOrder'
<1> DEFINE View == [s \in Sockets |-> StreamOf(s)]
<1>1. /\ \A s \in Sockets : View[s] \in Seq(ItemSet) /\ View'[s] \in Seq(ItemSet)
      /\ Assocs \subseteq Sockets /\ Assocs' \subseteq Sockets
  <2>1. \A s \in Sockets : StreamOf(s) \in Seq(ItemSet)
    BY StreamTypes
  <2>2. todo' # <<>> => Head(todo').item \in ItemSet
    <3>1. todo' # <<>> => Head(todo') \in LoopSet
      BY DEF HandlerTyped
    <3>. QED
      BY <3>1 DEF LoopSet
  <2>3. \A s \in Sockets : out'[s] \in Seq(ItemSet)
    BY DEF ClientsTyped
  <2>4. \A s \in Sockets : StreamOf(s)' \in Seq(ItemSet)
    BY <2>2, <2>3 DEF StreamOf
  <2>. QED
    BY <2>1, <2>4 DEF ClientsTyped
<1>2. HubView!SameOrder <=> \A m, n \in Assocs : Agree(View[m], View[n])
  BY DEF HubView!SameOrder, Agree
<1>3. HubView!SameOrder' <=> \A m, n \in Assocs' : Agree(View'[m], View'[n])
  BY DEF HubView!SameOrder, Agree
<1>4. ASSUME NEW readers \in SUBSET Sockets, HubView!Post(readers)
      PROVE  HubView!SameOrder'
  <2>1. PICK x \in {View'[m][Len(View'[m])] : m \in {r \in readers : View'[r] # <<>>}} :
          /\ \A m \in Sockets : ~HubView!Has(m, x)
          /\ View' = [m \in Sockets |->
                        IF m \in readers THEN Append(View[m], x) ELSE View[m]]
    BY <1>4 DEF HubView!Post
  <2>2. UNCHANGED Assocs
    BY <1>4 DEF HubView!Post
  <2>3. \A m \in Sockets : x \notin Elements(View[m])
    BY <2>1 DEF HubView!Has, Elements
  <2>4. \A m \in Sockets : View'[m] \in {View[m], Append(View[m], x)}
    BY <2>1
  <2>5. x \in ItemSet
    <3>1. PICK t \in readers : View'[t] # <<>> /\ x = View'[t][Len(View'[t])]
      BY <2>1
    <3>2. t \in Sockets
      BY <3>1
    <3>. QED
      BY <1>1, <3>1, <3>2
  <2>6. \A m, n \in Assocs : Agree(View'[m], View'[n])
    <3> SUFFICES ASSUME NEW m \in Assocs, NEW n \in Assocs
                 PROVE  Agree(View'[m], View'[n])
      OBVIOUS
    <3>1. m \in Sockets /\ n \in Sockets /\ Agree(View[m], View[n])
      BY <1>1, <1>2
    <3>2. PICK a, b \in Seq(ItemSet) : a = View[m] /\ b = View[n]
      BY <1>1, <3>1
    <3>3. PICK c, d : c = View'[m] /\ d = View'[n]
      OBVIOUS
    <3>4. /\ x \notin Elements(a) /\ x \notin Elements(b) /\ Agree(a, b)
          /\ c \in {a, Append(a, x)} /\ d \in {b, Append(b, x)}
      BY <2>3, <2>4, <3>1, <3>2, <3>3
    <3>5. PICK y \in ItemSet : y = x
      BY <2>5
    <3>6. /\ Agree(Append(a, y), Append(b, y))
          /\ Agree(a, Append(b, y)) /\ Agree(Append(a, y), b)
      <4>1. y \notin Elements(a) /\ y \notin Elements(b) /\ Agree(a, b)
        BY <3>4, <3>5
      <4>. QED
        BY <4>1, AgreeGrows, Zenon
    <3>7. Agree(c, d)
      BY <3>4, <3>5, <3>6, Zenon
    <3>. QED
      BY <3>3, <3>7
  <2>. QED
    BY <1>3, <2>2, <2>6
<1>5. ASSUME NEW s, HubView!Join(s) \/ HubView!Leave(s) PROVE HubView!SameOrder'
  <2>1. View' = [View EXCEPT ![s] = <<>>] /\ Assocs' \subseteq Assocs \cup {s}
    BY <1>5 DEF HubView!Join, HubView!Leave
  <2>2. \A m \in Sockets : View'[m] = IF m = s THEN <<>> ELSE View[m]
    BY <2>1
  <2>3. \A a : Agree(<<>>, a) /\ Agree(a, <<>>)
    BY DEF Agree
  <2>. QED
    BY <1>1, <1>2, <1>3, <2>1, <2>2, <2>3
<1>6. CASE UNCHANGED HubView!hubVars
  BY <1>6 DEF HubView!hubVars, HubView!SameOrder
<1>. QED
  BY <1>1, <1>4, <1>5, <1>6 DEF HubStep, HubView!HubNext

\* What is written to two clients that are connected has what they share in the
\* same order, whoever sent it and whatever connections ended on the way; and
\* nothing is written to a client twice.
ClientsAgree == \A r, s \in Assocs : Agree(out[r], out[s])
THEOREM ClientsSeeSameOrder == Spec => []ClientsAgree
<1>1. Init => HubView!SameOrder
  BY DEF Init, HubView!SameOrder
<1>2. /\ RelayInductive /\ Once /\ Once' /\ [Next]_vars => HubStep
      /\ RelayInductive /\ [Next]_vars =>
           ClientsTyped /\ HandlerTyped /\ ClientsTyped' /\ HandlerTyped'
  BY ServerStep, TypeStep, TypeParts, TypePartsNext DEF RelayInductive
<1>3. RelayInductive /\ Once /\ Once' /\ HubView!SameOrder /\ [Next]_vars => HubView!SameOrder'
  BY <1>2, HubOrder
<1>4. RelayInductive /\ HubView!SameOrder => ClientsAgree
  <2> SUFFICES ASSUME RelayInductive, HubView!SameOrder, NEW r \in Assocs, NEW s \in Assocs
               PROVE  Agree(out[r], out[s])
    BY DEF ClientsAgree
  <2>1. ClientsTyped
    BY TypeParts DEF RelayInductive
  <2>2. Agree(StreamOf(r), StreamOf(s))
    BY <2>1 DEF HubView!SameOrder, Agree, ClientsTyped
  \* What was written is a prefix of the stream.
  <2>3. \A t \in Sockets : \A k \in DOMAIN out[t] :
          k \in DOMAIN StreamOf(t) /\ StreamOf(t)[k] = out[t][k]
    BY <2>1 DEF StreamOf, ClientsTyped
  <2>4. r \in Sockets /\ s \in Sockets
    BY <2>1 DEF ClientsTyped
  <2>. QED
    BY <2>2, <2>3, <2>4 DEF Agree
<1>. QED
  BY <1>1, <1>3, <1>4, RelayInvariant, OnceInvariant, PTL DEF Spec

=============================================================================
