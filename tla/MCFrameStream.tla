--------------------------- MODULE MCFrameStream ---------------------------
(***************************************************************************)
(* FrameStream with four byte values, '#' = 2, '!' = 3, CR = 0, LF = 1,    *)
(* and a length field of three bits: lengths from 4 on need the high byte, *)
(* and the upper bit of that byte is the type.                             *)
(***************************************************************************)
EXTENDS FrameStream

\* Empty, any single byte, made of prefixes or stop bytes or both, of a length
\* that needs both bytes, the longest that fits, and one too long.
SmallPayloads ==
  {<<>>} \cup [1 .. 1 -> Byte] \cup [1 .. 2 -> {0, 2}]
  \cup {<<2, 0, 1>>, <<1, 3, 0>>, <<2, 0, 0, 1>>, <<1, 3, 0, 2, 1>>,
        <<3, 0, 1, 1, 2, 0, 2>>, <<2, 2, 2, 2, 2, 2, 2, 2>>}

\* The more frames, the fewer bytes out of place: five of them make a packet of
\* their own, and with a frame three are enough to take its first bytes along.
FewStray == 2 * Len(sent) + stray <= MaxStray

FewStraySpec == Init /\ [][Next /\ FewStray']_vars /\ WF_vars(Receive)
=============================================================================
