----------------------------- MODULE MCPackets -----------------------------
(* Headers and sizes for TLC: identifiers with every group of bits set. *)
EXTENDS Packets
MCHeaders ==
  [id0 : {0, 53}, src : {7, 250}, dst : {0, 193}, id3 : {0, 6, 13, 31, 32, 64, 155}]
=============================================================================
