----------------------------- MODULE MCUdpServer -----------------------------
(***************************************************************************)
(* The receiver alone, fed any datagram in any order: two names, one of    *)
(* them in a directory, a file of one block on a device with room for two  *)
(* blocks per file and for two inodes.                                     *)
(***************************************************************************)
EXTENDS UdpServer, TLC

CONSTANTS n1, n2, x, t, i1, i2

MCName == {n1, n2}
MCNested == {n2}
MCChunk == {x, t}
MCContent == {<<x>>}
MCInode == {i1, i2}
Symmetry == Permutations(MCInode)
=============================================================================
