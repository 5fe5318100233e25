-------------------------- MODULE MCUdpFileTransfer --------------------------
(***************************************************************************)
(* Instances of the whole UDP file transfer: files of two blocks and of    *)
(* one, and for the run with faults one that is not there.                 *)
(***************************************************************************)
EXTENDS UdpFileTransfer

CONSTANTS na, nb, nc, p1, p2, xa, xb, i1, i2, i3, i4

MCInode == {i1, i2, i3, i4}
Contents == {<<xa>>, <<xa, xb>>}
TwoFiles == (na :> {<<xa, xb>>}) @@ (nb :> {<<xa>>})
OneAbsent == TwoFiles @@ (nc :> {})

Symmetry == Permutations(Process) \cup Permutations(MCInode)
=============================================================================
