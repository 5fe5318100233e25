-------------------------- MODULE MCTcpFileTransfer --------------------------
(***************************************************************************)
(* Four senders: two of one name, of three blocks and of one, so that a    *)
(* longer .filepart can be left over; one whose file is absent, and one    *)
(* that has it.  And a single sender of an empty file.                     *)
(***************************************************************************)
EXTENDS TcpFileTransfer, TLC

CONSTANTS p1, p2, p3, p4, x, y

Sent(name, bytes) == [name |-> name, bytes |-> bytes]
WithAbsent == (p1 :> Sent("a", {<<x, y, x>>})) @@ (p2 :> Sent("a", {<<y>>})) @@ (p3 :> Sent("b", {}))
                @@ (p4 :> Sent("b", {<<x, x>>}))
WithEmpty == (p1 :> Sent("a", {<<>>}))
=============================================================================
