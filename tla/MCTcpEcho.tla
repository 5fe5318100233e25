------------------------------ MODULE MCTcpEcho ------------------------------
(* Three connections, of which two can be open at a time.                  *)
EXTENDS TcpEcho

CONSTANTS c1, c2, c3

MCClients == {c1, c2, c3}
MCPairOfClients == {c1, c2}
=============================================================================
