------------------------------ MODULE UdpClient ------------------------------
(***************************************************************************)
(* The sender of the UDP file transfer (udp-client.c): a process that      *)
(* sends one file with sendfile() and ends.  It announces the file, sends  *)
(* it block by block, each block after an answer, and sends FINISH.        *)
(* udprev() waits at most one second for an answer.                        *)
(*                                                                         *)
(* Each process is one run of the program with a socket of its own; what   *)
(* arrives after it ended is dropped.  The two channels are the datagrams  *)
(* on their way, in sending order.                                         *)
(***************************************************************************)
EXTENDS NetFile

CONSTANTS Process,   \* runs of the sender
          Local      \* what each file holds at the sender, {} if it is not there

ASSUME LocalAssumption ==
  /\ Local \in [Name -> SUBSET Content]
  /\ \A n \in Name : \A c, d \in Local[n] : c = d

VARIABLES sender,    \* where each process is in sendfile, and its buffers
          toServer,  \* datagrams on their way to the receiver, with their source
          toClient   \* answers on their way to each process

cliVars == <<sender, toServer, toClient>>

\* The contents of a file that is there
BytesOf(n) == CHOOSE c \in Content : c \in Local[n]
\* open() and the first read() of the file find data
Readable(n) == Local[n] \notin {{}, {<<>>}}

\* pc is the udprev() the process waits in; recvbuf is the buffer of the second one,
\* the only one that is not cleared before it is used; acks counts the
\* answers to blocks that have arrived, which the program does not do
Sender == [pc : {"idle", "waitReq", "waitFile", "waitFinish", "ended"},
           name : Name \cup {NoName}, block : Nat, recvbuf : MsgHead,
           acks : Nat,
           said : {"nothing", "ok", "fail", "refused", "nospace", "noread"}]

IdleSender == [pc |-> "idle", name |-> NoName, block |-> 0, recvbuf |-> ZeroHead,
               acks |-> 0, said |-> "nothing"]

CliInit ==
  /\ sender = [p \in Process |-> IdleSender]
  /\ toServer = <<>>
  /\ toClient = [p \in Process |-> <<>>]

-----------------------------------------------------------------------------
\* MD5_file and get_file_mtime fail unnoticed on a file that is not there
Describe(n) ==
  IF Local[n] = {} THEN {[name |-> n, md5 |-> ZeroMd5, timestamp |-> NoStamp]}
                   ELSE {[name |-> n, md5 |-> BytesOf(n), timestamp |-> s] : s \in Stamp}

Packet(p, m) == [src |-> p, msg |-> m]
DataMsg(n, k) == [cmd |-> CMD_SEND_FILE, type |-> REQ_NORE, chunk |-> BytesOf(n)[k]]
FinishMsg == [cmd |-> CMD_SEND_FINISH, type |-> REQ_NOR]

udpsend(p, msgs) == toServer' = toServer \o [k \in 1..Len(msgs) |-> Packet(p, msgs[k])]

\* The process ends: its socket is closed
Ends(p, said) ==
  /\ sender' = [sender EXCEPT ![p].pc = "ended", ![p].said = said]
  /\ toClient' = [toClient EXCEPT ![p] = <<>>]

\* sendfile up to the first udprev
Announce(p, n) ==
  /\ sender[p].pc = "idle"
  /\ \E b \in Describe(n) :
       udpsend(p, <<[cmd |-> CMD_SEND_FILEMSG_REQ, type |-> REQ_NOR, block |-> b]>>)
  /\ sender' = [sender EXCEPT ![p].pc = "waitReq", ![p].name = n]
  /\ UNCHANGED toClient

\* After the first udprev; head is ZeroHead when it timed out
AfterReq(p, head, rest) ==
  LET n == sender[p].name
      accepted == head = [cmd |-> CMD_SEND_FILEMSG_REQ, type |-> ACK_OK]
  IN /\ sender[p].pc = "waitReq"
     /\ \/ ~accepted /\ Ends(p, "refused") /\ UNCHANGED toServer
        \/ /\ accepted /\ ~Readable(n)
           /\ Ends(p, "noread") /\ UNCHANGED toServer
        \/ /\ accepted /\ Readable(n)
           /\ sender' = [sender EXCEPT ![p].pc = "waitFile", ![p].block = 1]
           /\ udpsend(p, <<DataMsg(n, 1)>>)
           /\ toClient' = [toClient EXCEPT ![p] = rest]

\* After the second udprev, in the loop: head is what recvbuf holds then
AfterFile(p, head, rest, got) ==
  LET s == sender[p]
      n == s.name
      acked == head = [cmd |-> CMD_SEND_FILE, type |-> ACK_OK]
      more == s.block < Len(BytesOf(n))
      heard == [s EXCEPT !.recvbuf = head, !.acks = @ + got]
  IN /\ s.pc = "waitFile"
     /\ \/ /\ ~acked /\ head.type = ACK_NOSP
           /\ Ends(p, "nospace") /\ UNCHANGED toServer
        \/ /\ toClient' = [toClient EXCEPT ![p] = rest]
           /\ \/ /\ acked /\ more
                 /\ sender' = [sender EXCEPT ![p] = [heard EXCEPT !.block = @ + 1]]
                 /\ udpsend(p, <<DataMsg(n, s.block + 1)>>)
              \/ /\ acked /\ ~more
                 /\ sender' = [sender EXCEPT ![p] = [heard EXCEPT !.pc = "waitFinish"]]
                 /\ udpsend(p, <<FinishMsg>>)
              \/ /\ ~acked /\ head.type # ACK_NOSP   \* resent here and at the loop head
                 /\ sender' = [sender EXCEPT ![p] = heard]
                 /\ udpsend(p, <<DataMsg(n, s.block), DataMsg(n, s.block)>>)

\* After the last udprev; head is ZeroHead when it timed out
AfterFinish(p, head) ==
  /\ sender[p].pc = "waitFinish"
  /\ Ends(p, IF head = [cmd |-> CMD_SEND_FINISH, type |-> ACK_OK] THEN "ok" ELSE "fail")
  /\ UNCHANGED toServer

Waiting(p) == sender[p].pc \in {"waitReq", "waitFile", "waitFinish"}

\* udprev returns an answer
Receive(p) ==
  /\ Waiting(p) /\ toClient[p] # <<>>
  /\ LET head == Head(toClient[p])
         rest == Tail(toClient[p])
         got == IF head = [cmd |-> CMD_SEND_FILE, type |-> ACK_OK] THEN 1 ELSE 0
     IN \/ AfterReq(p, head, rest)
        \/ AfterFile(p, head, rest, got)
        \/ AfterFinish(p, head)

\* Mutant of TimeOut: no SO_RCVTIMEO on the socket
TimeOutNever(p) == FALSE

\* udprev times out: sendbuf was cleared before, recvbuf was not
TimeOut(p) ==
  /\ Waiting(p)
  /\ \/ AfterReq(p, ZeroHead, toClient[p])
     \/ AfterFile(p, sender[p].recvbuf, toClient[p], 0)
     \/ AfterFinish(p, ZeroHead)
=============================================================================
