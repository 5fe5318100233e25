------------------------ MODULE UdpFileTransferProofs ------------------------
(***************************************************************************)
(* Proofs about senders and receiver of the UDP file transfer together,    *)
(* for every number of senders, files and faults.                          *)
(***************************************************************************)
EXTENDS UdpFileTransfer, UdpServerProofs

-----------------------------------------------------------------------------
(* What holds whatever goes wrong.                                         *)

\* A request describes a file as the senders have it
Described(b) == b.md5 = IF Local[b.name] = {} THEN ZeroMd5 ELSE BytesOf(b.name)

Requests == [cmd : {CMD_SEND_FILEMSG_REQ}, type : {REQ_NOR}, block : {b \in FileBlock_t : Described(b)}]
Blocks == [cmd : {CMD_SEND_FILE}, type : {REQ_NORE}, chunk : Chunk]
Sent == Requests \cup Blocks \cup {FinishMsg}
Pkt == [src : Process, msg : Sent]

\* Every variable of the senders and the network stays in its type
NetTypeOK ==
  /\ sender \in [Process -> Sender]
  /\ toServer \in Seq(Pkt)
  /\ toClient \in [Process -> Seq(MsgHead)]
  /\ budget \in Nat /\ happened \subseteq Faults /\ stored \subseteq Name

\* A process has a file once it was started and sends blocks of a file that can be read
SenderOK(p) ==
  /\ sender[p].pc = "idle" => sender[p].said = "nothing"
  /\ sender[p].pc # "idle" => sender[p].name \in Name
  /\ sender[p].pc \in {"waitFile", "waitFinish"} =>
       Readable(sender[p].name) /\ sender[p].block \in 1..Len(BytesOf(sender[p].name))

\* What is on its way was sent by a process that was started; a request names its file,
\* and what follows it is sent for a file that can be read
PktOK(d) ==
  /\ sender[d.src].pc # "idle"
  /\ IsReq(d.msg) => d.msg.block.name = sender[d.src].name
  /\ ~IsReq(d.msg) => Readable(sender[d.src].name)

TransferInv ==
  /\ SrvInv /\ NetTypeOK
  /\ Filemsg.name # NoName => Described(Filemsg)
  /\ \A p \in Process : SenderOK(p) /\ (~Running(p) => toClient[p] = <<>>)
  /\ \A k \in 1..Len(toServer) : PktOK(toServer[k])

-----------------------------------------------------------------------------
(* What holds while the network keeps the order of datagrams, copies none, *)
(* and one sender runs at a time.                                          *)

Orderly == happened \cap {"duplicate", "reorder", "overlap"} = {}

\* The queue holds blocks, at most one FINISH after them, and then requests
QueueShape ==
  \A i, j \in 1..Len(toServer) : i < j /\ ~IsData(toServer[i].msg) => IsReq(toServer[j].msg)

\* The receiver has answered p's request, and p has not sent anything since
Answered(p) == sender[p].pc = "waitReq" /\ toClient[p] # <<>>

\* Where p is in sendfile tells what is on its way: its request is the last datagram;
\* the receiver answers it when everything else has been received
PhaseOK(p) ==
  /\ sender[p].pc = "waitReq" =>
       \A k \in 1..Len(toServer) : toServer[k].src = p => k = Len(toServer) /\ IsReq(toServer[k].msg)
  /\ Answered(p) => toServer = <<>>
  /\ sender[p].pc = "waitFile" => \A k \in 1..Len(toServer) : IsData(toServer[k].msg)
  /\ sender[p].pc = "waitFinish" => \A k \in 1..Len(toServer) : ~IsReq(toServer[k].msg)

\* The receiver is at p's file, or has forgotten it in a restart
Current(p) ==
  \/ Filemsg.name = sender[p].name
  \/ "restart" \in happened /\ file_path = <<>>

\* While blocks are to come, no FINISH is being dealt with, and an open file is the one of
\* the upload in progress
BlocksToCome ==
  \/ \E k \in 1..Len(toServer) : IsData(toServer[k].msg)
  \/ \E p \in Process : sender[p].pc = "waitFile" \/ Answered(p)

OneRuns == \A p, q \in Process : Running(p) /\ Running(q) => p = q
SendersCurrent ==
  \A p \in Process : sender[p].pc \in {"waitFile", "waitFinish"} \/ Answered(p) => Current(p)
QueueCurrent == \A k \in 1..Len(toServer) : ~IsReq(toServer[k].msg) => Current(toServer[k].src)
OpenIsUpload == BlocksToCome => finishing = "no" /\ (fd.kind = "file" => file_path # <<>>)

OrderInv ==
  /\ OneRuns /\ QueueShape /\ \A p \in Process : PhaseOK(p)
  /\ SendersCurrent /\ QueueCurrent /\ OpenIsUpload

\* What is about to be published is a file that its sender could read
FinishCurrent ==
  finishing = "mv" /\ file_path # <<>> => Filemsg.name \in Name /\ Readable(Filemsg.name)

\* What is published is what the senders have
Intact == \A n \in Name : final[n] # NoInode => inode[final[n]].bytes \in Local[n]

\* A positive answer to FINISH on its way is true
Safe(n) == n \in stored \/ AboutToStore(n)
AnswerTrue(p) ==
  /\ sender[p].said = "ok" => Safe(sender[p].name)
  /\ \A k \in 1..Len(toClient[p]) :
       toClient[p][k] = [cmd |-> CMD_SEND_FINISH, type |-> ACK_OK] => Safe(sender[p].name)

OrderlyInv == Orderly => OrderInv /\ FinishCurrent /\ Intact
StoredInv == Orderly /\ happened \cap {"mv", "restart"} = {} => \A p \in Process : AnswerTrue(p)

-----------------------------------------------------------------------------
(* Queues and files.                                                       *)

\* Taking a datagram out of a queue closes the gap.
LEMMA RemoveLemma ==
  ASSUME NEW S, NEW s \in Seq(S), NEW k \in 1..Len(s)
  PROVE  /\ RemoveAt(s, k) \in Seq(S)
         /\ Len(RemoveAt(s, k)) = Len(s) - 1
         /\ \A i \in 1..(Len(s) - 1) : RemoveAt(s, k)[i] = IF i < k THEN s[i] ELSE s[i + 1]
<1>. DEFINE a == SubSeq(s, 1, k - 1)
            b == SubSeq(s, k + 1, Len(s))
<1>1. /\ a \in Seq(S) /\ Len(a) = k - 1 /\ \A i \in 1..(k - 1) : a[i] = s[i]
  BY SubSeqProperties
<1>2. /\ b \in Seq(S) /\ Len(b) = Len(s) - k /\ \A i \in 1..(Len(s) - k) : b[i] = s[k + i]
  BY SubSeqProperties
<1>3. RemoveAt(s, k) = a \o b
  BY DEF RemoveAt
<1>. HIDE DEF a, b
<1>4. /\ a \o b \in Seq(S) /\ Len(a \o b) = Len(a) + Len(b)
      /\ \A i \in 1..(Len(a) + Len(b)) : (a \o b)[i] = IF i <= Len(a) THEN a[i] ELSE b[i - Len(a)]
  BY <1>1, <1>2, ConcatProperties
<1>5. Len(a) + Len(b) = Len(s) - 1 /\ \A i \in Int : i <= Len(a) <=> i < k
  BY <1>1, <1>2
<1>6. ASSUME NEW i \in 1..(Len(s) - 1) PROVE (a \o b)[i] = IF i < k THEN s[i] ELSE s[i + 1]
  <2>0. (a \o b)[i] = IF i < k THEN a[i] ELSE b[i - (k - 1)]
    BY <1>1, <1>4, <1>5
  <2>1. CASE i < k
    BY <1>1, <2>0, <2>1
  <2>2. CASE ~(i < k)
    <3>1. i - (k - 1) \in 1..(Len(s) - k) /\ k + (i - (k - 1)) = i + 1
      BY <2>2
    <3>. QED BY <1>2, <2>0, <2>2, <3>1
  <2>. QED BY <2>1, <2>2
<1>. QED BY <1>3, <1>4, <1>5, <1>6

\* t is s without some of its datagrams, in the same order
Thins(t, s) ==
  /\ Len(t) <= Len(s)
  /\ \A i \in 1..Len(t) : \E a \in 1..Len(s) : t[i] = s[a]
  /\ \A i, j \in 1..Len(t) : i < j => \E a, b \in 1..Len(s) : a < b /\ t[i] = s[a] /\ t[j] = s[b]
  /\ \A i \in 1..Len(t) : i < Len(t) => \E a \in 1..Len(s) : a < Len(s) /\ t[i] = s[a]

\* What is left of a queue was there before, in the same order.
LEMMA RemoveThins ==
  ASSUME NEW S, NEW s \in Seq(S), NEW k \in 1..Len(s), NEW t, t = RemoveAt(s, k)
  PROVE  t \in Seq(S) /\ Thins(t, s)
<1>. DEFINE h(i) == IF i < k THEN i ELSE i + 1
<1>0. Len(s) \in Nat
  OBVIOUS
<1>1. t \in Seq(S) /\ Len(t) = Len(s) - 1 /\ \A i \in 1..Len(t) : t[i] = s[h(i)]
  BY RemoveLemma
<1>2. \A i \in 1..Len(t) : h(i) \in 1..Len(s) /\ (i < Len(t) => h(i) < Len(s))
  BY <1>0, <1>1
<1>3. \A i, j \in 1..Len(t) : i < j => h(i) < h(j)
  BY <1>1
<1>4. Len(t) <= Len(s)
  BY <1>0, <1>1
<1>. HIDE DEF h
<1>. QED BY <1>1, <1>2, <1>3, <1>4 DEF Thins

\* What has not arrived before a restart is the end of the queue.
LEMMA SuffixThins ==
  ASSUME NEW S, NEW s \in Seq(S), NEW k \in 0..Len(s), NEW t, t = SubSeq(s, k + 1, Len(s))
  PROVE  t \in Seq(S) /\ Thins(t, s)
<1>. DEFINE h(i) == k + i
<1>0. Len(s) \in Nat
  OBVIOUS
<1>1. t \in Seq(S) /\ Len(t) = Len(s) - k /\ \A i \in 1..Len(t) : t[i] = s[h(i)]
  BY SubSeqProperties
<1>2. \A i \in 1..Len(t) : h(i) \in 1..Len(s) /\ (i < Len(t) => h(i) < Len(s))
  <2>1. Len(t) = Len(s) - k
    BY <1>1
  <2>2. \A i \in 1..(Len(s) - k) : k + i \in 1..Len(s) /\ (i < Len(s) - k => k + i < Len(s))
    BY <1>0
  <2>. QED BY <2>1, <2>2
<1>3. \A i, j \in 1..Len(t) : i < j => h(i) < h(j)
  BY <1>1
<1>4. Len(t) <= Len(s)
  BY <1>0, <1>1
<1>. HIDE DEF h
<1>. QED BY <1>1, <1>2, <1>3, <1>4 DEF Thins

\* A file that is there has contents, and no digest of contents is zero.
LEMMA BytesLemma ==
  ASSUME NEW n \in Name, Local[n] # {}
  PROVE  /\ BytesOf(n) \in Local[n] /\ BytesOf(n) \in Content /\ BytesOf(n) \in Seq(Chunk)
         /\ BytesOf(n) # ZeroMd5 /\ BytesOf(n) \in Md5
         /\ Readable(n) => Len(BytesOf(n)) \in Nat \ {0}
<1>1. Local[n] \subseteq Content
  BY LocalAssumption
<1>2. \E c \in Content : c \in Local[n]
  BY <1>1
<1>3. BytesOf(n) \in Content /\ BytesOf(n) \in Local[n]
  BY <1>2 DEF BytesOf
<1>4. BytesOf(n) \in Seq(Chunk) /\ BytesOf(n) # ZeroMd5
  BY <1>3, ContentAssumption, ZeroMd5Assumption
<1>5. ASSUME Readable(n) PROVE Len(BytesOf(n)) \in Nat \ {0}
  <2>1. BytesOf(n) = <<>> => Local[n] = {<<>>}
    BY <1>3, LocalAssumption
  <2>2. BytesOf(n) # <<>>
    BY <1>5, <2>1 DEF Readable
  <2>. QED BY <1>4, <2>2, EmptySeq
<1>. QED BY <1>3, <1>4, <1>5 DEF Md5

\* What senders send are messages that the receiver knows, of one kind each.
LEMMA SentLemma ==
  ASSUME NEW m \in Sent
  PROVE  /\ m \in Message_t
         /\ \/ /\ IsReq(m) /\ ~IsData(m) /\ ~IsFinish(m)
               /\ m.block \in FileBlock_t /\ Described(m.block) /\ m.block.name \in Name
            \/ ~IsReq(m) /\ IsData(m) /\ ~IsFinish(m) /\ m.chunk \in Chunk
            \/ ~IsReq(m) /\ ~IsData(m) /\ IsFinish(m)
<1>1. CASE m \in Requests
  BY <1>1 DEF Requests, Message_t, Type, IsReq, IsData, IsFinish, FileBlock_t, CMD_SEND_FILEMSG_REQ,
       CMD_SEND_FILE, CMD_SEND_FINISH, REQ_NOR, REQ_NORE
<1>2. CASE m \in Blocks
  BY <1>2 DEF Blocks, Message_t, Type, IsReq, IsData, IsFinish, CMD_SEND_FILEMSG_REQ,
       CMD_SEND_FILE, CMD_SEND_FINISH, REQ_NOR, REQ_NORE
<1>3. CASE m = FinishMsg
  BY <1>3 DEF FinishMsg, Message_t, Type, IsReq, IsData, IsFinish, CMD_SEND_FILEMSG_REQ,
       CMD_SEND_FILE, CMD_SEND_FINISH, REQ_NOR, REQ_NORE
<1>. QED BY <1>1, <1>2, <1>3 DEF Sent

-----------------------------------------------------------------------------
(* The steps of a sender.                                                  *)

\* What a step of process p leaves alone
Moved(p) ==
  /\ sender' \in [Process -> Sender] /\ toClient' \in [Process -> Seq(MsgHead)]
  /\ sender'[p].name = sender[p].name
  /\ \A q \in Process : q # p => sender'[q] = sender[q] /\ toClient'[q] = toClient[q]

HasEnded(p) == sender'[p].pc = "ended" /\ toClient'[p] = <<>> /\ UNCHANGED toServer

\* p goes on with its file: it sends blocks, or FINISH
GoesOn(p) ==
  /\ sender[p].pc = "waitFile" \/ Answered(p)
  /\ Readable(sender[p].name) /\ sender'[p].block \in 1..Len(BytesOf(sender[p].name))
  /\ sender'[p].said = sender[p].said
  /\ toClient'[p] = toClient[p] \/ (toClient[p] # <<>> /\ toClient'[p] = Tail(toClient[p]))
  /\ \E m \in Seq(Pkt) :
       /\ toServer' = toServer \o m
       /\ \A k \in 1..Len(m) : m[k].src = p
       /\ \/ sender'[p].pc = "waitFile" /\ \A k \in 1..Len(m) : m[k].msg \in Blocks
          \/ /\ sender[p].pc = "waitFile" /\ sender'[p].pc = "waitFinish"
             /\ Len(m) = 1 /\ m[1].msg = FinishMsg

\* A process that ends leaves its buffers and its name.
LEMMA EndsLemma ==
  ASSUME NetTypeOK, NEW p \in Process,
         NEW s \in {"nothing", "ok", "fail", "refused", "nospace", "noread"}, Ends(p, s)
  PROVE  /\ Moved(p) /\ sender'[p].said = s
         /\ sender'[p].pc = "ended" /\ toClient'[p] = <<>>
<1>1. sender[p] \in Sender /\ sender \in [Process -> Sender] /\ toClient \in [Process -> Seq(MsgHead)]
  BY DEF NetTypeOK
<1>. DEFINE r == [sender[p] EXCEPT !.pc = "ended", !.said = s]
<1>2. r \in Sender /\ r.pc = "ended" /\ r.said = s /\ r.name = sender[p].name
  BY <1>1 DEF Sender
<1>3. sender' = [sender EXCEPT ![p] = r] /\ toClient' = [toClient EXCEPT ![p] = <<>>]
  BY DEF Ends
<1>. HIDE DEF r
<1>. QED BY <1>1, <1>2, <1>3, EmptySeq DEF Moved

\* The datagrams of a sendto are the messages with their source.
LEMMA SendLemma ==
  ASSUME NEW p \in Process, NEW x \in Seq(Sent)
  PROVE  LET m == [k \in 1..Len(x) |-> Packet(p, x[k])] IN
           /\ m \in Seq(Pkt) /\ Len(m) = Len(x)
           /\ \A k \in 1..Len(m) : m[k].src = p /\ m[k].msg = x[k]
<1>. DEFINE m == [k \in 1..Len(x) |-> Packet(p, x[k])]
<1>1. Len(x) \in Nat /\ \A k \in 1..Len(x) : Packet(p, x[k]) \in Pkt
  BY DEF Packet, Pkt
<1>2. m \in Seq(Pkt) /\ Len(m) = Len(x)
  BY <1>1
<1>3. \A k \in 1..Len(m) : m[k].src = p /\ m[k].msg = x[k]
  BY <1>2 DEF Packet
<1>. QED BY <1>2, <1>3

\* A block of a file that can be read is a block.
LEMMA DataLemma ==
  ASSUME NEW n \in Name, Readable(n), NEW k \in 1..Len(BytesOf(n))
  PROVE  DataMsg(n, k) \in Blocks /\ Blocks \subseteq Sent
<1>1. Local[n] # {}
  BY DEF Readable
<1>2. BytesOf(n)[k] \in Chunk
  BY <1>1, BytesLemma
<1>. QED BY <1>2 DEF DataMsg, Blocks, Sent

\* After the answer to the request, the process ends or sends its first block.
LEMMA AfterReqMoves ==
  ASSUME TransferInv, NEW p \in Process, NEW head \in MsgHead, NEW rest \in Seq(MsgHead),
         AfterReq(p, head, rest),
         head = ZeroHead \/ (toClient[p] # <<>> /\ rest = Tail(toClient[p]))
  PROVE  Moved(p) /\ ((HasEnded(p) /\ sender'[p].said # "ok") \/ GoesOn(p))
<1>. DEFINE n == sender[p].name
            accepted == head = [cmd |-> CMD_SEND_FILEMSG_REQ, type |-> ACK_OK]
<1>1. sender[p].pc = "waitReq" /\ SenderOK(p) /\ NetTypeOK /\ sender[p] \in Sender
  BY DEF AfterReq, TransferInv, NetTypeOK
<1>2. CASE Ends(p, "refused") /\ UNCHANGED toServer
  BY <1>1, <1>2, EndsLemma DEF HasEnded
<1>3. CASE Ends(p, "noread") /\ UNCHANGED toServer
  BY <1>1, <1>3, EndsLemma DEF HasEnded
<1>4. CASE /\ accepted /\ Readable(n)
           /\ sender' = [sender EXCEPT ![p].pc = "waitFile", ![p].block = 1]
           /\ udpsend(p, <<DataMsg(n, 1)>>)
           /\ toClient' = [toClient EXCEPT ![p] = rest]
  <2>1. n \in Name /\ Local[n] # {} /\ 1 \in 1..Len(BytesOf(n))
    <3>1. n \in Name
      BY <1>1 DEF SenderOK
    <3>2. Local[n] # {}
      BY <1>4 DEF Readable
    <3>3. Len(BytesOf(n)) \in Nat \ {0}
      BY <1>4, <3>1, <3>2, BytesLemma
    <3>. QED BY <3>1, <3>2, <3>3
  <2>2. head # ZeroHead
    BY <1>4 DEF ZeroHead, CMD_SEND_FILEMSG_REQ
  <2>3. Answered(p) /\ rest = Tail(toClient[p])
    BY <1>1, <2>2 DEF Answered
  <2>. DEFINE r == [sender[p] EXCEPT !.pc = "waitFile", !.block = 1]
  <2>4. r \in Sender /\ r.pc = "waitFile" /\ r.block = 1 /\ r.name = n /\ r.said = sender[p].said
    BY <1>1 DEF Sender
  <2>5. sender' = [sender EXCEPT ![p] = r]
    BY <1>4
  <2>. HIDE DEF r
  <2>6. sender \in [Process -> Sender] /\ toClient \in [Process -> Seq(MsgHead)]
    BY <1>1 DEF NetTypeOK
  <2>7. Moved(p) /\ sender'[p] = r /\ toClient'[p] = rest
    BY <1>4, <2>4, <2>5, <2>6 DEF Moved
  <2>. DEFINE x == <<DataMsg(n, 1)>>
              m == [k \in 1..Len(x) |-> Packet(p, x[k])]
  <2>8. DataMsg(n, 1) \in Blocks /\ DataMsg(n, 1) \in Sent
    BY <1>4, <2>1, DataLemma
  <2>9. x \in Seq(Sent) /\ Len(x) = 1 /\ x[1] = DataMsg(n, 1)
    BY <2>8
  <2>10. /\ m \in Seq(Pkt) /\ Len(m) = Len(x)
         /\ \A k \in 1..Len(m) : m[k].src = p /\ m[k].msg = x[k]
    <3>. HIDE DEF x
    <3>. QED BY <2>9, SendLemma
  <2>11. toServer' = toServer \o m
    BY <1>4 DEF udpsend
  <2>12. \A k \in 1..Len(m) : m[k].msg \in Blocks
    BY <2>8, <2>9, <2>10
  <2>. HIDE DEF m, x
  <2>13. sender'[p].block \in 1..Len(BytesOf(n)) /\ sender'[p].said = sender[p].said
         /\ sender'[p].pc = "waitFile"
    BY <2>1, <2>4, <2>7
  <2>14. GoesOn(p)
    BY <1>4, <2>3, <2>7, <2>10, <2>11, <2>12, <2>13 DEF GoesOn, Answered
  <2>. QED BY <2>7, <2>14
<1>. QED BY <1>2, <1>3, <1>4 DEF AfterReq

\* After the answer to a block, the process ends, sends a block, or sends FINISH.
LEMMA AfterFileMoves ==
  ASSUME TransferInv, NEW p \in Process, NEW head \in MsgHead, NEW rest \in Seq(MsgHead),
         NEW got \in Nat, AfterFile(p, head, rest, got),
         rest = toClient[p] \/ (toClient[p] # <<>> /\ rest = Tail(toClient[p]))
  PROVE  Moved(p) /\ ((HasEnded(p) /\ sender'[p].said # "ok") \/ GoesOn(p))
<1>. DEFINE s == sender[p]
            n == s.name
            heard == [s EXCEPT !.recvbuf = head, !.acks = @ + got]
<1>1. s.pc = "waitFile" /\ SenderOK(p) /\ NetTypeOK /\ s \in Sender
  BY DEF AfterFile, TransferInv, NetTypeOK
<1>2. /\ n \in Name /\ Readable(n) /\ s.block \in 1..Len(BytesOf(n)) /\ s.block \in Nat
      /\ Len(BytesOf(n)) \in Nat
  <2>1. n \in Name /\ Readable(n) /\ s.block \in 1..Len(BytesOf(n))
    BY <1>1 DEF SenderOK
  <2>2. Local[n] # {}
    BY <2>1 DEF Readable
  <2>3. Len(BytesOf(n)) \in Nat
    BY <2>1, <2>2, BytesLemma
  <2>. QED BY <2>1, <2>3
<1>3. heard \in Sender /\ heard.pc = "waitFile" /\ heard.block = s.block /\ heard.name = n
      /\ heard.said = s.said
  <2>1. s.acks + got \in Nat
    BY <1>1 DEF Sender
  <2>2. heard = [s EXCEPT !.recvbuf = head, !.acks = s.acks + got]
    OBVIOUS
  <2>. QED BY <1>1, <2>1, <2>2 DEF Sender
<1>4. sender \in [Process -> Sender] /\ toClient \in [Process -> Seq(MsgHead)]
  BY <1>1 DEF NetTypeOK
<1>5. ASSUME NEW r \in Sender, r.name = n, r.said = s.said, r.block \in 1..Len(BytesOf(n)),
             sender' = [sender EXCEPT ![p] = r], toClient' = [toClient EXCEPT ![p] = rest],
             NEW x \in Seq(Sent), udpsend(p, x),
             \/ r.pc = "waitFile" /\ \A k \in 1..Len(x) : x[k] \in Blocks
             \/ r.pc = "waitFinish" /\ Len(x) = 1 /\ x[1] = FinishMsg
      PROVE  Moved(p) /\ GoesOn(p)
  <2>1. Moved(p) /\ sender'[p] = r /\ toClient'[p] = rest
    BY <1>4, <1>5 DEF Moved
  <2>. DEFINE m == [k \in 1..Len(x) |-> Packet(p, x[k])]
  <2>2. /\ m \in Seq(Pkt) /\ Len(m) = Len(x)
        /\ \A k \in 1..Len(m) : m[k].src = p /\ m[k].msg = x[k]
    BY SendLemma
  <2>3. toServer' = toServer \o m
    BY <1>5 DEF udpsend
  <2>. HIDE DEF m
  <2>4. \/ r.pc = "waitFile" /\ \A k \in 1..Len(m) : m[k].msg \in Blocks
        \/ r.pc = "waitFinish" /\ Len(m) = 1 /\ m[1].msg = FinishMsg
    BY <1>5, <2>2
  <2>. QED BY <1>1, <1>2, <1>5, <2>1, <2>2, <2>3, <2>4 DEF GoesOn
<1>6. \A k \in 1..Len(BytesOf(n)) : DataMsg(n, k) \in Blocks /\ DataMsg(n, k) \in Sent
  BY <1>2, DataLemma
<1>7. CASE Ends(p, "nospace") /\ UNCHANGED toServer
  BY <1>1, <1>7, EndsLemma DEF HasEnded
<1>8. CASE /\ s.block < Len(BytesOf(n)) /\ toClient' = [toClient EXCEPT ![p] = rest]
           /\ sender' = [sender EXCEPT ![p] = [heard EXCEPT !.block = @ + 1]]
           /\ udpsend(p, <<DataMsg(n, s.block + 1)>>)
  <2>. DEFINE r == [heard EXCEPT !.block = @ + 1]
              x == <<DataMsg(n, s.block + 1)>>
  <2>1. s.block + 1 \in 1..Len(BytesOf(n))
    BY <1>2, <1>8
  <2>2. r \in Sender /\ r.name = n /\ r.said = s.said /\ r.pc = "waitFile" /\ r.block = s.block + 1
    <3>. HIDE DEF heard
    <3>. QED BY <1>2, <1>3 DEF Sender
  <2>3. x \in Seq(Sent) /\ \A k \in 1..Len(x) : x[k] \in Blocks
    BY <1>6, <2>1
  <2>4. sender' = [sender EXCEPT ![p] = r] /\ udpsend(p, x)
    BY <1>8
  <2>. HIDE DEF r, x
  <2>. QED BY <1>5, <1>8, <2>1, <2>2, <2>3, <2>4
<1>9. CASE /\ toClient' = [toClient EXCEPT ![p] = rest]
           /\ sender' = [sender EXCEPT ![p] = [heard EXCEPT !.pc = "waitFinish"]]
           /\ udpsend(p, <<FinishMsg>>)
  <2>. DEFINE r == [heard EXCEPT !.pc = "waitFinish"]
              x == <<FinishMsg>>
  <2>1. r \in Sender /\ r.name = n /\ r.said = s.said /\ r.pc = "waitFinish" /\ r.block = s.block
    <3>. HIDE DEF heard
    <3>. QED BY <1>2, <1>3 DEF Sender
  <2>2. x \in Seq(Sent) /\ Len(x) = 1 /\ x[1] = FinishMsg
    BY DEF Sent
  <2>3. sender' = [sender EXCEPT ![p] = r] /\ udpsend(p, x)
    BY <1>9
  <2>. HIDE DEF r, x
  <2>. QED BY <1>2, <1>5, <1>9, <2>1, <2>2, <2>3
<1>10. CASE /\ toClient' = [toClient EXCEPT ![p] = rest]
            /\ sender' = [sender EXCEPT ![p] = heard]
            /\ udpsend(p, <<DataMsg(n, s.block), DataMsg(n, s.block)>>)
  <2>. DEFINE x == <<DataMsg(n, s.block), DataMsg(n, s.block)>>
  <2>1. x \in Seq(Sent) /\ \A k \in 1..Len(x) : x[k] \in Blocks
    BY <1>2, <1>6
  <2>2. udpsend(p, x)
    BY <1>10
  <2>. HIDE DEF x, heard
  <2>. QED BY <1>2, <1>3, <1>5, <1>10, <2>1, <2>2
<1>. QED BY <1>7, <1>8, <1>9, <1>10 DEF AfterFile

\* After the answer to FINISH, or without one, the process ends.
LEMMA AfterFinishMoves ==
  ASSUME TransferInv, NEW p \in Process, NEW head \in MsgHead, AfterFinish(p, head)
  PROVE  /\ sender[p].pc = "waitFinish" /\ Moved(p) /\ HasEnded(p)
         /\ sender'[p].said = "ok" => head = [cmd |-> CMD_SEND_FINISH, type |-> ACK_OK]
<1>1. NetTypeOK /\ sender[p].pc = "waitFinish" /\ UNCHANGED toServer
  BY DEF TransferInv, AfterFinish
<1>2. CASE head = [cmd |-> CMD_SEND_FINISH, type |-> ACK_OK]
  <2>1. Ends(p, "ok")
    BY <1>2 DEF AfterFinish
  <2>. QED BY <1>1, <1>2, <2>1, EndsLemma DEF HasEnded
<1>3. CASE head # [cmd |-> CMD_SEND_FINISH, type |-> ACK_OK]
  <2>1. Ends(p, "fail")
    BY <1>3 DEF AfterFinish
  <2>. QED BY <1>1, <2>1, EndsLemma DEF HasEnded
<1>. QED BY <1>2, <1>3

\* A process that waits goes on or ends, and ends with "ok" only after an answer that says so.
LEMMA SenderMoves ==
  ASSUME TransferInv, NEW p \in Process, Receive(p) \/ TimeOut(p)
  PROVE  /\ Moved(p) /\ Waiting(p)
         /\ HasEnded(p) \/ GoesOn(p)
         /\ HasEnded(p) /\ sender'[p].said = "ok" =>
              /\ toClient[p] # <<>>
              /\ Head(toClient[p]) = [cmd |-> CMD_SEND_FINISH, type |-> ACK_OK]
<1>1. sender[p] \in Sender /\ toClient[p] \in Seq(MsgHead) /\ ZeroHead \in MsgHead
  BY DEF TransferInv, NetTypeOK, ZeroHead, MsgHead, Type
<1>0. GoesOn(p) => ~HasEnded(p)
  BY DEF GoesOn, HasEnded
<1>2. CASE Receive(p)
  <2>. DEFINE head == Head(toClient[p])
              rest == Tail(toClient[p])
              got == IF head = [cmd |-> CMD_SEND_FILE, type |-> ACK_OK] THEN 1 ELSE 0
  <2>1. toClient[p] # <<>> /\ Waiting(p)
    BY <1>2 DEF Receive
  <2>2. head \in MsgHead /\ rest \in Seq(MsgHead) /\ got \in Nat
    BY <1>1, <2>1
  <2>3. AfterReq(p, head, rest) \/ AfterFile(p, head, rest, got) \/ AfterFinish(p, head)
    BY <1>2 DEF Receive
  <2>4. rest = Tail(toClient[p]) /\ head = Head(toClient[p])
    OBVIOUS
  <2>. HIDE DEF head, rest, got
  <2>5. CASE AfterReq(p, head, rest)
    BY <2>1, <2>2, <2>4, <1>0, <2>5, AfterReqMoves
  <2>6. CASE AfterFile(p, head, rest, got)
    BY <2>1, <2>2, <2>4, <1>0, <2>6, AfterFileMoves
  <2>7. CASE AfterFinish(p, head)
    BY <2>1, <2>2, <2>4, <2>7, AfterFinishMoves
  <2>. QED BY <2>3, <2>5, <2>6, <2>7
<1>3. CASE TimeOut(p)
  <2>1. Waiting(p) /\ sender[p].recvbuf \in MsgHead
    BY <1>1, <1>3 DEF TimeOut, Sender
  <2>2. CASE AfterReq(p, ZeroHead, toClient[p])
    BY <1>1, <2>1, <1>0, <2>2, AfterReqMoves
  <2>3. CASE AfterFile(p, sender[p].recvbuf, toClient[p], 0)
    BY <1>1, <2>1, <1>0, <2>3, AfterFileMoves
  <2>4. CASE AfterFinish(p, ZeroHead)
    <3>1. ZeroHead # [cmd |-> CMD_SEND_FINISH, type |-> ACK_OK]
      BY DEF ZeroHead, CMD_SEND_FINISH
    <3>. QED BY <1>1, <2>1, <2>4, <3>1, AfterFinishMoves
  <2>. QED BY <1>3, <2>2, <2>3, <2>4 DEF TimeOut
<1>. QED BY <1>2, <1>3

-----------------------------------------------------------------------------
(* The receiver in the network is the receiver of UdpServer.               *)

\* Every step of the whole is a step of the receiver or leaves it alone.
LEMMA ServerStep == NetTypeOK /\ [Next]_vars => [SrvNext]_srvVars
<1>. SUFFICES ASSUME NetTypeOK, [Next]_vars PROVE [SrvNext]_srvVars
  OBVIOUS
<1>0. \A k \in 1..Len(toServer) : toServer[k].msg \in Message_t
  <2>. SUFFICES ASSUME NEW k \in 1..Len(toServer) PROVE toServer[k].msg \in Message_t
    OBVIOUS
  <2>1. toServer[k] \in Pkt
    BY DEF NetTypeOK
  <2>2. toServer[k].msg \in Sent
    BY <2>1 DEF Pkt
  <2>. QED BY <2>2, SentLemma
<1>1. ASSUME NEW p \in Process, NEW n \in Name, Start(p, n) PROVE UNCHANGED srvVars
  BY <1>1 DEF Start
<1>2. ASSUME NEW p \in Process, Answer(p) \/ NoAnswer(p) \/ LateAnswer(p) \/ Kill(p)
      PROVE  UNCHANGED srvVars
  BY <1>2 DEF Answer, NoAnswer, LateAnswer, Kill
<1>3. CASE Deliver
  <2>1. 1 \in 1..Len(toServer) /\ onrecv(toServer[1].msg)
    BY <1>3 DEF Deliver, NetTypeOK
  <2>. QED BY <1>0, <2>1 DEF SrvNext
<1>4. CASE Overtake
  <2>1. PICK k \in 2..Len(toServer) : onrecv(toServer[k].msg)
    BY <1>4 DEF Overtake
  <2>2. k \in 1..Len(toServer)
    BY DEF NetTypeOK
  <2>. QED BY <1>0, <2>1, <2>2 DEF SrvNext
<1>5. CASE LoseRequest \/ LoseAnswer \/ Duplicate
  BY <1>5 DEF LoseRequest, LoseAnswer, Duplicate
<1>6. CASE Finish \/ ServerRestart
  BY <1>6 DEF Finish, ServerRestart, SrvNext
<1>7. CASE UNCHANGED vars
  BY <1>7 DEF vars
<1>. QED BY <1>1, <1>2, <1>3, <1>4, <1>5, <1>6, <1>7 DEF Next

\* Faults are counted down and remembered, and what was stored stays known.
LEMMA NetStep ==
  ASSUME NetTypeOK, [Next]_vars
  PROVE  /\ budget' \in Nat /\ happened' \subseteq Faults /\ happened \subseteq happened'
         /\ stored' \subseteq Name /\ stored \subseteq stored'
<1>0. ASSUME NEW kind, Fault(kind)
      PROVE  budget' \in Nat /\ happened' \subseteq Faults /\ happened \subseteq happened'
  BY <1>0 DEF Fault, NetTypeOK
<1>1. ASSUME UNCHANGED <<budget, happened>>
      PROVE  budget' \in Nat /\ happened' \subseteq Faults /\ happened \subseteq happened'
  BY <1>1 DEF NetTypeOK
<1>2. ASSUME NEW k, Handled(k) PROVE stored' \subseteq Name /\ stored \subseteq stored'
  BY <1>2 DEF Handled, NetTypeOK
<1>16. CASE Finish
  <2>1. stored' \subseteq Name /\ stored \subseteq stored'
    BY <1>16 DEF Finish, NetTypeOK
  <2>2. Fault("mv") \/ UNCHANGED <<budget, happened>>
    BY <1>16 DEF Finish
  <2>. QED BY <1>0, <1>1, <2>1, <2>2
<1>3. ASSUME UNCHANGED stored PROVE stored' \subseteq Name /\ stored \subseteq stored'
  BY <1>3 DEF NetTypeOK
<1>4. ASSUME NEW p \in Process, NEW n \in Name, Start(p, n) PROVE UNCHANGED stored
  BY <1>4 DEF Start
<1>5. ASSUME NEW p \in Process, NEW n \in Name, Start(p, n)
      PROVE  UNCHANGED <<budget, happened>> \/ Fault("overlap")
  BY <1>5 DEF Start
<1>6. ASSUME NEW p \in Process, Answer(p) \/ NoAnswer(p) PROVE UNCHANGED <<budget, happened, stored>>
  BY <1>6 DEF Answer, NoAnswer, netVars
<1>7. ASSUME NEW p \in Process, LateAnswer(p) PROVE Fault("late") /\ UNCHANGED stored
  BY <1>7 DEF LateAnswer
<1>8. ASSUME NEW p \in Process, Kill(p) PROVE Fault("kill") /\ UNCHANGED stored
  BY <1>8 DEF Kill
<1>9. CASE Deliver
  <2>1. Handled(1) /\ (Fault("disk") \/ UNCHANGED <<budget, happened>>)
    BY <1>9 DEF Deliver
  <2>. QED BY <1>0, <1>1, <1>2, <2>1
<1>10. CASE Overtake
  <2>1. Fault("reorder") /\ \E k : Handled(k)
    BY <1>10 DEF Overtake
  <2>. QED BY <1>0, <1>2, <2>1
<1>11. CASE LoseRequest \/ LoseAnswer
  <2>1. Fault("lose") /\ UNCHANGED stored
    BY <1>11 DEF LoseRequest, LoseAnswer
  <2>. QED BY <1>0, <1>3, <2>1
<1>12. CASE Duplicate
  <2>1. Fault("duplicate") /\ UNCHANGED stored
    BY <1>12 DEF Duplicate
  <2>. QED BY <1>0, <1>3, <2>1
<1>13. CASE ServerRestart
  <2>1. Fault("restart") /\ UNCHANGED stored
    BY <1>13 DEF ServerRestart
  <2>. QED BY <1>0, <1>3, <2>1
<1>14. CASE UNCHANGED vars
  <2>1. UNCHANGED <<budget, happened, stored>>
    BY <1>14 DEF vars, netVars
  <2>. QED BY <1>1, <1>3, <2>1
<1>15. ASSUME NEW p \in Process, Answer(p) \/ NoAnswer(p) \/ LateAnswer(p) \/ Kill(p)
       PROVE  (UNCHANGED <<budget, happened>> \/ \E kind : Fault(kind)) /\ UNCHANGED stored
  BY <1>6, <1>7, <1>8, <1>15
<1>. QED BY <1>0, <1>1, <1>3, <1>4, <1>5, <1>9, <1>10, <1>11, <1>12, <1>13, <1>14, <1>15, <1>16 DEF Next

-----------------------------------------------------------------------------
(* TransferInv is inductive.                                               *)

\* A step of a sender keeps what it sends and has sent in order.
LEMMA MovesInv ==
  ASSUME TransferInv, NEW p \in Process, Moved(p), Running(p), HasEnded(p) \/ GoesOn(p)
  PROVE  /\ toServer' \in Seq(Pkt)
         /\ \A q \in Process : SenderOK(q)' /\ (~Running(q)' => toClient'[q] = <<>>)
         /\ \A k \in 1..Len(toServer') : PktOK(toServer[k])'
<1>1. /\ toServer \in Seq(Pkt) /\ sender \in [Process -> Sender] /\ SenderOK(p) /\ sender[p].name \in Name
      /\ sender'[p].name = sender[p].name /\ sender[p].pc # "idle"
  BY DEF TransferInv, NetTypeOK, SenderOK, Running, Moved
<1>2. sender'[p].pc \in {"ended", "waitFile", "waitFinish"}
  BY DEF HasEnded, GoesOn
<1>3. ASSUME NEW q \in Process PROVE SenderOK(q)' /\ (~Running(q)' => toClient'[q] = <<>>)
  <2>1. CASE q = p
    BY <1>1, <2>1 DEF SenderOK, Running, HasEnded, GoesOn
  <2>2. CASE q # p
    <3>1. sender'[q] = sender[q] /\ toClient'[q] = toClient[q]
      BY <2>2 DEF Moved
    <3>2. SenderOK(q) /\ (~Running(q) => toClient[q] = <<>>)
      BY DEF TransferInv
    <3>. QED BY <3>1, <3>2 DEF SenderOK, Running
  <2>. QED BY <2>1, <2>2
<1>4. ASSUME NEW d \in Pkt, PktOK(d) PROVE PktOK(d)'
  <2>1. d.src \in Process
    BY DEF Pkt
  <2>2. CASE d.src = p
    BY <1>1, <1>2, <1>4, <2>2 DEF PktOK
  <2>3. CASE d.src # p
    BY <1>4, <2>1, <2>3 DEF PktOK, Moved
  <2>. QED BY <2>2, <2>3
<1>5. \A k \in 1..Len(toServer) : PktOK(toServer[k]) /\ toServer[k] \in Pkt
  BY <1>1 DEF TransferInv
<1>6. CASE HasEnded(p)
  <2>1. toServer' = toServer
    BY <1>6 DEF HasEnded
  <2>2. \A k \in 1..Len(toServer) : PktOK(toServer[k])'
    <3>. SUFFICES ASSUME NEW k \in 1..Len(toServer) PROVE PktOK(toServer[k])'
      OBVIOUS
    <3>1. PICK d \in Pkt : d = toServer[k] /\ PktOK(d)
      BY <1>5
    <3>2. PktOK(d)'
      BY <1>4, <3>1
    <3>. QED BY <2>1, <3>1, <3>2
  <2>. QED BY <1>1, <1>3, <2>1, <2>2
<1>7. CASE GoesOn(p)
  <2>1. PICK m \in Seq(Pkt) :
          /\ toServer' = toServer \o m
          /\ \A k \in 1..Len(m) : m[k].src = p
          /\ \/ \A k \in 1..Len(m) : m[k].msg \in Blocks
             \/ Len(m) = 1 /\ m[1].msg = FinishMsg
    BY <1>7 DEF GoesOn
  <2>2. \A k \in 1..Len(m) : m[k] \in Pkt /\ ~IsReq(m[k].msg)
    <3>1. \A b \in Blocks : ~IsReq(b)
      BY DEF Blocks, IsReq, CMD_SEND_FILE, CMD_SEND_FILEMSG_REQ
    <3>2. ~IsReq(FinishMsg)
      BY DEF FinishMsg, IsReq, CMD_SEND_FINISH, CMD_SEND_FILEMSG_REQ
    <3>. QED BY <2>1, <3>1, <3>2
  <2>3. /\ toServer' \in Seq(Pkt) /\ Len(toServer') = Len(toServer) + Len(m)
        /\ \A k \in 1..Len(toServer') :
             \/ k \in 1..Len(toServer) /\ toServer'[k] = toServer[k]
             \/ k - Len(toServer) \in 1..Len(m) /\ toServer'[k] = m[k - Len(toServer)]
    BY <1>1, <2>1, ConcatProperties
  <2>4. ASSUME NEW k \in 1..Len(toServer') PROVE PktOK(toServer[k])'
    <3>1. CASE k \in 1..Len(toServer) /\ toServer'[k] = toServer[k]
      <4>1. PICK d \in Pkt : d = toServer[k] /\ PktOK(d)
        BY <1>5, <3>1
      <4>2. PktOK(d)'
        BY <1>4, <4>1
      <4>. QED BY <3>1, <4>1, <4>2
    <3>2. CASE k - Len(toServer) \in 1..Len(m) /\ toServer'[k] = m[k - Len(toServer)]
      <4>1. PICK d : d = m[k - Len(toServer)] /\ d.src = p /\ ~IsReq(d.msg)
        BY <2>1, <2>2, <3>2
      <4>2. Readable(sender'[p].name)
        BY <1>1, <1>7 DEF GoesOn
      <4>3. PktOK(d)'
        BY <1>2, <4>1, <4>2 DEF PktOK
      <4>. QED BY <3>2, <4>1, <4>3
    <3>. QED BY <2>3, <3>1, <3>2
  <2>. QED BY <1>3, <2>3, <2>4
<1>. QED BY <1>6, <1>7

\* A process is started for a file, and describes it.
LEMMA StartInv ==
  ASSUME TransferInv, NEW p \in Process, NEW n \in Name, Announce(p, n)
  PROVE  /\ sender' \in [Process -> Sender] /\ toClient' = toClient
         /\ sender'[p] = [sender[p] EXCEPT !.pc = "waitReq", !.name = n] /\ sender[p].pc = "idle"
         /\ \A q \in Process : q # p => sender'[q] = sender[q]
         /\ \E d \in Pkt : d.src = p /\ IsReq(d.msg) /\ d.msg.block.name = n /\ toServer' = Append(toServer, d)
<1>1. sender[p] \in Sender /\ sender \in [Process -> Sender] /\ toServer \in Seq(Pkt)
  BY DEF TransferInv, NetTypeOK
<1>. DEFINE r == [sender[p] EXCEPT !.pc = "waitReq", !.name = n]
<1>2. r \in Sender
  BY <1>1 DEF Sender
<1>3. sender' = [sender EXCEPT ![p] = r] /\ toClient' = toClient /\ sender[p].pc = "idle"
  BY DEF Announce
<1>4. PICK b \in Describe(n) :
        udpsend(p, <<[cmd |-> CMD_SEND_FILEMSG_REQ, type |-> REQ_NOR, block |-> b]>>)
  BY DEF Announce
<1>5. b \in FileBlock_t /\ Described(b) /\ b.name = n
  <2>1. CASE Local[n] = {}
    BY <1>4, <2>1 DEF Describe, FileBlock_t, Described, Md5
  <2>2. CASE Local[n] # {}
    <3>1. PICK s \in Stamp : b = [name |-> n, md5 |-> BytesOf(n), timestamp |-> s]
      BY <1>4, <2>2 DEF Describe
    <3>. QED BY <2>2, <3>1, BytesLemma DEF FileBlock_t, Described
  <2>. QED BY <2>1, <2>2
<1>. DEFINE req == [cmd |-> CMD_SEND_FILEMSG_REQ, type |-> REQ_NOR, block |-> b]
<1>6. req \in Sent /\ IsReq(req) /\ req.block.name = n
  BY <1>5 DEF Sent, Requests, IsReq
<1>. HIDE DEF r, req
<1>. DEFINE x == <<req>>
            m == [k \in 1..Len(x) |-> Packet(p, x[k])]
<1>7. Packet(p, req) \in Pkt /\ Packet(p, req).src = p /\ Packet(p, req).msg = req
  BY <1>6 DEF Packet, Pkt
<1>8. x \in Seq(Sent) /\ Len(x) = 1 /\ x[1] = req
  BY <1>6
<1>9. toServer' = toServer \o m
  BY <1>4 DEF udpsend, req
<1>10. m = <<Packet(p, req)>>
  <2>. HIDE DEF x
  <2>. QED BY <1>8
<1>. HIDE DEF m
<1>11. toServer' = Append(toServer, Packet(p, req))
  BY <1>1, <1>7, <1>9, <1>10
<1>. QED BY <1>1, <1>2, <1>3, <1>6, <1>7, <1>11 DEF r

\* What is left of the queue is as it was.
LEMMA ThinnedInv ==
  ASSUME TransferInv, toServer' \in Seq(Pkt), Thins(toServer', toServer), sender' = sender
  PROVE  /\ toServer' \in Seq(Pkt)
         /\ \A i \in 1..Len(toServer') : PktOK(toServer[i])'
<1>2. toServer' \in Seq(Pkt) /\ \A i \in 1..Len(toServer') : \E a \in 1..Len(toServer) : toServer'[i] = toServer[a]
  BY DEF Thins
<1>3. ASSUME NEW i \in 1..Len(toServer') PROVE PktOK(toServer[i])'
  <2>1. PICK a \in 1..Len(toServer) : toServer'[i] = toServer[a]
    BY <1>2
  <2>2. PICK d : d = toServer[a] /\ PktOK(d)
    BY DEF TransferInv
  <2>3. PktOK(d)'
    BY <2>2 DEF PktOK
  <2>. QED BY <2>1, <2>2, <2>3
<1>. QED BY <1>2, <1>3

\* The receiver takes a datagram, and answers its sender if that is still running.
LEMMA HandledLemma ==
  ASSUME TransferInv, SrvInv', NEW k \in 1..Len(toServer), Handled(k)
  PROVE  /\ sender' = sender /\ toServer' = RemoveAt(toServer, k)
         /\ toClient' \in [Process -> Seq(MsgHead)]
         /\ \A q \in Process :
              \/ toClient'[q] = toClient[q]
              \/ /\ q = toServer[k].src /\ Running(q) /\ reply' # NoReply
                 /\ toClient'[q] = Append(toClient[q], reply')
         /\ reply' \in MsgHead /\ toServer[k] \in Pkt /\ toServer[k].src \in Process
         /\ toServer[k].msg \in Sent /\ PktOK(toServer[k])
<1>1. toServer[k] \in Pkt /\ toClient \in [Process -> Seq(MsgHead)]
  BY DEF TransferInv, NetTypeOK
<1>2. toServer[k].src \in Process /\ toServer[k].msg \in Sent /\ reply' \in MsgHead /\ PktOK(toServer[k])
  BY <1>1 DEF Pkt, SrvInv, SrvTypeOK, TransferInv
<1>3. CASE reply' = NoReply \/ ~Running(toServer[k].src)
  <2>1. toClient' = toClient
    BY <1>3 DEF Handled
  <2>. QED BY <1>1, <1>2, <2>1 DEF Handled
<1>4. CASE reply' # NoReply /\ Running(toServer[k].src)
  <2>. DEFINE p == toServer[k].src
  <2>1. toClient' = [toClient EXCEPT ![p] = Append(toClient[p], reply')]
    BY <1>4 DEF Handled
  <2>2. Append(toClient[p], reply') \in Seq(MsgHead)
    BY <1>1, <1>2
  <2>. HIDE DEF p
  <2>3. toClient' \in [Process -> Seq(MsgHead)]
    BY <1>1, <2>1, <2>2
  <2>4. \A q \in Process : toClient'[q] = IF q = p THEN Append(toClient[q], reply') ELSE toClient[q]
    BY <1>1, <2>1
  <2>. QED BY <1>1, <1>2, <1>4, <2>3, <2>4 DEF Handled, p
<1>. QED BY <1>3, <1>4

\* The file that the receiver has noted is described as the senders have it.
LEMMA FilemsgStep ==
  ASSUME NEW m \in Sent, Filemsg.name # NoName => Described(Filemsg), onrecv(m)
  PROVE  Filemsg'.name # NoName => Described(Filemsg)'
<1>1. CASE IsReq(m) /\ cmd_reqsend_deel(m)
  <2>1. Filemsg' = m.block /\ Described(m.block)
    BY <1>1, SentLemma DEF cmd_reqsend_deel
  <2>. QED BY <2>1 DEF Described
<1>2. CASE cmd_revfile(m) \/ cmd_revfilefinsh(m) \/ UNCHANGED memory
  <2>1. Filemsg' = Filemsg
    BY <1>2 DEF cmd_revfile, cmd_revfilefinsh, memory
  <2>. QED BY <2>1 DEF Described
<1>. QED BY <1>1, <1>2 DEF onrecv

\* A datagram that is received, in its turn or not, keeps the invariant.
LEMMA HandledInv ==
  ASSUME TransferInv, SrvInv', NEW k \in 1..Len(toServer), onrecv(toServer[k].msg), Handled(k)
  PROVE  /\ sender' \in [Process -> Sender] /\ toServer' \in Seq(Pkt)
         /\ toClient' \in [Process -> Seq(MsgHead)]
         /\ Filemsg'.name # NoName => Described(Filemsg)'
         /\ \A q \in Process : SenderOK(q)' /\ (~Running(q)' => toClient'[q] = <<>>)
         /\ \A i \in 1..Len(toServer') : PktOK(toServer[i])'
<1>1. /\ sender' = sender /\ toServer' = RemoveAt(toServer, k) /\ toClient' \in [Process -> Seq(MsgHead)]
      /\ \A q \in Process : toClient'[q] = toClient[q] \/ Running(q)
      /\ toServer[k].msg \in Sent
  BY HandledLemma
<1>2. toServer' \in Seq(Pkt) /\ \A i \in 1..Len(toServer') : PktOK(toServer[i])'
  <2>1. toServer \in Seq(Pkt)
    BY DEF TransferInv, NetTypeOK
  <2>2. toServer' \in Seq(Pkt) /\ Thins(toServer', toServer)
    BY <1>1, <2>1, RemoveThins
  <2>. QED BY <1>1, <2>2, ThinnedInv
<1>3. Filemsg'.name # NoName => Described(Filemsg)'
  BY <1>1, FilemsgStep DEF TransferInv
<1>4. ASSUME NEW q \in Process PROVE SenderOK(q)' /\ (~Running(q)' => toClient'[q] = <<>>)
  BY <1>1 DEF TransferInv, SenderOK, Running
<1>5. sender' \in [Process -> Sender]
  BY <1>1 DEF TransferInv, NetTypeOK
<1>. QED BY <1>1, <1>2, <1>3, <1>4, <1>5

\* Appending a datagram that is in order keeps the queue in order.
LEMMA AppendedInv ==
  ASSUME toServer \in Seq(Pkt), NEW d \in Pkt, toServer' = Append(toServer, d), PktOK(d)',
         \A k \in 1..Len(toServer) : PktOK(toServer[k]),
         \A e \in Pkt : PktOK(e) => PktOK(e)'
  PROVE  toServer' \in Seq(Pkt) /\ \A k \in 1..Len(toServer') : PktOK(toServer[k])'
<1>1. /\ toServer' \in Seq(Pkt)
      /\ \A k \in 1..Len(toServer') : toServer'[k] = d \/ (k \in 1..Len(toServer) /\ toServer'[k] = toServer[k])
  OBVIOUS
<1>2. ASSUME NEW k \in 1..Len(toServer') PROVE PktOK(toServer[k])'
  <2>1. PICK e \in Pkt : toServer'[k] = e /\ (e = d \/ PktOK(e))
    BY <1>1
  <2>2. PktOK(e)'
    BY <2>1
  <2>. QED BY <2>1, <2>2
<1>. QED BY <1>1, <1>2

\* Every step keeps the invariant.
LEMMA TransferStep == TransferInv /\ [Next]_vars => TransferInv'
<1>. SUFFICES ASSUME TransferInv, [Next]_vars PROVE TransferInv'
  OBVIOUS
<1>1. SrvInv' /\ NetTypeOK
  BY ServerStep, NextInv DEF TransferInv
<1>2. budget' \in Nat /\ happened' \subseteq Faults /\ stored' \subseteq Name
  BY <1>1, NetStep
<1>. DEFINE G == /\ sender' \in [Process -> Sender] /\ toServer' \in Seq(Pkt)
                 /\ toClient' \in [Process -> Seq(MsgHead)]
                 /\ Filemsg'.name # NoName => Described(Filemsg)'
                 /\ \A q \in Process : SenderOK(q)' /\ (~Running(q)' => toClient'[q] = <<>>)
                 /\ \A i \in 1..Len(toServer') : PktOK(toServer[i])'
<1>3. ASSUME G PROVE TransferInv'
  BY <1>1, <1>2, <1>3 DEF TransferInv, NetTypeOK
<1>4. /\ sender \in [Process -> Sender] /\ toServer \in Seq(Pkt) /\ toClient \in [Process -> Seq(MsgHead)]
      /\ Filemsg.name # NoName => Described(Filemsg)
      /\ \A q \in Process : SenderOK(q) /\ (~Running(q) => toClient[q] = <<>>)
      /\ \A i \in 1..Len(toServer) : PktOK(toServer[i])
  BY DEF TransferInv, NetTypeOK
<1>5. UNCHANGED srvVars => (Filemsg'.name # NoName => Described(Filemsg)')
  BY <1>4 DEF srvVars, memory, Described
<1>6. ASSUME NEW p \in Process, NEW n \in Name, Start(p, n) PROVE G
  <2>1. Announce(p, n) /\ UNCHANGED srvVars
    BY <1>6 DEF Start
  <2>2. PICK d \in Pkt : d.src = p /\ IsReq(d.msg) /\ d.msg.block.name = n /\ toServer' = Append(toServer, d)
    BY <2>1, StartInv
  <2>3. /\ sender' \in [Process -> Sender] /\ toClient' = toClient
        /\ sender'[p] = [sender[p] EXCEPT !.pc = "waitReq", !.name = n] /\ sender[p].pc = "idle"
        /\ \A q \in Process : q # p => sender'[q] = sender[q]
    BY <2>1, StartInv
  <2>4. sender'[p].pc = "waitReq" /\ sender'[p].name = n
    <3>1. sender[p] \in Sender
      BY <1>4
    <3>. QED BY <2>3, <3>1 DEF Sender
  <2>5. ASSUME NEW e \in Pkt, PktOK(e) PROVE PktOK(e)'
    <3>1. e.src \in Process /\ e.src # p
      BY <2>3, <2>5 DEF Pkt, PktOK
    <3>. QED BY <2>3, <2>5, <3>1 DEF PktOK
  <2>6. PktOK(d)'
    BY <2>2, <2>4 DEF PktOK
  <2>7. toServer' \in Seq(Pkt) /\ \A k \in 1..Len(toServer') : PktOK(toServer[k])'
    BY <1>4, <2>2, <2>5, <2>6, AppendedInv
  <2>8. ASSUME NEW q \in Process PROVE SenderOK(q)' /\ (~Running(q)' => toClient'[q] = <<>>)
    <3>1. CASE q = p
      BY <2>4, <3>1 DEF SenderOK, Running
    <3>2. CASE q # p
      BY <1>4, <2>3, <3>2 DEF SenderOK, Running
    <3>. QED BY <3>1, <3>2
  <2>. QED BY <1>4, <1>5, <2>1, <2>3, <2>7, <2>8
<1>7. ASSUME NEW p \in Process, Moved(p), Running(p), HasEnded(p) \/ GoesOn(p), UNCHANGED srvVars PROVE G
  <2>1. sender' \in [Process -> Sender] /\ toClient' \in [Process -> Seq(MsgHead)]
    BY <1>7 DEF Moved
  <2>. QED BY <1>5, <1>7, <2>1, MovesInv
<1>8. ASSUME NEW p \in Process, Answer(p) \/ NoAnswer(p) \/ LateAnswer(p) PROVE G
  <2>1. (Receive(p) \/ TimeOut(p)) /\ UNCHANGED srvVars
    BY <1>8 DEF Answer, NoAnswer, LateAnswer
  <2>2. Moved(p) /\ Waiting(p) /\ (HasEnded(p) \/ GoesOn(p))
    BY <2>1, SenderMoves
  <2>3. Running(p)
    BY <2>2 DEF Waiting, Running
  <2>. QED BY <1>7, <2>1, <2>2, <2>3
<1>9. ASSUME NEW p \in Process, Kill(p) PROVE G
  <2>1. Running(p) /\ Ends(p, "nothing") /\ UNCHANGED toServer /\ UNCHANGED srvVars
    BY <1>9 DEF Kill
  <2>2. Moved(p) /\ HasEnded(p)
    BY <1>1, <2>1, EndsLemma DEF HasEnded
  <2>. QED BY <1>7, <2>1, <2>2
<1>10. CASE Deliver
  <2>1. 1 \in 1..Len(toServer) /\ onrecv(toServer[1].msg) /\ Handled(1)
    BY <1>4, <1>10 DEF Deliver
  <2>. QED BY <1>1, <1>3, <2>1, HandledInv
<1>11. CASE Overtake
  <2>1. PICK k \in 2..Len(toServer) : onrecv(toServer[k].msg) /\ Handled(k)
    BY <1>11 DEF Overtake
  <2>2. k \in 1..Len(toServer)
    BY <1>4
  <2>. QED BY <1>1, <1>3, <2>1, <2>2, HandledInv
<1>12. ASSUME sender' = sender PROVE /\ \A q \in Process : SenderOK(q)' /\ (Running(q)' <=> Running(q))
                                     /\ \A e \in Pkt : PktOK(e) => PktOK(e)'
  BY <1>4, <1>12 DEF SenderOK, Running, PktOK
<1>13. CASE LoseRequest
  <2>1. PICK k \in 1..Len(toServer) : toServer' = RemoveAt(toServer, k)
    BY <1>13 DEF LoseRequest
  <2>2. sender' = sender /\ toClient' = toClient /\ UNCHANGED srvVars
    BY <1>13 DEF LoseRequest
  <2>3. toServer' \in Seq(Pkt) /\ \A i \in 1..Len(toServer') : PktOK(toServer[i])'
    <3>1. toServer' \in Seq(Pkt) /\ Thins(toServer', toServer)
      BY <1>4, <2>1, RemoveThins
    <3>. QED BY <2>2, <3>1, ThinnedInv
  <2>4. G
    BY <1>4, <1>5, <1>12, <2>2, <2>3
  <2>. QED BY <1>3, <2>4
<1>14. CASE LoseAnswer
  <2>1. PICK p \in Process : \E k \in 1..Len(toClient[p]) :
          toClient' = [toClient EXCEPT ![p] = RemoveAt(toClient[p], k)]
    BY <1>14 DEF LoseAnswer
  <2>2. PICK k \in 1..Len(toClient[p]) : toClient' = [toClient EXCEPT ![p] = RemoveAt(toClient[p], k)]
    BY <2>1
  <2>3. sender' = sender /\ toServer' = toServer /\ UNCHANGED srvVars
    BY <1>14 DEF LoseAnswer
  <2>4. toClient[p] \in Seq(MsgHead) /\ toClient[p] # <<>>
    BY <1>4, <2>2
  <2>5. RemoveAt(toClient[p], k) \in Seq(MsgHead)
    BY <2>4, RemoveLemma
  <2>6. toClient' \in [Process -> Seq(MsgHead)] /\ \A q \in Process : q # p => toClient'[q] = toClient[q]
    BY <1>4, <2>2, <2>5
  <2>7. \A q \in Process : ~Running(q)' => toClient'[q] = <<>>
    BY <1>4, <1>12, <2>3, <2>4, <2>6
  <2>8. \A i \in 1..Len(toServer') : PktOK(toServer[i])'
    <3>. SUFFICES ASSUME NEW i \in 1..Len(toServer) PROVE PktOK(toServer[i])'
      BY <2>3
    <3>1. PICK e \in Pkt : e = toServer[i] /\ PktOK(e)
      BY <1>4
    <3>2. PktOK(e)'
      BY <1>12, <2>3, <3>1
    <3>. QED BY <2>3, <3>1, <3>2
  <2>9. G
    BY <1>4, <1>5, <1>12, <2>3, <2>6, <2>7, <2>8
  <2>. QED BY <1>3, <2>9
<1>15. CASE Duplicate
  <2>1. PICK k \in 1..Len(toServer) : toServer' = Append(toServer, toServer[k])
    BY <1>15 DEF Duplicate
  <2>2. sender' = sender /\ toClient' = toClient /\ UNCHANGED srvVars
    BY <1>15 DEF Duplicate
  <2>3. PICK d \in Pkt : d = toServer[k] /\ PktOK(d)
    BY <1>4
  <2>4. PktOK(d)'
    BY <1>12, <2>2, <2>3
  <2>5. toServer' \in Seq(Pkt) /\ \A i \in 1..Len(toServer') : PktOK(toServer[i])'
    BY <1>4, <1>12, <2>1, <2>2, <2>3, <2>4, AppendedInv
  <2>6. G
    BY <1>4, <1>5, <1>12, <2>2, <2>5
  <2>. QED BY <1>3, <2>6
<1>16. CASE ServerRestart
  <2>1. sender' = sender /\ toClient' = toClient
    BY <1>16 DEF ServerRestart
  <2>2. Filemsg'.name = NoName
    BY <1>16 DEF ServerRestart, Restart, ZeroFileBlock
  <2>3. toServer' \in Seq(Pkt) /\ Thins(toServer', toServer)
    BY <1>4, <1>16, SuffixThins DEF ServerRestart
  <2>4. \A i \in 1..Len(toServer') : PktOK(toServer[i])'
    BY <2>1, <2>3, ThinnedInv
  <2>5. G
    BY <1>4, <1>12, <2>1, <2>2, <2>3, <2>4
  <2>. QED BY <1>3, <2>5
<1>17. CASE Finish \/ UNCHANGED vars
  <2>1. sender' = sender /\ toServer' = toServer /\ toClient' = toClient /\ Filemsg' = Filemsg
    BY <1>17 DEF Finish, Move, SetTime, vars, srvVars, memory, cliVars
  <2>2. \A i \in 1..Len(toServer') : PktOK(toServer[i])'
    <3>. SUFFICES ASSUME NEW i \in 1..Len(toServer) PROVE PktOK(toServer[i])'
      BY <2>1
    <3>1. PICK e \in Pkt : e = toServer[i] /\ PktOK(e)
      BY <1>4
    <3>2. PktOK(e)'
      BY <1>12, <2>1, <3>1
    <3>. QED BY <2>1, <3>1, <3>2
  <2>3. Filemsg'.name # NoName => Described(Filemsg)'
    BY <1>4, <2>1 DEF Described
  <2>4. G
    BY <1>4, <1>12, <2>1, <2>2, <2>3
  <2>. QED BY <1>3, <2>4
<1>. HIDE DEF G
<1>. QED BY <1>3, <1>6, <1>8, <1>9, <1>10, <1>11, <1>13, <1>14, <1>15, <1>16, <1>17 DEF Next

-----------------------------------------------------------------------------
(* Init.                                                                   *)

\* At first nothing is on its way, announced or published.
LEMMA TransferInit ==
  Init => TransferInv /\ OrderInv /\ FinishCurrent /\ Intact /\ \A p \in Process : AnswerTrue(p)
<1>. SUFFICES ASSUME Init PROVE TransferInv /\ OrderInv /\ FinishCurrent /\ Intact /\ \A p \in Process : AnswerTrue(p)
  OBVIOUS
<1>1. SrvInv
  BY InitInv DEF Init
<1>2. IdleSender \in Sender
  BY DEF IdleSender, Sender, ZeroHead, MsgHead, Type
<1>3. /\ sender \in [Process -> Sender] /\ toClient \in [Process -> Seq(MsgHead)] /\ toServer \in Seq(Pkt)
      /\ toServer = <<>> /\ Len(toServer) = 0
      /\ \A p \in Process : /\ toClient[p] = <<>> /\ Len(toClient[p]) = 0
                            /\ sender[p].pc = "idle" /\ sender[p].said = "nothing"
  BY <1>2, EmptySeq DEF Init, CliInit, IdleSender
<1>4. NetTypeOK
  BY <1>3, FaultsAssumption DEF Init, NetTypeOK
<1>5. /\ Filemsg.name = NoName /\ fd.kind = "stdin" /\ finishing = "no" /\ \A n \in Name : final[n] = NoInode
  BY DEF Init, SrvInit, ZeroFileBlock, StdinFd
<1>6. \A p \in Process : SenderOK(p) /\ ~Running(p) /\ PhaseOK(p) /\ ~Answered(p) /\ AnswerTrue(p)
  BY <1>3 DEF SenderOK, Running, PhaseOK, Answered, AnswerTrue
<1>7. TransferInv
  BY <1>1, <1>3, <1>4, <1>5, <1>6 DEF TransferInv
<1>8. OrderInv /\ FinishCurrent /\ Intact
  BY <1>3, <1>5, <1>6 DEF OrderInv, OneRuns, QueueShape, SendersCurrent, QueueCurrent, OpenIsUpload, FinishCurrent, Intact
<1>. QED BY <1>6, <1>7, <1>8

-----------------------------------------------------------------------------
(* OrderInv is inductive while the network is orderly.                     *)

\* Who has the receiver's attention keeps it while the receiver rests.
LEMMA CurrentKept ==
  ASSUME NEW p \in Process, Current(p), sender'[p].name = sender[p].name, happened \subseteq happened',
         Filemsg' = Filemsg, file_path' = file_path \/ file_path' = <<>>
  PROVE  Current(p)'
BY DEF Current

\* A sender is started when no other runs.
LEMMA StartOrder ==
  ASSUME TransferInv, OrderInv, NEW p \in Process, NEW n \in Name, Announce(p, n), UNCHANGED srvVars,
         \A q \in Process : ~Running(q), happened \subseteq happened'
  PROVE  OrderInv'
<1>1. PICK d \in Pkt : d.src = p /\ IsReq(d.msg) /\ d.msg.block.name = n /\ toServer' = Append(toServer, d)
  BY StartInv
<1>2. /\ sender' \in [Process -> Sender] /\ toClient' = toClient
      /\ sender'[p] = [sender[p] EXCEPT !.pc = "waitReq", !.name = n] /\ sender[p].pc = "idle"
      /\ \A q \in Process : q # p => sender'[q] = sender[q]
  BY StartInv
<1>3. /\ toServer \in Seq(Pkt) /\ sender[p] \in Sender
      /\ \A k \in 1..Len(toServer) : toServer[k].src \in Process /\ toServer[k].src # p
  <2>1. toServer \in Seq(Pkt) /\ sender[p] \in Sender
    BY DEF TransferInv, NetTypeOK
  <2>2. ASSUME NEW k \in 1..Len(toServer) PROVE toServer[k].src \in Process /\ toServer[k].src # p
    <3>1. toServer[k] \in Pkt /\ PktOK(toServer[k])
      BY <2>1 DEF TransferInv
    <3>. QED BY <1>2, <3>1 DEF Pkt, PktOK
  <2>. QED BY <2>1, <2>2
<1>4. sender'[p].pc = "waitReq" /\ sender'[p].name = n
  BY <1>2, <1>3 DEF Sender
<1>5. \A q \in Process : toClient[q] = <<>> /\ (q # p => ~Running(q)')
  BY <1>2 DEF TransferInv, Running
<1>6. \A q \in Process : ~Answered(q)' /\ sender'[q].pc \notin {"waitFile", "waitFinish"}
  BY <1>2, <1>4, <1>5 DEF Answered, Running
<1>7. /\ Len(toServer') = Len(toServer) + 1 /\ toServer'[Len(toServer) + 1] = d
      /\ \A k \in 1..Len(toServer) : toServer'[k] = toServer[k]
      /\ Len(toServer) \in Nat
  BY <1>1, <1>3
<1>8. \A k \in 1..Len(toServer') : k \in 1..Len(toServer) \/ k = Len(toServer) + 1
  BY <1>7
<1>9. OneRuns'
  BY <1>5 DEF OneRuns
<1>10. ~IsData(d.msg)
  BY <1>1 DEF IsReq, IsData, CMD_SEND_FILE, CMD_SEND_FILEMSG_REQ
<1>11. QueueShape'
  <2>. SUFFICES ASSUME NEW i \in 1..Len(toServer'), NEW j \in 1..Len(toServer'), i < j,
                       ~IsData(toServer'[i].msg)
                PROVE  IsReq(toServer'[j].msg)
    BY DEF QueueShape, IsData, IsReq
  <2>1. CASE j = Len(toServer) + 1
    BY <1>1, <1>7, <2>1
  <2>2. CASE j \in 1..Len(toServer)
    <3>1. i \in 1..Len(toServer)
      BY <2>2
    <3>. QED BY <1>7, <2>2, <3>1 DEF OrderInv, QueueShape
  <2>. QED BY <1>8, <2>1, <2>2
<1>12. ASSUME NEW q \in Process PROVE PhaseOK(q)'
  <2>1. CASE q = p
    <3>1. \A k \in 1..Len(toServer') : toServer'[k].src = p => k = Len(toServer') /\ IsReq(toServer'[k].msg)
      BY <1>1, <1>3, <1>7, <1>8
    <3>. QED BY <1>4, <1>6, <2>1, <3>1 DEF PhaseOK, IsReq
  <2>2. CASE q # p
    BY <1>5, <1>6, <2>2 DEF PhaseOK, Running
  <2>. QED BY <2>1, <2>2
<1>13. SendersCurrent'
  BY <1>6 DEF SendersCurrent
<1>14. QueueCurrent'
  <2>. SUFFICES ASSUME NEW k \in 1..Len(toServer'), ~IsReq(toServer'[k].msg) PROVE Current(toServer[k].src)'
    BY DEF QueueCurrent, IsReq
  <2>1. k \in 1..Len(toServer) /\ toServer'[k] = toServer[k]
    BY <1>1, <1>7, <1>8
  <2>2. PICK r \in Process : r = toServer[k].src /\ Current(r) /\ r # p
    BY <1>3, <2>1 DEF OrderInv, QueueCurrent
  <2>3. Current(r)'
    BY <1>2, <2>2, CurrentKept DEF srvVars, memory
  <2>. QED BY <2>1, <2>2, <2>3
<1>15. OpenIsUpload'
  <2>1. BlocksToCome' => BlocksToCome
    <3>. SUFFICES ASSUME NEW k \in 1..Len(toServer'), IsData(toServer'[k].msg) PROVE BlocksToCome
      BY <1>6 DEF BlocksToCome, IsData
    <3>1. k \in 1..Len(toServer) /\ toServer'[k] = toServer[k]
      BY <1>7, <1>8, <1>10
    <3>. QED BY <3>1 DEF BlocksToCome
  <2>. QED BY <2>1 DEF OrderInv, OpenIsUpload, srvVars, memory
<1>. QED BY <1>9, <1>11, <1>12, <1>13, <1>14, <1>15 DEF OrderInv

\* A sender ends: nothing else changes.
LEMMA EndOrder ==
  ASSUME TransferInv, OrderInv, NEW p \in Process, Moved(p), HasEnded(p), UNCHANGED srvVars,
         happened \subseteq happened'
  PROVE  OrderInv'
<1>1. /\ toServer' = toServer /\ Filemsg' = Filemsg /\ file_path' = file_path /\ fd' = fd
      /\ finishing' = finishing /\ sender'[p].pc = "ended" /\ toClient'[p] = <<>>
      /\ \A q \in Process : q # p => sender'[q] = sender[q] /\ toClient'[q] = toClient[q]
  BY DEF HasEnded, Moved, srvVars, memory
<1>2. \A q \in Process : (Running(q)' => Running(q) /\ q # p) /\ (Answered(q)' => Answered(q) /\ q # p)
  BY <1>1 DEF Running, Answered
<1>3. \A q \in Process : sender'[q].name = sender[q].name
  BY <1>1 DEF Moved
<1>4. \A q \in Process : Current(q) => Current(q)'
  BY <1>1, <1>3, CurrentKept
<1>5. OneRuns' /\ QueueShape'
  BY <1>1, <1>2 DEF OrderInv, OneRuns, QueueShape
<1>6. ASSUME NEW q \in Process PROVE PhaseOK(q)'
  <2>1. PhaseOK(q)
    BY DEF OrderInv
  <2>. QED BY <1>1, <1>2, <2>1 DEF PhaseOK
<1>7. SendersCurrent'
  BY <1>1, <1>2, <1>4 DEF OrderInv, SendersCurrent
<1>8. QueueCurrent'
  <2>. SUFFICES ASSUME NEW k \in 1..Len(toServer), ~IsReq(toServer[k].msg) PROVE Current(toServer[k].src)'
    BY <1>1 DEF QueueCurrent
  <2>1. toServer[k].src \in Process
    <3>1. toServer[k] \in Pkt
      BY DEF TransferInv, NetTypeOK
    <3>. QED BY <3>1 DEF Pkt
  <2>2. PICK r \in Process : r = toServer[k].src /\ Current(r)
    BY <2>1 DEF OrderInv, QueueCurrent
  <2>3. Current(r)'
    BY <1>4, <2>2
  <2>. QED BY <1>1, <2>2, <2>3
<1>9. OpenIsUpload'
  <2>1. BlocksToCome' => BlocksToCome
    BY <1>1, <1>2 DEF BlocksToCome
  <2>. QED BY <1>1, <2>1 DEF OrderInv, OpenIsUpload
<1>. QED BY <1>5, <1>6, <1>7, <1>8, <1>9 DEF OrderInv

\* A sender goes on: everything else that it has not sent itself has been received.
LEMMA GoOnOrder ==
  ASSUME TransferInv, OrderInv, NEW p \in Process, Moved(p), Running(p), GoesOn(p), UNCHANGED srvVars,
         happened \subseteq happened'
  PROVE  OrderInv'
<1>1. /\ Filemsg' = Filemsg /\ file_path' = file_path /\ fd' = fd /\ finishing' = finishing
      /\ \A q \in Process : q # p => sender'[q] = sender[q] /\ toClient'[q] = toClient[q]
      /\ toServer \in Seq(Pkt) /\ PhaseOK(p)
  BY DEF Moved, srvVars, memory, TransferInv, NetTypeOK, OrderInv
<1>2. PICK m \in Seq(Pkt) :
        /\ toServer' = toServer \o m
        /\ \A k \in 1..Len(m) : m[k].src = p
        /\ \/ sender'[p].pc = "waitFile" /\ \A k \in 1..Len(m) : m[k].msg \in Blocks
           \/ /\ sender[p].pc = "waitFile" /\ sender'[p].pc = "waitFinish"
              /\ Len(m) = 1 /\ m[1].msg = FinishMsg
  BY DEF GoesOn
<1>3. \A q \in Process : q # p => ~Running(q) /\ ~Running(q)' /\ ~Answered(q)'
  <2>1. \A q \in Process : q # p => ~Running(q)
    BY DEF OrderInv, OneRuns
  <2>. QED BY <1>1, <2>1 DEF Running, Answered
<1>4. \A k \in 1..Len(toServer) : IsData(toServer[k].msg)
  <2>1. CASE sender[p].pc = "waitFile"
    BY <1>1, <2>1 DEF PhaseOK
  <2>2. CASE Answered(p)
    BY <1>1, <2>2 DEF PhaseOK
  <2>. QED BY <2>1, <2>2 DEF GoesOn
<1>5. /\ Len(toServer') = Len(toServer) + Len(m) /\ Len(toServer) \in Nat /\ Len(m) \in Nat
      /\ \A k \in 1..Len(toServer') :
           \/ k \in 1..Len(toServer) /\ toServer'[k] = toServer[k]
           \/ k - Len(toServer) \in 1..Len(m) /\ toServer'[k] = m[k - Len(toServer)]
  BY <1>1, <1>2, ConcatProperties
<1>6. /\ \A x : IsData(x) => ~IsReq(x)
      /\ \A x \in Blocks : IsData(x)
      /\ ~IsReq(FinishMsg)
  BY DEF IsData, IsReq, Blocks, FinishMsg, CMD_SEND_FILE, CMD_SEND_FILEMSG_REQ, CMD_SEND_FINISH
<1>7. sender'[p].pc = "waitFile" => \A k \in 1..Len(toServer') : IsData(toServer'[k].msg)
  BY <1>2, <1>4, <1>5, <1>6
<1>8. \A k \in 1..Len(toServer') : ~IsReq(toServer'[k].msg)
  BY <1>2, <1>4, <1>5, <1>6
<1>9. \A i, j \in 1..Len(toServer') : i < j => IsData(toServer'[i].msg)
  <2>1. CASE sender'[p].pc = "waitFile"
    BY <1>7, <2>1
  <2>2. CASE Len(m) = 1
    BY <1>4, <1>5, <2>2
  <2>. QED BY <1>2, <2>1, <2>2
<1>10. sender'[p].pc \in {"waitFile", "waitFinish"}
  BY <1>2
<1>11. OneRuns' /\ QueueShape'
  <2>1. OneRuns'
    BY <1>3 DEF OneRuns
  <2>2. QueueShape'
    BY <1>9 DEF QueueShape, IsData
  <2>. QED BY <2>1, <2>2
<1>12. ASSUME NEW q \in Process PROVE PhaseOK(q)'
  <2>1. CASE q = p
    BY <1>7, <1>8, <1>10, <2>1 DEF PhaseOK, Answered, IsData, IsReq
  <2>2. CASE q # p
    BY <1>3, <2>2 DEF PhaseOK, Running
  <2>. QED BY <2>1, <2>2
<1>13. Current(p) /\ sender'[p].name = sender[p].name
  BY DEF OrderInv, SendersCurrent, GoesOn, Moved
<1>14. \A q \in Process : Current(q) => Current(q)'
  BY <1>1, <1>13, CurrentKept
<1>15. SendersCurrent'
  BY <1>3, <1>13, <1>14 DEF SendersCurrent, Running
<1>16. QueueCurrent'
  <2>. SUFFICES ASSUME NEW k \in 1..Len(toServer') PROVE Current(toServer[k].src)'
    BY DEF QueueCurrent
  <2>1. CASE k \in 1..Len(toServer) /\ toServer'[k] = toServer[k]
    <3>1. toServer[k] \in Pkt
      BY <1>1, <2>1
    <3>2. PICK r \in Process : r = toServer[k].src /\ Current(r)
      BY <1>4, <1>6, <2>1, <3>1 DEF OrderInv, QueueCurrent, Pkt
    <3>3. Current(r)'
      BY <1>14, <3>2
    <3>. QED BY <2>1, <3>2, <3>3
  <2>2. CASE k - Len(toServer) \in 1..Len(m) /\ toServer'[k] = m[k - Len(toServer)]
    <3>1. toServer'[k].src = p
      BY <1>2, <2>2
    <3>2. Current(p)'
      BY <1>13, <1>14
    <3>. QED BY <3>1, <3>2
  <2>. QED BY <1>5, <2>1, <2>2
<1>17. OpenIsUpload'
  <2>1. BlocksToCome
    BY DEF BlocksToCome, GoesOn
  <2>. QED BY <1>1, <2>1 DEF OrderInv, OpenIsUpload
<1>. QED BY <1>11, <1>12, <1>15, <1>16, <1>17 DEF OrderInv

\* What an ordered queue loses does not disorder it.
LEMMA ThinnedOrder ==
  ASSUME TransferInv, OrderInv, toServer' \in Seq(Pkt), Thins(toServer', toServer), sender' = sender
  PROVE  /\ QueueShape'
         /\ \A q \in Process :
              /\ sender[q].pc = "waitReq" =>
                   \A i \in 1..Len(toServer') :
                     toServer'[i].src = q => i = Len(toServer') /\ IsReq(toServer'[i].msg)
              /\ sender[q].pc = "waitFile" => \A i \in 1..Len(toServer') : IsData(toServer'[i].msg)
              /\ sender[q].pc = "waitFinish" => \A i \in 1..Len(toServer') : ~IsReq(toServer'[i].msg)
<1>2. toServer' \in Seq(Pkt) /\ Thins(toServer', toServer)
  OBVIOUS
<1>3. QueueShape'
  <2>. SUFFICES ASSUME NEW i \in 1..Len(toServer'), NEW j \in 1..Len(toServer'), i < j,
                       ~IsData(toServer'[i].msg)
                PROVE  IsReq(toServer'[j].msg)
    BY DEF QueueShape, IsData, IsReq
  <2>1. PICK a \in 1..Len(toServer), b \in 1..Len(toServer) :
          a < b /\ toServer'[i] = toServer[a] /\ toServer'[j] = toServer[b]
    BY <1>2 DEF Thins
  <2>. QED BY <2>1 DEF OrderInv, QueueShape
<1>4. ASSUME NEW q \in Process, sender[q].pc = "waitReq", NEW i \in 1..Len(toServer'), toServer'[i].src = q
      PROVE  i = Len(toServer') /\ IsReq(toServer'[i].msg)
  <2>1. PhaseOK(q) /\ Len(toServer') \in Nat
    BY <1>2 DEF OrderInv
  <2>2. IsReq(toServer'[i].msg)
    BY <1>2, <1>4, <2>1 DEF PhaseOK, Thins
  <2>3. ~(i < Len(toServer'))
    <3>. SUFFICES ASSUME i < Len(toServer') PROVE FALSE
      OBVIOUS
    <3>1. PICK a \in 1..Len(toServer) : a < Len(toServer) /\ toServer'[i] = toServer[a]
      BY <1>2 DEF Thins
    <3>2. a = Len(toServer)
      BY <1>4, <2>1, <3>1 DEF PhaseOK
    <3>. QED BY <3>1, <3>2
  <2>. QED BY <2>1, <2>2, <2>3
<1>5. ASSUME NEW q \in Process, NEW i \in 1..Len(toServer')
      PROVE  /\ sender[q].pc = "waitFile" => IsData(toServer'[i].msg)
             /\ sender[q].pc = "waitFinish" => ~IsReq(toServer'[i].msg)
  <2>1. PhaseOK(q)
    BY DEF OrderInv
  <2>2. PICK a \in 1..Len(toServer) : toServer'[i] = toServer[a]
    BY <1>2 DEF Thins
  <2>. QED BY <2>1, <2>2 DEF PhaseOK
<1>. QED BY <1>3, <1>4, <1>5

\* The queue's senders keep the receiver's attention when only the queue is thinned.
LEMMA ThinnedCurrent ==
  ASSUME TransferInv, OrderInv, Thins(toServer', toServer), sender' = sender, happened \subseteq happened',
         Filemsg' = Filemsg, file_path' = file_path \/ file_path' = <<>>
  PROVE  /\ QueueCurrent'
         /\ \A q \in Process : Current(q) => Current(q)'
<1>1. toServer \in Seq(Pkt)
  BY DEF TransferInv, NetTypeOK
<1>2. Thins(toServer', toServer)
  OBVIOUS
<1>3. \A q \in Process : Current(q) => Current(q)'
  BY CurrentKept
<1>4. QueueCurrent'
  <2>. SUFFICES ASSUME NEW i \in 1..Len(toServer'), ~IsReq(toServer'[i].msg) PROVE Current(toServer[i].src)'
    BY DEF QueueCurrent, IsReq
  <2>1. PICK a \in 1..Len(toServer) : toServer'[i] = toServer[a]
    BY <1>2 DEF Thins
  <2>2. toServer[a] \in Pkt
    BY <1>1
  <2>3. PICK r \in Process : r = toServer[a].src /\ Current(r)
    BY <2>1, <2>2 DEF OrderInv, QueueCurrent, Pkt
  <2>4. Current(r)'
    BY <1>3, <2>3
  <2>. QED BY <2>1, <2>3, <2>4
<1>. QED BY <1>3, <1>4

\* A request, a block or a FINISH is lost.
LEMMA LoseRequestOrder ==
  ASSUME TransferInv, OrderInv, LoseRequest, happened \subseteq happened'
  PROVE  OrderInv'
<1>1. PICK k \in 1..Len(toServer) : toServer' = RemoveAt(toServer, k)
  BY DEF LoseRequest
<1>2. /\ sender' = sender /\ toClient' = toClient /\ Filemsg' = Filemsg /\ file_path' = file_path
      /\ fd' = fd /\ finishing' = finishing /\ toServer \in Seq(Pkt)
  BY DEF LoseRequest, srvVars, memory, TransferInv, NetTypeOK
<1>10. toServer' \in Seq(Pkt) /\ Thins(toServer', toServer)
  BY <1>1, <1>2, RemoveThins
<1>3. /\ QueueShape'
      /\ \A q \in Process :
           /\ sender[q].pc = "waitReq" =>
                \A i \in 1..Len(toServer') :
                  toServer'[i].src = q => i = Len(toServer') /\ IsReq(toServer'[i].msg)
           /\ sender[q].pc = "waitFile" => \A i \in 1..Len(toServer') : IsData(toServer'[i].msg)
           /\ sender[q].pc = "waitFinish" => \A i \in 1..Len(toServer') : ~IsReq(toServer'[i].msg)
  BY <1>2, <1>10, ThinnedOrder
<1>4. QueueCurrent' /\ \A q \in Process : Current(q) => Current(q)'
  BY <1>2, <1>10, ThinnedCurrent
<1>5. \A q \in Process : ~Answered(q) /\ ~Answered(q)'
  BY <1>1, <1>2 DEF OrderInv, PhaseOK, Answered
<1>6. OneRuns'
  BY <1>2 DEF OrderInv, OneRuns, Running
<1>7. ASSUME NEW q \in Process PROVE PhaseOK(q)'
  BY <1>2, <1>3, <1>5 DEF PhaseOK, IsReq, IsData
<1>8. SendersCurrent'
  BY <1>2, <1>4, <1>5 DEF OrderInv, SendersCurrent
<1>9. OpenIsUpload'
  <2>2. BlocksToCome' => BlocksToCome
    BY <1>2, <1>5, <1>10, ZenonT(60) DEF BlocksToCome, Thins, IsData
  <2>. QED BY <1>2, <2>2 DEF OrderInv, OpenIsUpload
<1>. QED BY <1>3, <1>4, <1>6, <1>7, <1>8, <1>9 DEF OrderInv

\* Nobody is answered who was not, and everything else stays.
LEMMA QuietOrder ==
  ASSUME TransferInv, OrderInv, sender' = sender, toServer' = toServer, Filemsg' = Filemsg,
         \/ file_path' = file_path /\ finishing' = finishing
         \/ file_path' \in {file_path, <<>>} /\ finishing # "no",
         fd' = fd, \A q \in Process : toClient'[q] # <<>> => toClient[q] # <<>>,
         happened \subseteq happened'
  PROVE  OrderInv'
<1>1. \A q \in Process : Answered(q)' => Answered(q)
  BY DEF Answered
<1>2. \A q \in Process : Current(q) => Current(q)'
  BY CurrentKept
<1>3. OneRuns' /\ QueueShape'
  BY DEF OrderInv, OneRuns, Running, QueueShape
<1>4. ASSUME NEW q \in Process PROVE PhaseOK(q)'
  <2>1. PhaseOK(q)
    BY DEF OrderInv
  <2>. QED BY <1>1, <2>1 DEF PhaseOK
<1>5. SendersCurrent'
  BY <1>1, <1>2 DEF OrderInv, SendersCurrent
<1>6. QueueCurrent'
  <2>. SUFFICES ASSUME NEW k \in 1..Len(toServer), ~IsReq(toServer[k].msg) PROVE Current(toServer[k].src)'
    BY DEF QueueCurrent
  <2>1. toServer[k] \in Pkt
    BY DEF TransferInv, NetTypeOK
  <2>2. PICK r \in Process : r = toServer[k].src /\ Current(r)
    BY <2>1 DEF OrderInv, QueueCurrent, Pkt
  <2>3. Current(r)'
    BY <1>2, <2>2
  <2>. QED BY <2>2, <2>3
<1>7. OpenIsUpload'
  <2>1. BlocksToCome' => BlocksToCome
    BY <1>1 DEF BlocksToCome
  <2>. QED BY <2>1 DEF OrderInv, OpenIsUpload
<1>. QED BY <1>3, <1>4, <1>5, <1>6, <1>7 DEF OrderInv

\* A restart shortens the queue and empties the receiver's memory.
LEMMA RestartOrder ==
  ASSUME TransferInv, OrderInv, ServerRestart
  PROVE  OrderInv'
<1>0. toServer \in Seq(Pkt)
  BY DEF TransferInv, NetTypeOK
<1>1. /\ sender' = sender /\ toClient' = toClient /\ "restart" \in happened'
      /\ file_path' = <<>> /\ fd'.kind = "stdin" /\ finishing' = "no"
  BY DEF ServerRestart, Fault, Restart, ClearPaths, StdinFd
<1>2. \A q : Current(q)'
  BY <1>1 DEF Current
<1>3. OneRuns'
  BY <1>1 DEF OrderInv, OneRuns, Running
<1>4. toServer' \in Seq(Pkt) /\ Thins(toServer', toServer)
  BY <1>0, SuffixThins DEF ServerRestart
<1>5. /\ QueueShape'
      /\ \A q \in Process :
           /\ sender[q].pc = "waitReq" =>
                \A i \in 1..Len(toServer') :
                  toServer'[i].src = q => i = Len(toServer') /\ IsReq(toServer'[i].msg)
           /\ sender[q].pc = "waitFile" => \A i \in 1..Len(toServer') : IsData(toServer'[i].msg)
           /\ sender[q].pc = "waitFinish" => \A i \in 1..Len(toServer') : ~IsReq(toServer'[i].msg)
  BY <1>1, <1>4, ThinnedOrder
<1>6. toServer = <<>> => toServer' = <<>>
  <2>. SUFFICES ASSUME toServer = <<>> PROVE toServer' = <<>>
    OBVIOUS
  <2>1. Len(toServer') \in Nat /\ Len(toServer') <= 0
    BY <1>4 DEF Thins
  <2>. QED BY <1>4, <2>1, EmptySeq
<1>7. ASSUME NEW q \in Process PROVE PhaseOK(q)'
  <2>1. Answered(q)' => toServer' = <<>>
    BY <1>1, <1>6 DEF OrderInv, PhaseOK, Answered
  <2>. QED BY <1>1, <1>5, <2>1 DEF PhaseOK, IsReq, IsData
<1>8. QueueCurrent' /\ SendersCurrent' /\ OpenIsUpload'
  BY <1>1, <1>2 DEF QueueCurrent, SendersCurrent, OpenIsUpload
<1>. QED BY <1>3, <1>5, <1>7, <1>8 DEF OrderInv

\* The receiver takes the first datagram: what that does to the queue and the answers.
LEMMA DeliverFacts ==
  ASSUME TransferInv, SrvInv', OrderInv, toServer # <<>>, Handled(1)
  PROVE  /\ 1 \in 1..Len(toServer) /\ toServer[1].src \in Process /\ PktOK(toServer[1])
         /\ toServer[1].msg \in Sent
         /\ sender' = sender /\ toServer' = RemoveAt(toServer, 1)
         /\ Thins(toServer', toServer) /\ QueueShape'
         /\ Len(toServer) = 1 => toServer' = <<>>
         /\ OneRuns'
         /\ \A q \in Process : ~Answered(q)
         /\ \A q \in Process : Answered(q)' =>
              /\ sender[q].pc = "waitReq" /\ q = toServer[1].src /\ IsReq(toServer[1].msg) /\ toServer' = <<>>
         /\ \A q \in Process : PhaseOK(q)'
<1>1. toServer \in Seq(Pkt) /\ 1 \in 1..Len(toServer)
  BY DEF TransferInv, NetTypeOK
<1>2. /\ sender' = sender /\ toServer' = RemoveAt(toServer, 1)
      /\ toServer[1].src \in Process /\ PktOK(toServer[1]) /\ toServer[1].msg \in Sent
      /\ \A q \in Process : toClient'[q] = toClient[q] \/ q = toServer[1].src
  BY <1>1, HandledLemma
<1>3. toServer' \in Seq(Pkt) /\ Thins(toServer', toServer)
  BY <1>1, <1>2, RemoveThins
<1>4. Len(toServer) = 1 => toServer' = <<>>
  <2>1. Len(toServer') = Len(toServer) - 1
    BY <1>1, <1>2, RemoveLemma
  <2>. QED BY <1>3, <2>1, EmptySeq
<1>5. \A q \in Process : ~Answered(q)
  BY DEF OrderInv, PhaseOK
<1>6. ASSUME NEW q \in Process, Answered(q)'
      PROVE  /\ sender[q].pc = "waitReq" /\ q = toServer[1].src /\ IsReq(toServer[1].msg) /\ toServer' = <<>>
  <2>1. sender[q].pc = "waitReq" /\ toClient'[q] # <<>>
    BY <1>2, <1>6 DEF Answered
  <2>2. q = toServer[1].src
    BY <1>2, <1>5, <2>1 DEF Answered
  <2>3. 1 = Len(toServer) /\ IsReq(toServer[1].msg)
    BY <1>1, <2>1, <2>2 DEF OrderInv, PhaseOK
  <2>. QED BY <1>4, <2>1, <2>2, <2>3
<1>7. OneRuns'
  BY <1>2 DEF OrderInv, OneRuns, Running
<1>8. /\ QueueShape'
      /\ \A q \in Process :
           /\ sender[q].pc = "waitReq" =>
                \A i \in 1..Len(toServer') :
                  toServer'[i].src = q => i = Len(toServer') /\ IsReq(toServer'[i].msg)
           /\ sender[q].pc = "waitFile" => \A i \in 1..Len(toServer') : IsData(toServer'[i].msg)
           /\ sender[q].pc = "waitFinish" => \A i \in 1..Len(toServer') : ~IsReq(toServer'[i].msg)
  BY <1>2, <1>3, ThinnedOrder
<1>9. ASSUME NEW q \in Process PROVE PhaseOK(q)'
  BY <1>2, <1>6, <1>8 DEF PhaseOK, IsReq, IsData
<1>. QED BY <1>1, <1>2, <1>3, <1>4, <1>5, <1>6, <1>7, <1>8, <1>9

\* A request is received: the receiver turns to the file of its sender, the only one running.
LEMMA DeliverReqOrder ==
  ASSUME TransferInv, SrvInv', OrderInv, toServer # <<>>, Handled(1), IsReq(toServer[1].msg),
         cmd_reqsend_deel(toServer[1].msg), finishing = "no"
  PROVE  OrderInv'
<1>1. /\ 1 \in 1..Len(toServer) /\ PktOK(toServer[1]) /\ sender' = sender
      /\ Thins(toServer', toServer) /\ QueueShape' /\ OneRuns' /\ \A q \in Process : PhaseOK(q)'
      /\ \A q \in Process : Answered(q)' => q = toServer[1].src
      /\ toServer[1].msg \in Sent
  BY DeliverFacts
<1>2. ~IsData(toServer[1].msg) /\ toServer[1].msg.block.name \in Name
  BY <1>1, SentLemma
<1>3. \A k \in 1..Len(toServer) : IsReq(toServer[k].msg)
  BY <1>1, <1>2 DEF OrderInv, QueueShape
<1>4. \A k \in 1..Len(toServer') : IsReq(toServer'[k].msg)
  BY <1>1, <1>3 DEF Thins
<1>5. Filemsg'.name = sender[toServer[1].src].name
  BY <1>1 DEF PktOK, cmd_reqsend_deel
<1>6. SendersCurrent'
  <2>. SUFFICES ASSUME NEW q \in Process, sender'[q].pc \in {"waitFile", "waitFinish"} \/ Answered(q)'
                PROVE  Current(q)'
    BY DEF SendersCurrent
  <2>1. PhaseOK(q) /\ sender[q].pc \notin {"waitFile", "waitFinish"}
    BY <1>1, <1>2 DEF OrderInv, PhaseOK
  <2>2. q = toServer[1].src
    BY <1>1, <2>1
  <2>. QED BY <1>1, <1>5, <2>2 DEF Current
<1>7. QueueCurrent'
  BY <1>4 DEF QueueCurrent, IsReq
<1>8. file_path' # <<>>
  BY <1>2 DEF cmd_reqsend_deel, AppendPaths, TransferInv, SrvInv, SrvTypeOK
<1>9. OpenIsUpload'
  BY <1>8 DEF OpenIsUpload, cmd_reqsend_deel
<1>. QED BY <1>1, <1>6, <1>7, <1>9 DEF OrderInv

\* A block is received: written to the file of the upload in progress, to the terminal, or nowhere.
LEMMA DeliverDataOrder ==
  ASSUME TransferInv, SrvInv', OrderInv, toServer # <<>>, Handled(1), IsData(toServer[1].msg),
         cmd_revfile(toServer[1].msg), happened \subseteq happened'
  PROVE  OrderInv'
<1>1. /\ 1 \in 1..Len(toServer) /\ sender' = sender /\ Thins(toServer', toServer)
      /\ QueueShape' /\ OneRuns' /\ \A q \in Process : PhaseOK(q)'
      /\ \A q \in Process : Answered(q)' => IsReq(toServer[1].msg)
  BY DeliverFacts
<1>2. \A q \in Process : ~Answered(q)'
  BY <1>1 DEF IsReq, IsData, CMD_SEND_FILE, CMD_SEND_FILEMSG_REQ
<1>3. /\ Filemsg' = Filemsg /\ (file_path' = file_path \/ file_path' = <<>>)
      /\ fd'.kind = "file" => fd.kind = "file" /\ file_path' = file_path
      /\ finishing' = finishing
  <2>1. CASE WriteFile(toServer[1].msg)
    BY <2>1 DEF cmd_revfile, WriteFile
  <2>2. CASE WriteStdin(toServer[1].msg)
    BY <2>2 DEF cmd_revfile, WriteStdin
  <2>3. CASE WriteFails(toServer[1].msg)
    BY <2>3 DEF cmd_revfile, WriteFails, ClearPaths, NoFd
  <2>. QED BY <2>1, <2>2, <2>3 DEF cmd_revfile
<1>4. QueueCurrent' /\ \A q \in Process : Current(q) => Current(q)'
  BY <1>1, <1>3, ThinnedCurrent
<1>5. SendersCurrent'
  BY <1>1, <1>2, <1>4 DEF OrderInv, SendersCurrent
<1>6. OpenIsUpload'
  <2>1. BlocksToCome
    BY <1>1 DEF BlocksToCome
  <2>. QED BY <1>3, <2>1 DEF OrderInv, OpenIsUpload
<1>. QED BY <1>1, <1>4, <1>5, <1>6 DEF OrderInv

\* FINISH is received: no block is to come until the next request.
LEMMA DeliverFinishOrder ==
  ASSUME TransferInv, SrvInv', OrderInv, toServer # <<>>, Handled(1), IsFinish(toServer[1].msg),
         cmd_revfilefinsh(toServer[1].msg), happened \subseteq happened'
  PROVE  OrderInv'
<1>1. /\ 1 \in 1..Len(toServer) /\ sender' = sender /\ Thins(toServer', toServer)
      /\ QueueShape' /\ OneRuns' /\ \A q \in Process : PhaseOK(q)'
      /\ \A q \in Process : Answered(q)' => IsReq(toServer[1].msg)
  BY DeliverFacts
<1>2. ~IsReq(toServer[1].msg) /\ ~IsData(toServer[1].msg)
  BY DEF IsReq, IsFinish, IsData, CMD_SEND_FINISH, CMD_SEND_FILE, CMD_SEND_FILEMSG_REQ
<1>3. Filemsg' = Filemsg /\ (file_path' = file_path \/ file_path' = <<>>)
  BY DEF cmd_revfilefinsh, ClearPaths
<1>4. QueueCurrent' /\ \A q \in Process : Current(q) => Current(q)'
  BY <1>1, <1>3, ThinnedCurrent
<1>5. SendersCurrent'
  BY <1>1, <1>2, <1>4 DEF OrderInv, SendersCurrent
<1>6. ~BlocksToCome'
  <2>1. \A k \in 1..Len(toServer) : ~IsData(toServer[k].msg)
    <3>. SUFFICES ASSUME NEW k \in 1..Len(toServer) PROVE ~IsData(toServer[k].msg)
      OBVIOUS
    <3>1. k = 1 \/ 1 < k
      OBVIOUS
    <3>2. IsReq(toServer[k].msg) => ~IsData(toServer[k].msg)
      BY DEF IsReq, IsData, CMD_SEND_FILE, CMD_SEND_FILEMSG_REQ
    <3>. QED BY <1>1, <1>2, <3>1, <3>2 DEF OrderInv, QueueShape
  <2>2. \A k \in 1..Len(toServer') : ~IsData(toServer'[k].msg)
    BY <1>1, <2>1 DEF Thins
  <2>3. \A q \in Process : sender[q].pc # "waitFile"
    BY <1>1, <1>2 DEF OrderInv, PhaseOK
  <2>. QED BY <1>1, <1>2, <2>2, <2>3 DEF BlocksToCome, IsData
<1>7. OpenIsUpload'
  BY <1>6 DEF OpenIsUpload
<1>. QED BY <1>1, <1>4, <1>5, <1>7 DEF OrderInv

-----------------------------------------------------------------------------
(* What is published stays what the senders have.                          *)

\* Intact is about the store that readers see.
LEMMA IntactIsStore == Intact <=> \A n \in Name : \A f \in store[n] : f.bytes \in Local[n]
BY DEF Intact, store

\* While the store is left alone, what is in it stays intact.
LEMMA StoreIntact ==
  ASSUME Intact, store' = store
  PROVE  Intact'
<1>1. \A n \in Name : \A f \in store[n] : f.bytes \in Local[n]
  BY IntactIsStore
<1>2. \A n \in Name : \A f \in store'[n] : f.bytes \in Local[n]
  BY <1>1
<1>3. Intact' <=> \A n \in Name : \A f \in store'[n] : f.bytes \in Local[n]
  BY DEF Intact, store
<1>. QED BY <1>2, <1>3

\* In an orderly network a datagram in its turn changes nothing that is published.
LEMMA DeliverIntact ==
  ASSUME TransferInv, TransferInv', OrderInv, Intact, toServer # <<>>, Handled(1), onrecv(toServer[1].msg)
  PROVE  Intact'
<1>. DEFINE m == toServer[1].msg
<1>1. /\ 1 \in 1..Len(toServer) /\ toServer[1].src \in Process /\ PktOK(toServer[1]) /\ m \in Sent /\ SrvInv
      /\ toServer[1].src \in Process
  BY DeliverFacts DEF TransferInv
<1>2. m \in Message_t
  BY <1>1, SentLemma
<1>3. ASSUME store' = store PROVE Intact'
  BY <1>3, StoreIntact
<1>0. finishing = "no"
  BY DEF onrecv
<1>. HIDE DEF m
<1>4. CASE IsReq(m) /\ cmd_reqsend_deel(m)
  <2>1. Store!Announce(m.block)
    BY <1>0, <1>1, <1>2, <1>4, RequestAnnounces
  <2>2. store' = store
    BY <2>1 DEF Store!Announce
  <2>. QED BY <1>3, <2>2
<1>5. CASE IsData(m) /\ cmd_revfile(m)
  <2>1. CASE WriteFile(m)
    <3>1. BlocksToCome /\ fd.kind = "file"
      BY <1>1, <1>5, <2>1 DEF BlocksToCome, WriteFile, m
    <3>2. file_path # <<>>
      BY <3>1 DEF OrderInv, OpenIsUpload
    <3>3. \A n \in Name : ~Store!StrayBlock(n)
      BY <1>0, <3>2 DEF Store!StrayBlock, phase
    <3>4. store' = store
      BY <1>0, <1>1, <1>2, <1>5, <2>1, <3>3, WriteHiddenOrStray
    <3>. QED BY <1>3, <3>4
  <2>2. CASE WriteStdin(m) \/ WriteFails(m)
    <3>1. store' = store
      BY <1>5, <2>2, StoreKept DEF cmd_revfile, WriteStdin, WriteFails
    <3>. QED BY <1>3, <3>1
  <2>. QED BY <1>5, <2>1, <2>2 DEF cmd_revfile
<1>6. CASE IsFinish(m) /\ cmd_revfilefinsh(m)
  BY <1>0, <1>1, <1>2, <1>3, <1>6, FinishGivesUp
<1>7. CASE UNCHANGED <<memory, fs>>
  <2>1. store' = store
    BY <1>7, StoreKept DEF fs
  <2>. QED BY <1>3, <2>1
<1>. QED BY <1>4, <1>5, <1>6, <1>7 DEF onrecv, m

\* What a FINISH in its turn has found complete is a file that its sender could read.
LEMMA DeliverCurrent ==
  ASSUME TransferInv, TransferInv', OrderInv, toServer # <<>>, Handled(1), onrecv(toServer[1].msg)
  PROVE  FinishCurrent'
<1>. DEFINE m == toServer[1].msg
            n == sender[toServer[1].src].name
<1>1. /\ 1 \in 1..Len(toServer) /\ toServer[1].src \in Process /\ PktOK(toServer[1])
  BY DeliverFacts DEF TransferInv
<1>2. finishing = "no"
  BY DEF onrecv
<1>3. CASE finishing' = "no"
  BY <1>3 DEF FinishCurrent
<1>4. CASE finishing' # "no"
  <2>1. IsFinish(m) /\ cmd_revfilefinsh(m)
    BY <1>2, <1>4 DEF onrecv, cmd_reqsend_deel, cmd_revfile, memory
  <2>2. ~IsReq(m)
    BY <2>1 DEF IsReq, IsFinish, CMD_SEND_FINISH, CMD_SEND_FILEMSG_REQ
  <2>3. Filemsg' = Filemsg /\ (file_path' # <<>> => file_path # <<>>)
    BY <2>1 DEF cmd_revfilefinsh, ClearPaths
  <2>4. Current(toServer[1].src) /\ Readable(n) /\ n \in Name
    <3>1. Current(toServer[1].src)
      BY <1>1, <2>2 DEF OrderInv, QueueCurrent
    <3>2. Readable(n)
      BY <1>1, <2>2 DEF PktOK
    <3>3. n \in Name
      BY <1>1 DEF TransferInv, SenderOK, PktOK
    <3>. QED BY <3>1, <3>2, <3>3
  <2>5. file_path # <<>> => Filemsg.name = n
    BY <2>4 DEF Current
  <2>6. file_path' # <<>> => Filemsg'.name \in Name /\ Readable(Filemsg'.name)
    BY <2>3, <2>4, <2>5
  <2>. QED BY <2>6 DEF FinishCurrent, Readable
<1>. QED BY <1>3, <1>4

\* What is moved is what its sender announced.
LEMMA MoveIntact ==
  ASSUME TransferInv, FinishCurrent, Intact, Move
  PROVE  Intact'
<1>1. SrvInv /\ finishing = "mv" /\ inode' = inode
  BY DEF TransferInv, Move
<1>2. CASE UNCHANGED final
  BY <1>1, <1>2 DEF Intact
<1>3. CASE mv
  <2>. DEFINE n == Filemsg.name
  <2>1. /\ Movable /\ file_path # <<>> /\ file_path[1] = n /\ n \in Name /\ part[n] \in Inode
        /\ MD5_file # ZeroMd5 => MD5_file = inode[part[n]].bytes
    BY <1>1, <1>3, MovableLemma DEF mv
  <2>2. Readable(n) /\ Described(Filemsg) /\ MD5_file = Filemsg.md5
    <3>1. Readable(n)
      BY <1>1, <2>1 DEF FinishCurrent
    <3>2. Described(Filemsg)
      BY <2>1, NoNameAssumption DEF TransferInv
    <3>3. MD5_file = Filemsg.md5
      BY <1>1 DEF SrvInv, FinishOK
    <3>. QED BY <3>1, <3>2, <3>3
  <2>3. Local[n] # {} /\ Filemsg.md5 = BytesOf(n)
    BY <2>2 DEF Readable, Described
  <2>4. inode[part[n]].bytes \in Local[n]
    <3>1. BytesOf(n) \in Local[n] /\ BytesOf(n) # ZeroMd5
      BY <2>1, <2>3, BytesLemma
    <3>. QED BY <2>1, <2>2, <2>3, <3>1
  <2>5. final' = [final EXCEPT ![n] = part[n]] /\ final \in [Name -> Inode \cup {NoInode}]
    BY <1>1, <1>3, <2>1 DEF mv, SrvInv, SrvTypeOK
  <2>. HIDE DEF n
  <2>6. ASSUME NEW q \in Name, final'[q] # NoInode PROVE inode'[final'[q]].bytes \in Local[q]
    <3>1. CASE q = n
      BY <1>1, <2>4, <2>5, <3>1
    <3>2. CASE q # n
      <4>1. final'[q] = final[q]
        BY <2>5, <3>2
      <4>. QED BY <1>1, <2>6, <4>1 DEF Intact
    <3>. QED BY <3>1, <3>2
  <2>. QED BY <2>6 DEF Intact
<1>. QED BY <1>2, <1>3 DEF Move

\* After the answer to FINISH the file is moved, and its time set.
LEMMA FinishStep ==
  ASSUME TransferInv, OrderInv, FinishCurrent, Intact, Finish, happened \subseteq happened'
  PROVE  OrderInv' /\ FinishCurrent' /\ Intact'
<1>1. /\ sender' = sender /\ toServer' = toServer /\ toClient' = toClient /\ Filemsg' = Filemsg /\ fd' = fd
      /\ file_path' \in {file_path, <<>>} /\ finishing # "no" /\ finishing' # "mv"
  BY DEF Finish, Move, SetTime, ClearPaths, cliVars
<1>2. OrderInv'
  BY <1>1, QuietOrder
<1>3. FinishCurrent'
  BY <1>1 DEF FinishCurrent
<1>4. Intact'
  <2>1. CASE Move
    BY <2>1, MoveIntact
  <2>2. CASE SetTime
    <3>1. SrvInv /\ utime /\ final' = final
      BY <2>2 DEF TransferInv, SetTime
    <3>2. \A i \in Inode : inode'[i].bytes = inode[i].bytes
      BY <3>1, TimeEffect
    <3>3. \A n \in Name : final[n] # NoInode => final[n] \in Inode
      BY <3>1 DEF SrvInv, SrvTypeOK
    <3>. QED BY <3>1, <3>2, <3>3 DEF Intact
  <2>. QED BY <2>1, <2>2 DEF Finish
<1>. QED BY <1>2, <1>3, <1>4

\* Every step of an orderly network keeps the order and what is published.
LEMMA OrderStep ==
  ASSUME TransferInv, TransferInv', [Next]_vars, Orderly', OrderInv, FinishCurrent, Intact
  PROVE  OrderInv' /\ FinishCurrent' /\ Intact'
<1>1. NetTypeOK /\ SrvInv'
  BY DEF TransferInv
<1>2. happened \subseteq happened'
  BY <1>1, NetStep
<1>3. ASSUME UNCHANGED fs PROVE Intact'
  BY <1>3 DEF fs, Intact
<1>4. ASSUME UNCHANGED srvVars PROVE UNCHANGED fs /\ FinishCurrent'
  BY <1>4 DEF srvVars, memory, FinishCurrent
<1>5. ASSUME NEW p \in Process, NEW n \in Name, Start(p, n) PROVE OrderInv' /\ FinishCurrent' /\ Intact'
  <2>1. Announce(p, n) /\ UNCHANGED srvVars
    BY <1>5 DEF Start
  <2>2. ~Fault("overlap")
    BY DEF Fault, Orderly
  <2>3. \A q \in Process : ~Running(q)
    BY <1>5, <2>2 DEF Start
  <2>. QED BY <1>2, <1>3, <1>4, <2>1, <2>3, StartOrder
<1>6. ASSUME NEW p \in Process, Answer(p) \/ NoAnswer(p) \/ LateAnswer(p) PROVE OrderInv' /\ FinishCurrent' /\ Intact'
  <2>1. (Receive(p) \/ TimeOut(p)) /\ UNCHANGED srvVars
    BY <1>6 DEF Answer, NoAnswer, LateAnswer
  <2>2. Moved(p) /\ Waiting(p) /\ (HasEnded(p) \/ GoesOn(p))
    BY <2>1, SenderMoves
  <2>3. Running(p)
    BY <2>2 DEF Waiting, Running
  <2>4. OrderInv'
    BY <1>2, <2>1, <2>2, <2>3, EndOrder, GoOnOrder
  <2>. QED BY <1>3, <1>4, <2>1, <2>4
<1>7. ASSUME NEW p \in Process, Kill(p) PROVE OrderInv' /\ FinishCurrent' /\ Intact'
  <2>1. Running(p) /\ Ends(p, "nothing") /\ UNCHANGED toServer /\ UNCHANGED srvVars
    BY <1>7 DEF Kill
  <2>2. Moved(p) /\ HasEnded(p)
    BY <1>1, <2>1, EndsLemma DEF HasEnded
  <2>. QED BY <1>2, <1>3, <1>4, <2>1, <2>2, EndOrder
<1>8. CASE Deliver
  <2>1. toServer # <<>> /\ onrecv(toServer[1].msg) /\ Handled(1)
    BY <1>8 DEF Deliver
  <2>2. FinishCurrent' /\ Intact'
    BY <2>1, DeliverIntact, DeliverCurrent
  <2>0. finishing = "no"
    BY <2>1 DEF onrecv
  <2>3. CASE IsReq(toServer[1].msg) /\ cmd_reqsend_deel(toServer[1].msg)
    BY <1>1, <2>0, <2>1, <2>2, <2>3, DeliverReqOrder
  <2>4. CASE IsData(toServer[1].msg) /\ cmd_revfile(toServer[1].msg)
    BY <1>1, <1>2, <2>1, <2>2, <2>4, DeliverDataOrder
  <2>5. CASE IsFinish(toServer[1].msg) /\ cmd_revfilefinsh(toServer[1].msg)
    BY <1>1, <1>2, <2>1, <2>2, <2>5, DeliverFinishOrder
  <2>6. IsReq(toServer[1].msg) \/ IsData(toServer[1].msg) \/ IsFinish(toServer[1].msg)
    <3>1. toServer[1].msg \in Sent
      BY <1>1, <2>1, DeliverFacts
    <3>. QED BY <3>1, SentLemma
  <2>. QED BY <2>1, <2>3, <2>4, <2>5, <2>6 DEF onrecv
<1>9. ~Overtake /\ ~Duplicate
  BY DEF Overtake, Duplicate, Fault, Orderly
<1>10. CASE LoseRequest
  <2>1. UNCHANGED srvVars
    BY <1>10 DEF LoseRequest
  <2>. QED BY <1>2, <1>3, <1>4, <1>10, <2>1, LoseRequestOrder
<1>11. CASE LoseAnswer
  <2>1. PICK p \in Process : \E k \in 1..Len(toClient[p]) :
          toClient' = [toClient EXCEPT ![p] = RemoveAt(toClient[p], k)]
    BY <1>11 DEF LoseAnswer
  <2>2. sender' = sender /\ toServer' = toServer /\ UNCHANGED srvVars
    BY <1>11 DEF LoseAnswer
  <2>3. toClient[p] # <<>> /\ toClient \in [Process -> Seq(MsgHead)]
    BY <1>1, <2>1 DEF NetTypeOK
  <2>4. \A q \in Process : toClient'[q] # <<>> => toClient[q] # <<>>
    BY <2>1, <2>3
  <2>5. Filemsg' = Filemsg /\ file_path' = file_path /\ fd' = fd /\ finishing' = finishing
    BY <2>2 DEF srvVars, memory
  <2>. QED BY <1>2, <1>3, <1>4, <2>2, <2>4, <2>5, QuietOrder
<1>12. CASE ServerRestart
  <2>1. UNCHANGED fs /\ FinishCurrent'
    BY <1>12 DEF ServerRestart, Restart, FinishCurrent
  <2>. QED BY <1>3, <1>12, <2>1, RestartOrder
<1>13. CASE UNCHANGED vars
  <2>1. sender' = sender /\ toServer' = toServer /\ toClient' = toClient /\ UNCHANGED srvVars
    BY <1>13 DEF vars, cliVars
  <2>2. Filemsg' = Filemsg /\ file_path' = file_path /\ fd' = fd /\ finishing' = finishing
    BY <2>1 DEF srvVars, memory
  <2>. QED BY <1>2, <1>3, <1>4, <2>1, <2>2, QuietOrder
<1>14. CASE Finish
  BY <1>2, <1>14, FinishStep
<1>. QED BY <1>5, <1>6, <1>7, <1>8, <1>9, <1>10, <1>11, <1>12, <1>13, <1>14 DEF Next

-----------------------------------------------------------------------------
(* The answer to FINISH.                                                   *)

\* A FINISH in its turn that is answered with ACK_OK finds its sender's file complete.
LEMMA FinishStores ==
  ASSUME TransferInv, SrvInv', OrderInv, "restart" \notin happened,
         toServer # <<>>, Handled(1), onrecv(toServer[1].msg),
         reply' = [cmd |-> CMD_SEND_FINISH, type |-> ACK_OK]
  PROVE  \A n : n = sender[toServer[1].src].name => AboutToStore(n)'
<1>. SUFFICES ASSUME NEW n, n = sender[toServer[1].src].name PROVE AboutToStore(n)'
  OBVIOUS
<1>. DEFINE m == toServer[1].msg
<1>1. /\ 1 \in 1..Len(toServer) /\ toServer[1].src \in Process /\ PktOK(toServer[1]) /\ m \in Sent /\ SrvInv
  BY DeliverFacts DEF TransferInv
<1>2. IsFinish(m) /\ ~IsReq(m) /\ cmd_revfilefinsh(m)
  <2>1. ~IsReq(m) \/ ~cmd_reqsend_deel(m)
    BY DEF IsReq, cmd_reqsend_deel, ReqAccepted, ReqRefused, Reply, CMD_SEND_FINISH, CMD_SEND_FILEMSG_REQ
  <2>2. ~IsData(m) \/ ~cmd_revfile(m)
    BY DEF IsData, cmd_revfile, WriteFile, WriteStdin, WriteFails, Reply, CMD_SEND_FINISH, CMD_SEND_FILE
  <2>3. reply' # NoReply
    BY DEF NoReply, ZeroHead, CMD_SEND_FINISH
  <2>4. IsFinish(m) /\ cmd_revfilefinsh(m)
    BY <2>1, <2>2, <2>3 DEF onrecv
  <2>. QED BY <2>4 DEF IsReq, IsFinish, CMD_SEND_FINISH, CMD_SEND_FILEMSG_REQ
<1>3. n = Filemsg.name /\ n \in Name /\ Local[n] # {}
  <2>1. Current(toServer[1].src) /\ Readable(n)
    BY <1>1, <1>2 DEF OrderInv, QueueCurrent, PktOK
  <2>2. n \in Name
    BY <1>1 DEF TransferInv, SenderOK, PktOK
  <2>. QED BY <2>1, <2>2 DEF Current, Readable
<1>4. Filemsg.md5 = BytesOf(n) /\ Filemsg.md5 \in Local[n] /\ Filemsg.md5 # ZeroMd5
  <2>1. Described(Filemsg)
    BY <1>3, NoNameAssumption DEF TransferInv
  <2>. QED BY <1>3, <2>1, BytesLemma DEF Described
<1>5. MD5_file = Filemsg.md5 /\ finishing' = "mv" /\ UNCHANGED <<file_path, Filemsg, part, inode>>
  <2>1. Reply(m, ACK_FAIL) # [cmd |-> CMD_SEND_FINISH, type |-> ACK_OK]
    BY DEF Reply, ACK_FAIL, ACK_OK
  <2>. QED BY <1>2, <2>1 DEF cmd_revfilefinsh, fs
<1>6. Movable
  <2>1. CanRead
    BY <1>4, <1>5 DEF MD5_file
  <2>. QED BY <1>1, <2>1 DEF CanRead, SrvInv, UploadTarget, Movable
<1>7. inode[part[n]].bytes \in Local[n]
  <2>1. MD5_file = inode[part[Filemsg.name]].bytes
    BY <1>1, <1>4, <1>5, <1>6, MovableLemma
  <2>. QED BY <1>3, <1>4, <1>5, <2>1
<1>. QED BY <1>3, <1>5, <1>6, <1>7 DEF AboutToStore, Movable

\* A "mv" that does not fail has what is about to be stored published.
LEMMA MoveStores ==
  ASSUME TransferInv, Finish, "mv" \notin happened', NEW n, AboutToStore(n)
  PROVE  n \in stored'
<1>1. Movable /\ Filemsg.name = n /\ finishing = "mv" /\ inode[part[n]].bytes \in Local[n] /\ SrvInv
  BY DEF AboutToStore, TransferInv
<1>2. Move /\ ~(Movable /\ UNCHANGED final)
  BY <1>1 DEF Finish, SetTime, Fault
<1>3. file_path[1] = n /\ n \in Name /\ part[n] \in Inode
  BY <1>1, MovableLemma
<1>4. final' = [final EXCEPT ![n] = part[n]] /\ inode' = inode /\ final \in [Name -> Inode \cup {NoInode}]
  BY <1>1, <1>2, <1>3 DEF Move, mv, SrvInv, SrvTypeOK
<1>5. final'[n] = part[n] /\ part[n] # NoInode /\ part[n] # final[n]
  BY <1>1, <1>3, <1>4, NoInodeAssumption DEF SrvInv, LinksDistinct
<1>6. Verified(n)
  BY <1>1, <1>4, <1>5 DEF Verified
<1>. QED BY <1>3, <1>6 DEF Finish

\* Every step keeps the answers to FINISH true, while the network is orderly and the receiver
\* is not restarted.
LEMMA StoredStep ==
  ASSUME TransferInv, TransferInv', [Next]_vars, Orderly', happened' \cap {"mv", "restart"} = {}, OrderInv,
         \A p \in Process : AnswerTrue(p)
  PROVE  \A p \in Process : AnswerTrue(p)'
<1>. DEFINE Ok == [cmd |-> CMD_SEND_FINISH, type |-> ACK_OK]
<1>1. NetTypeOK /\ SrvInv' /\ sender \in [Process -> Sender] /\ toClient \in [Process -> Seq(MsgHead)]
  BY DEF TransferInv, NetTypeOK
<1>2. happened \subseteq happened' /\ stored \subseteq stored'
  BY <1>1, NetStep
<1>13. ASSUME NEW n, Safe(n) PROVE Safe(n)'
  <2>1. CASE n \in stored
    BY <1>2, <2>1 DEF Safe
  <2>2. CASE AboutToStore(n) /\ Finish
    <3>1. "mv" \notin happened'
      OBVIOUS
    <3>. QED BY <2>2, <3>1, MoveStores DEF Safe
  <2>3. CASE AboutToStore(n) /\ UNCHANGED srvVars
    BY <2>3 DEF Safe, AboutToStore, Movable, srvVars, memory, fs
  <2>4. CASE AboutToStore(n) /\ ~Finish /\ ~UNCHANGED srvVars
    <3>1. \A k : ~onrecv(toServer[k].msg)
      BY <2>4 DEF AboutToStore, onrecv
    <3>2. ~Deliver /\ ~Overtake
      BY <3>1 DEF Deliver, Overtake
    <3>3. ~ServerRestart
      BY DEF ServerRestart, Fault
    <3>4. \A p \in Process, x \in Name : ~Start(p, x)
      BY <2>4 DEF Start
    <3>5. \A p \in Process : ~Answer(p) /\ ~NoAnswer(p) /\ ~LateAnswer(p) /\ ~Kill(p)
      BY <2>4 DEF Answer, NoAnswer, LateAnswer, Kill
    <3>6. ~LoseRequest /\ ~LoseAnswer /\ ~Duplicate
      BY <2>4 DEF LoseRequest, LoseAnswer, Duplicate
    <3>7. ~UNCHANGED vars
      BY <2>4 DEF vars
    <3>. QED BY <2>4, <3>2, <3>3, <3>4, <3>5, <3>6, <3>7 DEF Next
  <2>. QED BY <1>13, <2>1, <2>2, <2>3, <2>4 DEF Safe
<1>14. ASSUME NEW q \in Process, NEW n, n = sender[q].name, sender'[q].name = n, Safe(n)
       PROVE  Safe(sender[q].name)'
  BY <1>13, <1>14 DEF Safe, AboutToStore
<1>3. ASSUME NEW q \in Process, sender'[q] = sender[q], toClient'[q] = toClient[q] PROVE AnswerTrue(q)'
  <2>1. Safe(sender[q].name) => Safe(sender[q].name)'
    BY <1>3, <1>14
  <2>. QED BY <1>3, <2>1 DEF AnswerTrue
<1>4. ASSUME NEW p \in Process, NEW n \in Name, Start(p, n), NEW q \in Process PROVE AnswerTrue(q)'
  <2>1. Announce(p, n)
    BY <1>4 DEF Start
  <2>2. /\ toClient' = toClient /\ sender'[p] = [sender[p] EXCEPT !.pc = "waitReq", !.name = n]
        /\ sender[p].pc = "idle" /\ \A r \in Process : r # p => sender'[r] = sender[r]
    BY <2>1, StartInv
  <2>3. CASE q = p
    <3>1. toClient[p] = <<>> /\ sender[p] \in Sender
      BY <1>1, <2>2 DEF TransferInv, Running
    <3>2. sender[p].said # "ok"
      BY <2>2, <3>1 DEF TransferInv, SenderOK
    <3>3. sender'[p].said # "ok" /\ toClient'[p] = <<>>
      BY <2>2, <3>1, <3>2 DEF Sender
    <3>. QED BY <2>3, <3>3 DEF AnswerTrue
  <2>4. CASE q # p
    BY <1>3, <2>2, <2>4
  <2>. QED BY <2>3, <2>4
<1>5. ASSUME NEW p \in Process, Moved(p), HasEnded(p) \/ GoesOn(p),
             HasEnded(p) /\ sender'[p].said = "ok" => toClient[p] # <<>> /\ Head(toClient[p]) = Ok,
             NEW q \in Process
      PROVE  AnswerTrue(q)'
  <2>1. CASE q # p
    BY <1>3, <1>5, <2>1 DEF Moved
  <2>2. CASE q = p /\ HasEnded(p)
    <3>1. toClient'[p] = <<>> /\ sender'[p].name = sender[p].name
      BY <1>5, <2>2 DEF HasEnded, Moved
    <3>2. sender'[p].said = "ok" => Safe(sender[p].name)
      <4>. SUFFICES ASSUME sender'[p].said = "ok" PROVE Safe(sender[p].name)
        OBVIOUS
      <4>1. toClient[p] \in Seq(MsgHead) /\ toClient[p] # <<>> /\ Head(toClient[p]) = Ok
        BY <1>1, <1>5, <2>2
      <4>2. 1 \in 1..Len(toClient[p]) /\ toClient[p][1] = Ok
        BY <4>1
      <4>. QED BY <4>2 DEF AnswerTrue
    <3>3. Safe(sender[p].name) => Safe(sender[p].name)'
      BY <1>14, <3>1
    <3>. QED BY <2>2, <3>1, <3>2, <3>3 DEF AnswerTrue
  <2>3. CASE q = p /\ GoesOn(p)
    <3>1. /\ sender'[p].name = sender[p].name /\ sender'[p].said = sender[p].said
          /\ toClient'[p] = toClient[p] \/ (toClient[p] # <<>> /\ toClient'[p] = Tail(toClient[p]))
      BY <1>5, <2>3 DEF GoesOn, Moved
    <3>2. toClient[p] \in Seq(MsgHead)
      BY <1>1
    <3>3. \A k \in 1..Len(toClient'[p]) : \E a \in 1..Len(toClient[p]) : toClient'[p][k] = toClient[p][a]
      <4>1. CASE toClient'[p] = toClient[p]
        BY <4>1
      <4>2. CASE toClient[p] # <<>> /\ toClient'[p] = Tail(toClient[p])
        <5>1. /\ Len(toClient'[p]) = Len(toClient[p]) - 1
              /\ \A k \in 1..Len(toClient'[p]) : toClient'[p][k] = toClient[p][k + 1]
          BY <3>2, <4>2
        <5>2. \A k \in 1..Len(toClient'[p]) : k + 1 \in 1..Len(toClient[p])
          BY <3>2, <5>1
        <5>. QED BY <5>1, <5>2
      <4>. QED BY <3>1, <4>1, <4>2
    <3>4. Safe(sender[p].name) => Safe(sender[p].name)'
      BY <1>14, <3>1
    <3>. QED BY <2>3, <3>1, <3>3, <3>4 DEF AnswerTrue
  <2>. QED BY <1>5, <2>1, <2>2, <2>3
<1>6. ASSUME NEW p \in Process, Answer(p) \/ NoAnswer(p) \/ LateAnswer(p), NEW q \in Process
      PROVE  AnswerTrue(q)'
  <2>1. Receive(p) \/ TimeOut(p)
    BY <1>6 DEF Answer, NoAnswer, LateAnswer
  <2>2. /\ Moved(p) /\ (HasEnded(p) \/ GoesOn(p))
        /\ HasEnded(p) /\ sender'[p].said = "ok" => toClient[p] # <<>> /\ Head(toClient[p]) = Ok
    BY <2>1, SenderMoves
  <2>. QED BY <1>5, <2>2
<1>7. ASSUME NEW p \in Process, Kill(p), NEW q \in Process PROVE AnswerTrue(q)'
  <2>1. Ends(p, "nothing") /\ UNCHANGED toServer
    BY <1>7 DEF Kill
  <2>2. Moved(p) /\ HasEnded(p) /\ sender'[p].said # "ok"
    BY <1>1, <2>1, EndsLemma DEF HasEnded
  <2>. QED BY <1>5, <2>2
<1>8. ASSUME Deliver, NEW q \in Process PROVE AnswerTrue(q)'
  <2>1. toServer # <<>> /\ onrecv(toServer[1].msg) /\ Handled(1) /\ 1 \in 1..Len(toServer)
    BY <1>1, <1>8 DEF Deliver, NetTypeOK
  <2>2. /\ sender' = sender /\ reply' \in MsgHead
        /\ \/ toClient'[q] = toClient[q]
           \/ q = toServer[1].src /\ toClient'[q] = Append(toClient[q], reply')
    BY <1>1, <2>1, HandledLemma
  <2>3. CASE toClient'[q] = toClient[q]
    BY <1>3, <2>2, <2>3
  <2>4. CASE q = toServer[1].src /\ toClient'[q] = Append(toClient[q], reply')
    <3>1. reply' = Ok => Safe(sender[q].name)'
      <4>. SUFFICES ASSUME reply' = Ok, NEW n, n = sender[q].name PROVE Safe(sender[q].name)'
        OBVIOUS
      <4>1. "restart" \notin happened
        BY <1>2
      <4>2. AboutToStore(n)'
        BY <1>1, <2>1, <2>4, <4>1, FinishStores
      <4>. QED BY <2>2, <4>2 DEF Safe, AboutToStore
    <3>4. Safe(sender[q].name) => Safe(sender[q].name)'
      BY <1>14, <2>2
    <3>2. toClient[q] \in Seq(MsgHead)
      BY <1>1
    <3>3. \A k \in 1..Len(toClient'[q]) :
            toClient'[q][k] = reply' \/ (k \in 1..Len(toClient[q]) /\ toClient'[q][k] = toClient[q][k])
      BY <2>2, <2>4, <3>2
    <3>. QED BY <2>2, <3>1, <3>3, <3>4 DEF AnswerTrue
  <2>. QED BY <2>2, <2>3, <2>4
<1>9. ~Overtake /\ ~Duplicate /\ ~ServerRestart
  BY DEF Overtake, Duplicate, ServerRestart, Fault, Orderly
<1>10. ASSUME LoseRequest, NEW q \in Process PROVE AnswerTrue(q)'
  BY <1>3, <1>10 DEF LoseRequest
<1>11. ASSUME LoseAnswer, NEW q \in Process PROVE AnswerTrue(q)'
  <2>1. PICK p \in Process : \E k \in 1..Len(toClient[p]) :
          toClient' = [toClient EXCEPT ![p] = RemoveAt(toClient[p], k)]
    BY <1>11 DEF LoseAnswer
  <2>2. PICK k \in 1..Len(toClient[p]) : toClient' = [toClient EXCEPT ![p] = RemoveAt(toClient[p], k)]
    BY <2>1
  <2>3. sender' = sender
    BY <1>11 DEF LoseAnswer
  <2>4. CASE q # p
    BY <1>1, <1>3, <2>2, <2>3, <2>4
  <2>5. CASE q = p
    <3>1. toClient[p] \in Seq(MsgHead) /\ toClient'[p] = RemoveAt(toClient[p], k)
      BY <1>1, <2>2
    <3>2. Thins(toClient'[p], toClient[p])
      BY <3>1, RemoveThins
    <3>3. \A i \in 1..Len(toClient'[p]) : \E a \in 1..Len(toClient[p]) : toClient'[p][i] = toClient[p][a]
      BY <3>2 DEF Thins
    <3>4. Safe(sender[p].name) => Safe(sender[p].name)'
      BY <1>14, <2>3
    <3>. QED BY <2>3, <2>5, <3>3, <3>4 DEF AnswerTrue
  <2>. QED BY <2>4, <2>5
<1>12. ASSUME UNCHANGED vars, NEW q \in Process PROVE AnswerTrue(q)'
  BY <1>3, <1>12 DEF vars, cliVars
<1>15. ASSUME Finish, NEW q \in Process PROVE AnswerTrue(q)'
  BY <1>3, <1>15 DEF Finish, cliVars
<1>. QED BY <1>4, <1>6, <1>7, <1>8, <1>9, <1>10, <1>11, <1>12, <1>15 DEF Next

-----------------------------------------------------------------------------
(* The theorems.                                                           *)

\* What holds whatever goes wrong holds always: what is on its way was sent by a process that
\* was started, requests describe files as their senders have them, blocks are blocks of files
\* that can be read (udp-client.c:62-168), and the receiver's own invariant holds.
THEOREM TransferInvariant == Spec => []TransferInv
<1>. QED BY TransferInit, TransferStep, PTL DEF Spec

\* The receiver among senders and faults is the receiver of UdpServer: all that is proved
\* for any datagrams in any order holds of it (udp-server.c:244-262).
THEOREM TransferImplementsServer == Spec => SrvSpec
<1>1. Init => SrvInit
  BY DEF Init
<1>2. TransferInv /\ [Next]_vars => [SrvNext]_srvVars
  BY ServerStep DEF TransferInv
<1>. QED BY <1>1, <1>2, TransferInvariant, PTL DEF Spec, SrvSpec

\* In an orderly network, where nothing is duplicated or overtaken and one sender runs at a
\* time, OrderInv holds, and what is published is what the senders have (udp-client.c:62-168).
THEOREM TransferOrderly == Spec => []OrderlyInv
<1>1. Init => OrderlyInv
  BY TransferInit DEF OrderlyInv
<1>2. TransferInv /\ TransferInv' /\ OrderlyInv /\ [Next]_vars => OrderlyInv'
  <2>. SUFFICES ASSUME TransferInv, TransferInv', OrderlyInv, [Next]_vars, Orderly'
                PROVE  OrderInv' /\ FinishCurrent' /\ Intact'
    BY DEF OrderlyInv
  <2>1. happened \subseteq happened'
    BY NetStep DEF TransferInv
  <2>2. Orderly
    BY <2>1 DEF Orderly
  <2>. QED BY <2>2, OrderStep DEF OrderlyInv
<1>. QED BY <1>1, <1>2, TransferInvariant, PTL DEF Spec

\* What is published under a name is what the senders have under it, unless the network
\* duplicates or reorders or two senders run at a time (udp-server.c:168-234).
THEOREM TransferPublishedIntact == Spec => []PublishedIntact
<1>1. OrderlyInv => PublishedIntact
  BY DEF OrderlyInv, Orderly, Intact, PublishedIntact
<1>. QED BY <1>1, TransferOrderly, PTL

\* "file send is ok" (udp-client.c:156) is printed only when the receiver has published the
\* file or is about to (udp-server.c:219-225), unless a "mv" failed, the receiver was restarted
\* or another sender's datagrams came among one's own.
THEOREM TransferOkMeansStored == Spec => []OkMeansStored
<1>1. Init => StoredInv
  BY TransferInit DEF StoredInv
<1>2. TransferInv /\ TransferInv' /\ OrderlyInv /\ StoredInv /\ [Next]_vars => StoredInv'
  <2>. SUFFICES ASSUME TransferInv, TransferInv', OrderlyInv, StoredInv, [Next]_vars,
                       Orderly', happened' \cap {"mv", "restart"} = {}
                PROVE  \A p \in Process : AnswerTrue(p)'
    BY DEF StoredInv
  <2>1. happened \subseteq happened'
    BY NetStep DEF TransferInv
  <2>2. Orderly /\ happened \cap {"mv", "restart"} = {}
    BY <2>1 DEF Orderly
  <2>. QED BY <2>2, StoredStep DEF OrderlyInv, StoredInv
<1>3. StoredInv => OkMeansStored
  <2>. SUFFICES ASSUME StoredInv, happened \cap {"mv", "restart", "overlap", "duplicate", "reorder"} = {}
                PROVE  \A p \in Process : sender[p].said = "ok" => Safe(sender[p].name)
    BY DEF OkMeansStored, Safe
  <2>1. Orderly /\ happened \cap {"mv", "restart"} = {}
    BY DEF Orderly
  <2>. QED BY <2>1 DEF StoredInv, AnswerTrue
<1>. QED BY <1>1, <1>2, <1>3, TransferInvariant, TransferOrderly, PTL DEF Spec

\* A .filepart longer than the sender's file blocks that name for good, whatever goes wrong
\* (udp-server.c:149: no O_TRUNC): an upload never matches, and only a match removes it.
THEOREM TransferLongLeftoverBlocks == Spec => LongLeftoverBlocks
<1>1. TransferInv /\ [Next]_vars => \A n \in Name : TooLong(n) => TooLong(n)'
  <2>. SUFFICES ASSUME TransferInv, [Next]_vars, NEW n \in Name, TooLong(n) PROVE TooLong(n)'
    OBVIOUS
  <2>1. SrvInv /\ SrvInv' /\ [SrvNext]_srvVars
    BY ServerStep, NextInv DEF TransferInv
  <2>2. part[n] # NoInode /\ Local[n] # {} /\ Len(inode[part[n]].bytes) > Len(BytesOf(n))
    BY DEF TooLong
  <2>3. LeftoverKept(n)
    BY <2>1, <2>2, LeftoverStep
  <2>4. CASE part'[n] = part[n] /\ Len(inode'[part[n]].bytes) >= Len(inode[part[n]].bytes)
    <3>1. part[n] \in Inode /\ inode[part[n]] \in File /\ inode'[part[n]] \in File
      BY <2>1, <2>2 DEF SrvInv, SrvTypeOK
    <3>2. /\ Len(inode[part[n]].bytes) \in Nat /\ Len(inode'[part[n]].bytes) \in Nat
          /\ Len(BytesOf(n)) \in Nat
      BY <2>2, <3>1, BytesLemma DEF File
    <3>3. Len(inode'[part[n]].bytes) > Len(BytesOf(n))
      BY <2>2, <2>4, <3>2
    <3>. QED BY <2>2, <2>4, <3>3 DEF TooLong
  <2>5. CASE n = Filemsg.name /\ (inode[part[n]].bytes = Filemsg.md5 \/ Filemsg.md5 = ZeroMd5)
    <3>1. Described(Filemsg)
      BY <2>5, NoNameAssumption DEF TransferInv
    <3>2. Filemsg.md5 = BytesOf(n) /\ BytesOf(n) # ZeroMd5 /\ Len(BytesOf(n)) \in Nat
      BY <2>2, <2>5, <3>1, BytesLemma DEF Described
    <3>. QED BY <2>2, <2>5, <3>2
  <2>. QED BY <2>3, <2>4, <2>5 DEF LeftoverKept
<1>. QED BY <1>1, TransferInvariant, PTL DEF Spec, LongLeftoverBlocks

-----------------------------------------------------------------------------
(* The wedged receiver.                                                    *)

\* A request that finds a path in the buffers is refused, and leaves a longer path.
LEMMA WedgedRequest ==
  ASSUME SrvInv, NEW m \in Sent, IsReq(m), onrecv(m), file_path # <<>>
  PROVE  file_path' # <<>> /\ finishing' = "no" /\ reply' = Reply(m, ACK_FAIL) /\ reply'.type # ACK_OK
<1>1. cmd_reqsend_deel(m) /\ finishing = "no"
  BY DEF onrecv, IsReq, IsData, IsFinish, CMD_SEND_FILEMSG_REQ, CMD_SEND_FILE, CMD_SEND_FINISH
<1>2. file_path_back # <<>> /\ file_path \in Seq(Name)
  BY DEF SrvInv, UploadTarget, SrvTypeOK
<1>3. ReqRefused(m)
  BY <1>1, <1>2 DEF cmd_reqsend_deel, ReqAccepted, OpenFails
<1>4. m.block.name \in Name
  BY SentLemma
<1>5. file_path' # <<>>
  BY <1>1, <1>2, <1>4 DEF cmd_reqsend_deel, AppendPaths
<1>6. finishing' = "no"
  BY <1>1 DEF cmd_reqsend_deel
<1>. QED BY <1>3, <1>5, <1>6 DEF ReqRefused, Reply, ACK_FAIL, ACK_OK

\* A wedged receiver takes a request, in its turn or not.
LEMMA WedgedHandled ==
  ASSUME TransferInv, SrvInv', Wedged, NEW k \in 1..Len(toServer), onrecv(toServer[k].msg), Handled(k)
  PROVE  Wedged'
<1>1. /\ sender' = sender /\ toServer' = RemoveAt(toServer, k) /\ toServer[k].msg \in Sent
      /\ \A q \in Process : toClient'[q] = toClient[q] \/ toClient'[q] = Append(toClient[q], reply')
      /\ toClient \in [Process -> Seq(MsgHead)] /\ toServer \in Seq(Pkt) /\ SrvInv /\ reply' \in MsgHead
  BY HandledLemma DEF TransferInv, NetTypeOK
<1>2. file_path' # <<>> /\ finishing' = "no" /\ reply'.type # ACK_OK
  BY <1>1, WedgedRequest DEF Wedged
<1>3. Thins(toServer', toServer)
  BY <1>1, RemoveThins
<1>4. \A i \in 1..Len(toServer') : IsReq(toServer'[i].msg)
  BY <1>3 DEF Thins, Wedged
<1>5. ASSUME NEW q \in Process
      PROVE  /\ sender'[q].pc \in {"idle", "waitReq", "ended"}
             /\ \A i \in 1..Len(toClient'[q]) : toClient'[q][i].type # ACK_OK
  <2>1. sender'[q].pc \in {"idle", "waitReq", "ended"} /\ \A i \in 1..Len(toClient[q]) : toClient[q][i].type # ACK_OK
    BY <1>1 DEF Wedged
  <2>2. CASE toClient'[q] = toClient[q]
    BY <2>1, <2>2
  <2>3. CASE toClient'[q] = Append(toClient[q], reply')
    <3>1. \A i \in 1..Len(toClient'[q]) :
            toClient'[q][i] = reply' \/ (i \in 1..Len(toClient[q]) /\ toClient'[q][i] = toClient[q][i])
      BY <1>1, <2>3
    <3>. QED BY <1>2, <2>1, <3>1
  <2>. QED BY <1>1, <2>1, <2>2, <2>3
<1>. QED BY <1>2, <1>4, <1>5 DEF Wedged, IsReq

\* A sender of a wedged receiver only ever ends.
LEMMA WedgedMoves ==
  ASSUME TransferInv, Wedged, UNCHANGED srvVars, NEW p \in Process, Moved(p), HasEnded(p)
  PROVE  Wedged'
<1>1. /\ file_path' = file_path /\ finishing' = finishing /\ toServer' = toServer
      /\ sender'[p].pc = "ended" /\ toClient'[p] = <<>>
      /\ \A q \in Process : q # p => sender'[q] = sender[q] /\ toClient'[q] = toClient[q]
  BY DEF srvVars, memory, HasEnded, Moved
<1>2. ASSUME NEW q \in Process
      PROVE  /\ sender'[q].pc \in {"idle", "waitReq", "ended"}
             /\ \A i \in 1..Len(toClient'[q]) : toClient'[q][i].type # ACK_OK
  <2>1. CASE q = p
    BY <1>1, <2>1
  <2>2. CASE q # p
    BY <1>1, <2>2 DEF Wedged
  <2>. QED BY <2>1, <2>2
<1>. QED BY <1>1, <1>2 DEF Wedged, IsReq

\* A path left in the buffers wedges the receiver (udp-server.c:140-146: strcat to what is
\* there): no later sender gets past its request, short of a restart.
THEOREM TransferWedgedForever == Spec => WedgedForever
<1>1. TransferInv /\ TransferInv' /\ [Next]_vars => (Wedged => Wedged' \/ "restart" \in happened')
  <2>. SUFFICES ASSUME TransferInv, TransferInv', [Next]_vars, Wedged, "restart" \notin happened' PROVE Wedged'
    OBVIOUS
  <2>0. /\ NetTypeOK /\ SrvInv' /\ toServer \in Seq(Pkt) /\ toClient \in [Process -> Seq(MsgHead)]
        /\ sender \in [Process -> Sender]
    BY DEF TransferInv, NetTypeOK
  <2>1. ASSUME NEW p \in Process, NEW n \in Name, Start(p, n) PROVE Wedged'
    <3>1. Announce(p, n) /\ file_path' = file_path /\ finishing' = finishing
      BY <2>1 DEF Start, srvVars, memory
    <3>2. PICK d \in Pkt : IsReq(d.msg) /\ toServer' = Append(toServer, d)
      BY <3>1, StartInv
    <3>3. /\ toClient' = toClient /\ sender'[p].pc = "waitReq"
          /\ \A q \in Process : q # p => sender'[q] = sender[q]
      <4>1. /\ toClient' = toClient /\ sender'[p] = [sender[p] EXCEPT !.pc = "waitReq", !.name = n]
            /\ \A q \in Process : q # p => sender'[q] = sender[q]
        BY <3>1, StartInv
      <4>. QED BY <2>0, <4>1 DEF Sender
    <3>4. \A k \in 1..Len(toServer') : IsReq(toServer'[k].msg)
      <4>1. \A k \in 1..Len(toServer') :
              toServer'[k] = d \/ (k \in 1..Len(toServer) /\ toServer'[k] = toServer[k])
        BY <2>0, <3>2
      <4>. QED BY <3>2, <4>1 DEF Wedged
    <3>5. \A q \in Process : sender'[q].pc \in {"idle", "waitReq", "ended"}
      BY <3>3 DEF Wedged
    <3>. QED BY <3>1, <3>3, <3>4, <3>5 DEF Wedged, IsReq
  <2>2. ASSUME NEW p \in Process, Answer(p) \/ NoAnswer(p) \/ LateAnswer(p) PROVE Wedged'
    <3>1. (Receive(p) \/ TimeOut(p)) /\ UNCHANGED srvVars
      BY <2>2 DEF Answer, NoAnswer, LateAnswer
    <3>2. Moved(p) /\ Waiting(p)
      BY <3>1, SenderMoves
    <3>3. sender[p].pc = "waitReq"
      BY <3>2 DEF Waiting, Wedged
    <3>4. HasEnded(p)
      <4>1. PICK head, rest : AfterReq(p, head, rest) /\ head.type # ACK_OK
        <5>1. CASE Receive(p)
          <6>1. toClient[p] # <<>> /\ AfterReq(p, Head(toClient[p]), Tail(toClient[p]))
            BY <3>3, <5>1 DEF Receive, AfterFile, AfterFinish
          <6>2. 1 \in 1..Len(toClient[p]) /\ Head(toClient[p]) = toClient[p][1]
            BY <2>0, <6>1
          <6>. QED BY <6>1, <6>2 DEF Wedged
        <5>2. CASE TimeOut(p)
          <6>1. AfterReq(p, ZeroHead, toClient[p])
            BY <3>3, <5>2 DEF TimeOut, AfterFile, AfterFinish
          <6>. QED BY <6>1 DEF ZeroHead, REQ_NOR, ACK_OK
        <5>. QED BY <3>1, <5>1, <5>2
      <4>2. Ends(p, "refused") /\ UNCHANGED toServer
        BY <4>1 DEF AfterReq
      <4>. QED BY <2>0, <4>2, EndsLemma DEF HasEnded
    <3>. QED BY <3>1, <3>2, <3>4, WedgedMoves
  <2>3. ASSUME NEW p \in Process, Kill(p) PROVE Wedged'
    <3>1. Ends(p, "nothing") /\ UNCHANGED toServer /\ UNCHANGED srvVars
      BY <2>3 DEF Kill
    <3>2. Moved(p) /\ HasEnded(p)
      BY <2>0, <3>1, EndsLemma DEF HasEnded
    <3>. QED BY <3>1, <3>2, WedgedMoves
  <2>4. CASE Deliver
    <3>1. 1 \in 1..Len(toServer) /\ onrecv(toServer[1].msg) /\ Handled(1)
      BY <2>0, <2>4 DEF Deliver
    <3>. QED BY <2>0, <3>1, WedgedHandled
  <2>5. CASE Overtake
    <3>1. PICK k \in 2..Len(toServer) : onrecv(toServer[k].msg) /\ Handled(k)
      BY <2>5 DEF Overtake
    <3>2. k \in 1..Len(toServer)
      BY <2>0
    <3>. QED BY <2>0, <3>1, <3>2, WedgedHandled
  <2>6. CASE LoseRequest
    <3>1. PICK k \in 1..Len(toServer) : toServer' = RemoveAt(toServer, k)
      BY <2>6 DEF LoseRequest
    <3>2. Thins(toServer', toServer)
      BY <2>0, <3>1, RemoveThins
    <3>3. \A i \in 1..Len(toServer') : IsReq(toServer'[i].msg)
      BY <3>2 DEF Thins, Wedged
    <3>4. sender' = sender /\ toClient' = toClient /\ file_path' = file_path /\ finishing' = finishing
      BY <2>6 DEF LoseRequest, srvVars, memory
    <3>. QED BY <3>3, <3>4 DEF Wedged, IsReq
  <2>7. CASE LoseAnswer
    <3>1. PICK p \in Process : \E k \in 1..Len(toClient[p]) :
            toClient' = [toClient EXCEPT ![p] = RemoveAt(toClient[p], k)]
      BY <2>7 DEF LoseAnswer
    <3>2. PICK k \in 1..Len(toClient[p]) : toClient' = [toClient EXCEPT ![p] = RemoveAt(toClient[p], k)]
      BY <3>1
    <3>3. toClient'[p] = RemoveAt(toClient[p], k) /\ \A q \in Process : q # p => toClient'[q] = toClient[q]
      BY <2>0, <3>2
    <3>4. toClient[p] \in Seq(MsgHead)
      BY <2>0
    <3>5. Thins(toClient'[p], toClient[p])
      BY <3>3, <3>4, RemoveThins
    <3>6. \A q \in Process : \A i \in 1..Len(toClient'[q]) : toClient'[q][i].type # ACK_OK
      <4>1. \A i \in 1..Len(toClient'[p]) :
              \E a \in 1..Len(toClient[p]) : toClient'[p][i] = toClient[p][a]
        BY <3>5 DEF Thins
      <4>2. \A a \in 1..Len(toClient[p]) : toClient[p][a].type # ACK_OK
        BY DEF Wedged
      <4>3. \A i \in 1..Len(toClient'[p]) : toClient'[p][i].type # ACK_OK
        BY <4>1, <4>2
      <4>4. ASSUME NEW q \in Process, q # p
            PROVE \A i \in 1..Len(toClient'[q]) : toClient'[q][i].type # ACK_OK
        BY <3>3, <4>4 DEF Wedged
      <4>. QED BY <4>3, <4>4
    <3>7. sender' = sender /\ toServer' = toServer /\ file_path' = file_path /\ finishing' = finishing
      BY <2>7 DEF LoseAnswer, srvVars, memory
    <3>. QED BY <3>6, <3>7 DEF Wedged, IsReq
  <2>8. CASE Duplicate
    <3>1. PICK k \in 1..Len(toServer) : toServer' = Append(toServer, toServer[k])
      BY <2>8 DEF Duplicate
    <3>2. \A i \in 1..Len(toServer') : \E a \in 1..Len(toServer) : toServer'[i] = toServer[a]
      <4>1. PICK d \in Pkt : d = toServer[k]
        BY <2>0
      <4>2. toServer' = Append(toServer, d)
        BY <3>1, <4>1
      <4>3. \A i \in 1..Len(toServer') :
              toServer'[i] = d \/ (i \in 1..Len(toServer) /\ toServer'[i] = toServer[i])
        BY <2>0, <4>2
      <4>. QED BY <4>1, <4>3
    <3>3. \A i \in 1..Len(toServer') : IsReq(toServer'[i].msg)
      BY <3>2 DEF Wedged
    <3>4. sender' = sender /\ toClient' = toClient /\ file_path' = file_path /\ finishing' = finishing
      BY <2>8 DEF Duplicate, srvVars, memory
    <3>. QED BY <3>3, <3>4 DEF Wedged, IsReq
  <2>9. ~ServerRestart /\ ~Finish
    BY DEF ServerRestart, Fault, Finish, Move, SetTime, Wedged
  <2>10. CASE UNCHANGED vars
    BY <2>10 DEF vars, srvVars, cliVars, memory, Wedged, IsReq
  <2>. QED BY <2>1, <2>2, <2>3, <2>4, <2>5, <2>6, <2>7, <2>8, <2>9, <2>10 DEF Next
<1>. QED BY <1>1, TransferInvariant, PTL DEF Spec, WedgedForever
=============================================================================
