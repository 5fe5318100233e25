------------------------ MODULE TcpFileTransferProofs ------------------------
(***************************************************************************)
(* Proofs about the TCP file transfer, for any senders, files, block and   *)
(* buffer sizes, and any number of killed senders and failing writes.      *)
(***************************************************************************)
EXTENDS TcpFileTransfer, SequenceTheorems, TLAPS

Answer == {"REQ_OK", "FINISH_OK", "FINISH_FAIL"}

\* The stream holds the announcement alone, or file data alone
TypeOK ==
  /\ cpc \in [Process -> {"idle", "waitReq", "sending", "waitFinish", "ended"}]
  /\ sent \in [Process -> Nat]
  /\ said \in [Process -> {"nothing", "noread", "ok", "fail", "killed", "hungup"}]
  /\ conn \in [Process -> {"none", "open", "fin", "rst", "broken"}]
  /\ up \in [Process -> Seq(Block) \cup {<<"REQ">>}]
  /\ down \in [Process -> Seq(Answer)]
  /\ backlog \in Seq(Process)
  /\ spc \in {"accept", "recvMsg", "recvFile", "check", "dead"}
  /\ link_id \in Process \cup {NoProcess}
  /\ len \in Int /\ off \in Nat \cup {NoFd}
  /\ part \in [Name -> SUBSET Seq(Block)]
  /\ final \in [Name -> SUBSET Seq(Block)]
  /\ killsLeft \in 0..KillBudget /\ diskLeft \in 0..DiskBudget

\* p is the connection the receiver is in cmd_reqsend_deel for
InHandler(p) == link_id = p /\ spc \in {"recvFile", "check"}

\* The announcement is the first thing sent, and nothing is answered before it is read
AnnouncedFirst(p) ==
  up[p] = <<"REQ">> => /\ cpc[p] \in {"waitReq", "ended"} /\ sent[p] = 0
                       /\ down[p] = <<>> /\ ~InHandler(p)

NotYetConnected(p) ==
  cpc[p] = "idle" => /\ up[p] = <<>> /\ down[p] = <<>> /\ link_id # p
                     /\ \A k \in 1..Len(backlog) : backlog[k] # p

\* A sender streams its own file, which is there
SendsItsFile(p) ==
  /\ cpc[p] \in {"idle", "waitReq"} => sent[p] = 0
  /\ cpc[p] \in {"sending", "waitFinish"} => FileOf[p].bytes # {}
  /\ cpc[p] = "waitFinish" => sent[p] = Len(Bytes(FileOf[p]))

\* The receiver works for the connection it accepted, on a .filepart without a hole before
\* its offset, or on none after an open() that failed
HandlerFile ==
  /\ spc \in {"recvMsg", "recvFile", "check"} => link_id \in Process
  /\ spc \in {"recvFile", "check"} => Filemsg = FileOf[link_id]
  /\ spc = "recvFile" /\ off # NoFd => /\ part[Filemsg.name] # {}
                                       /\ \A b \in part[Filemsg.name] : off <= Len(b)
  /\ spc = "recvFile" /\ off = NoFd => diskLeft < DiskBudget

StreamInv ==
  /\ TypeOK /\ HandlerFile
  /\ \A p \in Process : AnnouncedFirst(p) /\ NotYetConnected(p) /\ SendsItsFile(p)

\* p's file was complete, and published unless "mv" failed
Received(p) == FileOf[p] \in stored \/ p \in unmoved

\* A good answer on its way, or read, is for a file that was received
AnswerHonest(p) ==
  /\ \A k \in 1..Len(down[p]) : down[p][k] = "FINISH_OK" => Received(p)
  /\ said[p] = "ok" => Received(p)

\* While no write failed, len counts what the sender sent and the receiver took, and
\* the loop goes on only below file_length
LenExact(p) ==
  diskLeft = DiskBudget /\ spc = "recvFile" /\ link_id = p =>
    /\ len = BlockLen * (sent[p] - Len(up[p]))
    /\ len = 0 \/ ~Counted(len)

\* A connection that was announced and that the receiver has not looked at
Waiting(p) == conn[p] = "open" /\ cpc[p] = "waitReq" /\ up[p] = <<"REQ">> /\ down[p] = <<>>

Streaming(p) == conn[p] = "open" /\ cpc[p] \in {"sending", "waitFinish"}

\* Where the accepted connection can be while no sender was killed
LinkStep(p) ==
  /\ spc = "recvMsg" =>
       \/ Waiting(p)
       \/ Streaming(p) /\ Len(down[p]) = 1 /\ down[p][1] # "REQ_OK"
       \/ conn[p] \in {"fin", "rst"} /\ up[p] # <<"REQ">>
  /\ spc = "recvFile" =>
       \/ conn[p] = "open" /\ cpc[p] = "waitReq" /\ Len(down[p]) = 1 /\ up[p] = <<>>
       \/ Streaming(p) /\ down[p] = <<>>
       \/ conn[p] = "fin"
  /\ spc = "check" => (Streaming(p) /\ down[p] = <<>>) \/ conn[p] = "fin"

\* Only a sender that has ended closes its connection, and no reset is met
ClosedByEnd(p) == conn[p] # "broken" /\ (conn[p] \in {"fin", "rst"} => cpc[p] = "ended")

NoKillInv ==
  killsLeft = KillBudget =>
    /\ spc # "dead"
    /\ \A p \in Process : ClosedByEnd(p) /\ (link_id = p => LinkStep(p))
    /\ \A k \in 1..Len(backlog) :
         /\ Waiting(backlog[k]) /\ link_id # backlog[k]
         /\ \A j \in 1..Len(backlog) : backlog[j] = backlog[k] => j = k

-----------------------------------------------------------------------------
(* Sequences.                                                              *)

\* The announcement is not file data, and reading it leaves the stream empty.
LEMMA ReqFacts ==
  /\ <<"REQ">> # <<>> /\ Len(<<"REQ">>) = 1 /\ Tail(<<"REQ">>) = <<>>
  /\ <<"REQ">> \notin Seq(Block)
  /\ \A s \in Seq(Block) : s # <<>> => Head(s) # "REQ" /\ Head(s) \in Block
<1>1. Len(<<"REQ">>) = 1 /\ <<"REQ">>[1] = "REQ" /\ <<"REQ">> # <<>> /\ Tail(<<"REQ">>) = <<>>
  OBVIOUS
<1>2. <<"REQ">> \notin Seq(Block)
  BY <1>1, ElementOfSeq, BlockAssumption
<1>3. \A s \in Seq(Block) : s # <<>> => Head(s) # "REQ" /\ Head(s) \in Block
  BY HeadTailProperties, BlockAssumption
<1>. QED BY <1>1, <1>2, <1>3

\* Taking r blocks off the stream leaves a stream that is shorter by r.
LEMMA TakeBlocks ==
  ASSUME NEW s \in Seq(Block), NEW r \in Nat, r <= Len(s)
  PROVE  /\ SubSeq(s, 1, r) \in Seq(Block) /\ Len(SubSeq(s, 1, r)) = r
         /\ SubSeq(s, r + 1, Len(s)) \in Seq(Block)
         /\ Len(SubSeq(s, r + 1, Len(s))) = Len(s) - r
<1>1. Len(s) \in Nat /\ \A i \in 1..Len(s) : s[i] \in Block
  BY LenProperties, ElementOfSeq
<1>2. /\ SubSeq(s, 1, r) \in Seq(Block)
      /\ Len(SubSeq(s, 1, r)) = IF 1 <= r THEN r - 1 + 1 ELSE 0
  BY <1>1, SubSeqProperties
<1>3. /\ SubSeq(s, r + 1, Len(s)) \in Seq(Block)
      /\ Len(SubSeq(s, r + 1, Len(s))) = IF r + 1 <= Len(s) THEN Len(s) - (r + 1) + 1 ELSE 0
  BY <1>1, SubSeqProperties
<1>. QED BY <1>1, <1>2, <1>3

\* Writing at an offset within a file gives a file without a hole, that reaches to the end
\* of what was written.
LEMMA OverwriteType ==
  ASSUME NEW old \in Seq(Block), NEW new \in Seq(Block), NEW pos \in 0..Len(old)
  PROVE  /\ Overwrite(old, pos, new) \in Seq(Block)
         /\ pos + Len(new) <= Len(Overwrite(old, pos, new))
<1>. DEFINE n == IF pos + Len(new) > Len(old) THEN pos + Len(new) ELSE Len(old)
            f == Overwrite(old, pos, new)
<1>1. /\ Len(old) \in Nat /\ Len(new) \in Nat
      /\ \A i \in 1..Len(old) : old[i] \in Block
      /\ \A i \in 1..Len(new) : new[i] \in Block
  BY LenProperties, ElementOfSeq
<1>2. n \in Nat /\ pos + Len(new) <= n
  BY <1>1
<1>3. f \in [1..n -> Block]
  BY <1>1 DEF Overwrite
<1>4. f \in Seq(Block)
  BY <1>2, <1>3, SeqDef, SMTT(30)
<1>5. Len(f) = n
  BY <1>2, <1>3, <1>4, LenProperties
<1>. QED BY <1>2, <1>4, <1>5

-----------------------------------------------------------------------------
(* The stream between a sender and the receiver.                           *)

\* A sender that ends, in whatever way, keeps the invariant of the stream.
LEMMA GoneStream ==
  ASSUME StreamInv, NEW p \in Process, NEW unread,
         NEW word \in {"noread", "ok", "fail", "killed", "hungup"},
         Gone(p, word, unread), UNCHANGED srvVars,
         killsLeft' \in 0..KillBudget, UNCHANGED diskLeft
  PROVE  StreamInv'
<1>1. TypeOK'
  BY EmptySeq DEF StreamInv, TypeOK, Gone, srvVars
<1>2. HandlerFile'
  BY DEF StreamInv, HandlerFile, Gone, srvVars
<1>3. ASSUME NEW q \in Process
      PROVE  AnnouncedFirst(q)' /\ NotYetConnected(q)' /\ SendsItsFile(q)'
  BY DEF StreamInv, TypeOK, Gone, srvVars, AnnouncedFirst, NotYetConnected, SendsItsFile, InHandler
<1>. QED BY <1>1, <1>2, <1>3 DEF StreamInv

\* A sender connects.
LEMMA ConnectStream == ASSUME StreamInv, NEW p \in Process, Connect(p) PROVE StreamInv'
<1>1. TypeOK'
  BY AppendProperties DEF StreamInv, TypeOK, Connect, srvVars
<1>2. HandlerFile'
  BY DEF StreamInv, HandlerFile, Connect, srvVars
<1>3. \A k \in 1..Len(backlog') : backlog'[k] = p \/ (k \in 1..Len(backlog) /\ backlog'[k] = backlog[k])
  BY AppendProperties, LenProperties DEF StreamInv, TypeOK, Connect
<1>4. ASSUME NEW q \in Process
      PROVE  AnnouncedFirst(q)' /\ NotYetConnected(q)' /\ SendsItsFile(q)'
  <2>1. CASE q = p
    BY <2>1 DEF StreamInv, TypeOK, Connect, srvVars, AnnouncedFirst, NotYetConnected, SendsItsFile, InHandler
  <2>2. CASE q # p
    <3>1. UNCHANGED <<cpc[q], sent[q], up[q], down[q], link_id, spc>>
      BY <2>2 DEF StreamInv, TypeOK, Connect, srvVars
    <3>2. NotYetConnected(q)'
      BY <1>3, <2>2, <3>1 DEF StreamInv, NotYetConnected
    <3>. QED BY <3>1, <3>2 DEF StreamInv, AnnouncedFirst, SendsItsFile, InHandler
  <2>. QED BY <2>1, <2>2
<1>. QED BY <1>1, <1>2, <1>4 DEF StreamInv

\* A sender that is not told to stop: it reads its answers and streams its file.
LEMMA SendsStream == ASSUME StreamInv, NEW p \in Process, Sends(p) PROVE StreamInv'
<1>. USE DEF StreamInv
<1>1. CASE RecvReqAnswer(p)
  <2>1. CASE FileOf[p].bytes = {} /\ Gone(p, "noread", Tail(down[p]))
    BY <1>1, <2>1, GoneStream DEF RecvReqAnswer, TypeOK
  <2>2. CASE /\ FileOf[p].bytes # {}
             /\ cpc' = [cpc EXCEPT ![p] = "sending"]
             /\ down' = [down EXCEPT ![p] = Tail(@)]
             /\ UNCHANGED <<sent, said, conn, up, backlog>>
    <3>. cpc[p] = "waitReq" /\ down[p] # <<>> /\ UNCHANGED <<srvVars, killsLeft, diskLeft>>
      BY <1>1 DEF RecvReqAnswer
    <3>1. TypeOK'
      BY <2>2, HeadTailProperties DEF TypeOK, srvVars
    <3>2. HandlerFile'
      BY <2>2 DEF HandlerFile, srvVars
    <3>3. ASSUME NEW q \in Process
          PROVE  AnnouncedFirst(q)' /\ NotYetConnected(q)' /\ SendsItsFile(q)'
      BY <2>2 DEF TypeOK, srvVars, AnnouncedFirst, NotYetConnected, SendsItsFile, InHandler
    <3>. QED BY <3>1, <3>2, <3>3
  <2>. QED BY <1>1, <2>1, <2>2 DEF RecvReqAnswer
<1>2. CASE SendBlock(p)
  <2>1. Bytes(FileOf[p]) \in Seq(Block) /\ up[p] \in Seq(Block)
    BY <1>2, FileOfAssumption DEF SendBlock, TypeOK, SendsItsFile, AnnouncedFirst, Bytes
  <2>2. Bytes(FileOf[p])[sent[p] + 1] \in Block
    BY <1>2, <2>1, ElementOfSeq, LenProperties DEF SendBlock, TypeOK
  <2>3. up'[p] \in Seq(Block)
    BY <1>2, <2>1, <2>2, AppendProperties DEF SendBlock, TypeOK
  <2>4. TypeOK'
    BY <1>2, <2>3 DEF SendBlock, TypeOK, srvVars
  <2>5. HandlerFile'
    BY <1>2 DEF SendBlock, HandlerFile, srvVars
  <2>6. ASSUME NEW q \in Process
        PROVE  AnnouncedFirst(q)' /\ NotYetConnected(q)' /\ SendsItsFile(q)'
    BY <1>2, <2>3, ReqFacts, ZenonT(60) DEF SendBlock, TypeOK, srvVars, AnnouncedFirst, NotYetConnected, SendsItsFile, InHandler
  <2>. QED BY <2>4, <2>5, <2>6
<1>3. CASE SentAll(p)
  <2>1. TypeOK'
    BY <1>3 DEF SentAll, TypeOK, srvVars, netVars
  <2>2. HandlerFile'
    BY <1>3 DEF SentAll, HandlerFile, srvVars
  <2>3. ASSUME NEW q \in Process
        PROVE  AnnouncedFirst(q)' /\ NotYetConnected(q)' /\ SendsItsFile(q)'
    BY <1>3 DEF SentAll, TypeOK, srvVars, netVars, AnnouncedFirst, NotYetConnected, SendsItsFile, InHandler
  <2>. QED BY <2>1, <2>2, <2>3
<1>4. CASE RecvFinishAnswer(p)
  BY <1>4, GoneStream DEF RecvFinishAnswer, TypeOK
<1>5. CASE HangUp(p)
  BY <1>5, GoneStream DEF HangUp, TypeOK
<1>. QED BY <1>1, <1>2, <1>3, <1>4, <1>5 DEF Sends

\* What the receiver's send() may do to the connection and to the receiver.
LEMMA SendAnswerEffect ==
  ASSUME TypeOK, link_id \in Process, NEW a \in Answer, NEW next \in {"recvMsg", "recvFile"},
         SendAnswer(a, next)
  PROVE  /\ conn' \in [Process -> {"none", "open", "fin", "rst", "broken"}]
         /\ down' \in [Process -> Seq(Answer)]
         /\ spc' \in {next, "dead"}
         /\ \A q \in Process : q # link_id => conn'[q] = conn[q] /\ down'[q] = down[q]
         /\ down'[link_id] \in {down[link_id], Append(down[link_id], a)}
<1>1. Append(down[link_id], a) \in Seq(Answer)
  BY AppendProperties DEF TypeOK
<1>2. down' \in [Process -> Seq(Answer)]
  BY <1>1 DEF TypeOK, SendAnswer
<1>3. conn' \in [Process -> {"none", "open", "fin", "rst", "broken"}]
  BY DEF TypeOK, SendAnswer
<1>. QED BY <1>2, <1>3 DEF TypeOK, SendAnswer

\* The receiver accepts, skips data that no handler wanted, or closes the link.
LEMMA OuterLoopStream == ASSUME StreamInv, Accept \/ SkipData \/ CloseLink PROVE StreamInv'
<1>. USE DEF StreamInv
<1>1. CASE Accept
  <2>1. /\ link_id' \in Process /\ backlog' \in Seq(Process)
        /\ Len(backlog) \in Nat \ {0} /\ link_id' = backlog[1]
        /\ Len(backlog') = Len(backlog) - 1
        /\ \A k \in 1..Len(backlog') : backlog'[k] = backlog[k + 1]
    BY <1>1, HeadTailProperties, EmptySeq DEF Accept, TypeOK
  <2>2. TypeOK'
    BY <1>1, <2>1 DEF Accept, TypeOK, cliVars
  <2>3. HandlerFile'
    BY <1>1, <2>1 DEF Accept, HandlerFile
  <2>4. ASSUME NEW q \in Process
        PROVE  AnnouncedFirst(q)' /\ NotYetConnected(q)' /\ SendsItsFile(q)'
    <3>1. \A k \in 1..Len(backlog') : k + 1 \in 1..Len(backlog)
      BY <2>1
    <3>2. NotYetConnected(q)'
      BY <1>1, <2>1, <3>1 DEF Accept, cliVars, NotYetConnected
    <3>. QED BY <1>1, <3>2 DEF Accept, cliVars, AnnouncedFirst, SendsItsFile, InHandler
  <2>. QED BY <2>2, <2>3, <2>4
<1>2. CASE SkipData
  <2>1. link_id \in Process /\ up[link_id] \in Seq(Block) /\ up[link_id] # <<>>
    BY <1>2, ReqFacts DEF SkipData, HandlerFile, TypeOK
  <2>2. /\ \A q \in Process : q # link_id => up'[q] = up[q]
        /\ up'[link_id] \in Seq(Block) /\ up' \in [Process -> Seq(Block) \cup {<<"REQ">>}]
    BY <1>2, <2>1, HeadTailProperties DEF SkipData, TypeOK
  <2>3. TypeOK'
    BY <1>2, <2>2 DEF SkipData, TypeOK, cliVars, srvVars
  <2>4. HandlerFile'
    BY <1>2 DEF SkipData, HandlerFile, srvVars
  <2>5. ASSUME NEW q \in Process
        PROVE  AnnouncedFirst(q)' /\ NotYetConnected(q)' /\ SendsItsFile(q)'
    <3>1. UNCHANGED <<cpc, sent, down, backlog, link_id, spc>>
      BY <1>2 DEF SkipData, cliVars, srvVars
    <3>2. CASE q = link_id
      <4>1. cpc[q] # "idle" /\ up'[q] # <<"REQ">>
        BY <2>2, <3>2, ReqFacts DEF NotYetConnected
      <4>. QED BY <3>1, <4>1 DEF AnnouncedFirst, NotYetConnected, SendsItsFile
    <3>3. CASE q # link_id
      BY <2>2, <3>1, <3>3 DEF AnnouncedFirst, NotYetConnected, SendsItsFile, InHandler
    <3>. QED BY <3>2, <3>3
  <2>. QED BY <2>3, <2>4, <2>5
<1>3. CASE CloseLink
  <2>1. TypeOK'
    BY <1>3 DEF CloseLink, TypeOK, cliVars, netVars
  <2>2. HandlerFile'
    BY <1>3 DEF CloseLink, HandlerFile
  <2>3. ASSUME NEW q \in Process
        PROVE  AnnouncedFirst(q)' /\ NotYetConnected(q)' /\ SendsItsFile(q)'
    BY <1>3, NoProcessAssumption
       DEF CloseLink, cliVars, netVars, AnnouncedFirst, NotYetConnected, SendsItsFile, InHandler
  <2>. QED BY <2>1, <2>2, <2>3
<1>. QED BY <1>1, <1>2, <1>3

\* The receiver takes an announcement.
LEMMA TakeRequestStream == ASSUME StreamInv, TakeRequest PROVE StreamInv'
<1>. USE DEF StreamInv
<1>1. link_id \in Process /\ up[link_id] = <<"REQ">> /\ up'[link_id] = <<>> /\ cpc[link_id] # "idle"
  BY ReqFacts DEF TakeRequest, HandlerFile, TypeOK, AnnouncedFirst
<1>2. /\ conn' \in [Process -> {"none", "open", "fin", "rst", "broken"}]
      /\ down' \in [Process -> Seq(Answer)] /\ spc' \in {"recvFile", "dead"}
      /\ \A q \in Process : q # link_id => down'[q] = down[q]
  BY <1>1, SendAnswerEffect DEF TakeRequest, Answer
<1>3. FileOf[link_id].name \in Name /\ Filemsg' = FileOf[link_id]
  BY <1>1, FileOfAssumption DEF TakeRequest
<1>4. /\ part' \in [Name -> SUBSET Seq(Block)]
      /\ \/ off' = 0 /\ part'[Filemsg'.name] # {} /\ diskLeft' = diskLeft
         \/ off' = NoFd /\ diskLeft > 0 /\ diskLeft' = diskLeft - 1
  <2>. DEFINE n == FileOf[link_id].name
              c == IF part[n] = {} THEN {<<>>} ELSE part[n]
  <2>1. CASE Opened(n)
    <3>1. part' = [part EXCEPT ![n] = c] /\ off' = 0 /\ diskLeft' = diskLeft
      BY <2>1 DEF Opened
    <3>2. c # {} /\ c \in SUBSET Seq(Block)
      BY <1>3, EmptySeq DEF TypeOK
    <3>. HIDE DEF c
    <3>. QED BY <1>3, <3>1, <3>2 DEF TypeOK
  <2>2. CASE OpenFails
    BY <2>2 DEF OpenFails, TypeOK
  <2>. QED BY <2>1, <2>2 DEF TakeRequest
<1>5. /\ up' \in [Process -> Seq(Block) \cup {<<"REQ">>}]
      /\ \A q \in Process : q # link_id => up'[q] = up[q]
  BY <1>1, EmptySeq DEF TakeRequest, TypeOK
<1>6. TypeOK'
  <2>1. len' = 0 /\ UNCHANGED <<cpc, sent, said, backlog, link_id, final, killsLeft>>
    BY DEF TakeRequest, cliVars
  <2>2. off' \in Nat \cup {NoFd} /\ diskLeft' \in 0..DiskBudget
    BY <1>4, BudgetAssumption DEF TypeOK
  <2>. QED BY <1>2, <1>4, <1>5, <2>1, <2>2 DEF TypeOK
<1>7. HandlerFile'
  <2>1. off' # NoFd => \A b \in part'[Filemsg'.name] : off' <= Len(b)
    <3>. SUFFICES ASSUME off' # NoFd, NEW b \in part'[Filemsg'.name] PROVE off' <= Len(b)
      OBVIOUS
    <3>1. b \in Seq(Block) /\ off' = 0
      BY <1>3, <1>4
    <3>. QED BY <3>1, LenProperties
  <2>2. off' = NoFd => diskLeft' < DiskBudget
    BY <1>4, BudgetAssumption DEF TypeOK, NoFd
  <2>3. link_id' = link_id /\ (off' # NoFd => part'[Filemsg'.name] # {})
    BY <1>4 DEF TakeRequest
  <2>. QED BY <1>1, <1>2, <1>3, <2>1, <2>2, <2>3 DEF HandlerFile
<1>8. ASSUME NEW q \in Process
      PROVE  AnnouncedFirst(q)' /\ NotYetConnected(q)' /\ SendsItsFile(q)'
  <2>1. CASE q = link_id
    BY <1>1, <2>1, ReqFacts DEF TakeRequest, cliVars, AnnouncedFirst, NotYetConnected, SendsItsFile
  <2>2. CASE q # link_id
    BY <1>2, <1>5, <2>2 DEF TakeRequest, cliVars, AnnouncedFirst, NotYetConnected, SendsItsFile, InHandler
  <2>. QED BY <2>1, <2>2
<1>. QED BY <1>6, <1>7, <1>8

\* One round of the recv loop takes blocks of file data, and writes at an offset within
\* the .filepart.
LEMMA RecvFileEffect ==
  ASSUME StreamInv, NEW r \in 1..RecvMax, NEW w \in {-1} \cup 1..r,
         link_id # NoProcess, r <= Len(up[link_id]), RecvFile(r, w)
  PROVE  /\ link_id \in Process /\ up[link_id] \in Seq(Block) /\ up'[link_id] \in Seq(Block)
         /\ Len(up'[link_id]) = Len(up[link_id]) - r
         /\ \A q \in Process : q # link_id => up'[q] = up[q]
         /\ TypeOK' /\ HandlerFile'
<1>. USE DEF StreamInv
<1>1. /\ link_id \in Process /\ up[link_id] \in Seq(Block) /\ Filemsg = FileOf[link_id]
      /\ Filemsg.name \in Name /\ spc = "recvFile" /\ r \in Nat
  <2>1. spc = "recvFile" /\ link_id \in Process /\ Filemsg = FileOf[link_id]
    BY DEF RecvFile, HandlerFile
  <2>2. up[link_id] \in Seq(Block)
    BY <2>1 DEF TypeOK, AnnouncedFirst, InHandler
  <2>. QED BY <2>1, <2>2, FileOfAssumption, BufAssumption
<1>. DEFINE data == SubSeq(up[link_id], 1, r)
            rest == SubSeq(up[link_id], r + 1, Len(up[link_id]))
            old == CHOOSE b \in part[Filemsg.name] : TRUE
            new == Overwrite(old, off, SubSeq(data, 1, w))
<1>2. data \in Seq(Block) /\ Len(data) = r /\ rest \in Seq(Block) /\ Len(rest) = Len(up[link_id]) - r
  BY <1>1, TakeBlocks
<1>3. /\ up' = [up EXCEPT ![link_id] = rest]
      /\ up' \in [Process -> Seq(Block) \cup {<<"REQ">>}]
      /\ up'[link_id] = rest /\ \A q \in Process : q # link_id => up'[q] = up[q]
  <2>1. up' = [up EXCEPT ![link_id] = rest]
    BY DEF RecvFile
  <2>. HIDE DEF rest
  <2>. QED BY <1>1, <1>2, <2>1 DEF TypeOK
<1>4. off # NoFd => old \in Seq(Block) /\ off \in 0..Len(old)
  <2>. HAVE off # NoFd
  <2>1. old \in part[Filemsg.name]
    BY <1>1 DEF HandlerFile
  <2>2. old \in Seq(Block) /\ off <= Len(old)
    BY <1>1, <2>1 DEF HandlerFile, TypeOK
  <2>. QED BY <2>2, LenProperties DEF TypeOK
<1>5. CASE w = -1
  <2>1. UNCHANGED <<part, off, final, Filemsg, link_id, killsLeft, conn, down, backlog, cliVars>>
    BY <1>5 DEF RecvFile
  <2>2. /\ len' \in Int /\ spc' \in {"recvFile", "check"} /\ diskLeft' \in 0..DiskBudget
        /\ off = NoFd => diskLeft' = diskLeft
    BY <1>5, BudgetAssumption DEF RecvFile, TypeOK
  <2>3. TypeOK'
    BY <1>3, <2>1, <2>2 DEF TypeOK, cliVars
  <2>4. HandlerFile'
    BY <1>1, <2>1, <2>2 DEF HandlerFile
  <2>. QED BY <1>1, <1>2, <1>3, <2>3, <2>4
<1>6. CASE w # -1
  <2>1. w \in 1..r
    BY <1>6
  <2>2. SubSeq(data, 1, w) \in Seq(Block) /\ Len(SubSeq(data, 1, w)) = w
    <3>. HIDE DEF data
    <3>. QED BY <1>1, <1>2, <2>1, TakeBlocks
  <2>0. off # NoFd /\ off \in Nat
    BY <1>6 DEF RecvFile, TypeOK
  <2>3. new \in Seq(Block) /\ off + w <= Len(new)
    <3>. HIDE DEF data, old
    <3>. QED BY <1>4, <2>0, <2>2, OverwriteType
  <2>4. part' = [part EXCEPT ![Filemsg.name] = {new}] /\ off' = off + w
    BY <1>6 DEF RecvFile
  <2>5. UNCHANGED <<final, Filemsg, link_id, killsLeft, conn, down, backlog, cliVars>>
    BY DEF RecvFile
  <2>6. len' \in Int /\ spc' \in {"recvFile", "check"} /\ diskLeft' \in 0..DiskBudget
    <3>1. BlockLen * w \in Int
      BY <1>1, <2>1, BlockLenAssumption
    <3>. QED BY <1>6, <3>1, BudgetAssumption DEF RecvFile, TypeOK
  <2>. HIDE DEF new
  <2>7. part' \in [Name -> SUBSET Seq(Block)] /\ part'[Filemsg.name] = {new} /\ off' \in Nat
    BY <1>1, <2>0, <2>1, <2>3, <2>4 DEF TypeOK
  <2>8. TypeOK'
    BY <1>3, <2>5, <2>6, <2>7 DEF TypeOK, cliVars
  <2>9. HandlerFile'
    BY <1>1, <2>3, <2>4, <2>5, <2>6, <2>7 DEF HandlerFile, NoFd
  <2>. QED BY <1>1, <1>2, <1>3, <2>8, <2>9
<1>. QED BY <1>5, <1>6

\* The receiver's recv loop, its end and the check of the digest.
LEMMA HandlerStream == ASSUME StreamInv, RecvSome \/ RecvFileEnds \/ Check PROVE StreamInv'
<1>. USE DEF StreamInv
<1>1. CASE RecvSome
  <2>. PICK r \in 1..RecvMax : \E w \in {-1} \cup 1..r :
         link_id # NoProcess /\ r <= Len(up[link_id]) /\ RecvFile(r, w)
    BY <1>1 DEF RecvSome
  <2>. PICK w \in {-1} \cup 1..r :
         link_id # NoProcess /\ r <= Len(up[link_id]) /\ RecvFile(r, w)
    OBVIOUS
  <2>1. /\ link_id \in Process /\ up'[link_id] \in Seq(Block)
        /\ \A q \in Process : q # link_id => up'[q] = up[q]
        /\ TypeOK' /\ HandlerFile'
    BY RecvFileEffect
  <2>2. ASSUME NEW q \in Process
        PROVE  AnnouncedFirst(q)' /\ NotYetConnected(q)' /\ SendsItsFile(q)'
    <3>1. UNCHANGED <<cpc, sent, down, backlog, link_id>> /\ spc = "recvFile"
      BY DEF RecvFile, cliVars
    <3>2. CASE q = link_id
      <4>1. cpc[q] # "idle" /\ up'[q] # <<"REQ">>
        BY <2>1, <3>2, ReqFacts DEF NotYetConnected
      <4>. QED BY <3>1, <4>1 DEF AnnouncedFirst, NotYetConnected, SendsItsFile
    <3>3. CASE q # link_id
      BY <2>1, <3>1, <3>3 DEF AnnouncedFirst, NotYetConnected, SendsItsFile, InHandler
    <3>. QED BY <3>2, <3>3
  <2>. QED BY <2>1, <2>2
<1>2. CASE RecvFileEnds
  <2>1. /\ conn' \in [Process -> {"none", "open", "fin", "rst", "broken"}]
        /\ spc = "recvFile" /\ spc' = "check"
        /\ UNCHANGED <<cliVars, up, down, backlog, link_id, Filemsg, len, off, part, final, stored,
                       unmoved, killsLeft, diskLeft>>
    BY <1>2 DEF RecvFileEnds, AfterEnd, TypeOK
  <2>2. TypeOK'
    BY <2>1 DEF TypeOK, cliVars
  <2>3. HandlerFile'
    BY <2>1 DEF HandlerFile
  <2>4. ASSUME NEW q \in Process
        PROVE  AnnouncedFirst(q)' /\ NotYetConnected(q)' /\ SendsItsFile(q)'
    BY <2>1 DEF cliVars, AnnouncedFirst, NotYetConnected, SendsItsFile, InHandler
  <2>. QED BY <2>2, <2>3, <2>4
<1>3. CASE Check
  <2>1. link_id \in Process /\ spc = "check" /\ Filemsg = FileOf[link_id] /\ Filemsg.name \in Name
    BY <1>3, FileOfAssumption DEF Check, HandlerFile
  <2>2. /\ conn' \in [Process -> {"none", "open", "fin", "rst", "broken"}]
        /\ down' \in [Process -> Seq(Answer)] /\ spc' \in {"recvMsg", "dead"}
        /\ \A q \in Process : q # link_id => down'[q] = down[q]
    <3>1. SendAnswer("FINISH_OK", "recvMsg") \/ SendAnswer("FINISH_FAIL", "recvMsg")
      BY <1>3 DEF Check
    <3>. QED BY <2>1, <3>1, SendAnswerEffect DEF Answer
  <2>3. part' \in [Name -> SUBSET Seq(Block)] /\ final' \in [Name -> SUBSET Seq(Block)]
    BY <1>3, <2>1, ZenonT(60) DEF Check, Move, MoveFails, TypeOK
  <2>4. UNCHANGED <<cpc, sent, said, up, backlog, link_id, Filemsg, len, off, killsLeft, diskLeft>>
    BY <1>3 DEF Check, cliVars
  <2>5. TypeOK'
    BY <2>2, <2>3, <2>4 DEF TypeOK
  <2>6. HandlerFile'
    BY <2>1, <2>2, <2>4 DEF HandlerFile
  <2>7. ASSUME NEW q \in Process
        PROVE  AnnouncedFirst(q)' /\ NotYetConnected(q)' /\ SendsItsFile(q)'
    <3>1. CASE q = link_id
      <4>1. cpc[q] # "idle" /\ up[q] # <<"REQ">>
        BY <2>1, <3>1 DEF NotYetConnected, AnnouncedFirst, InHandler
      <4>. QED BY <2>4, <4>1 DEF AnnouncedFirst, NotYetConnected, SendsItsFile
    <3>2. CASE q # link_id
      BY <2>2, <2>4, <3>2 DEF AnnouncedFirst, NotYetConnected, SendsItsFile, InHandler
    <3>. QED BY <3>1, <3>2
  <2>. QED BY <2>5, <2>6, <2>7
<1>. QED BY <1>1, <1>2, <1>3

\* Every step keeps the invariant of the stream.
LEMMA StreamStep == StreamInv /\ [Next]_vars => StreamInv'
<1>. SUFFICES ASSUME StreamInv, [Next]_vars PROVE StreamInv'
  OBVIOUS
<1>1. CASE Receiver
  BY <1>1, OuterLoopStream, TakeRequestStream, HandlerStream DEF Receiver
<1>2. ASSUME NEW p \in Process, Connect(p)
      PROVE  StreamInv'
  BY <1>2, ConnectStream
<1>3. ASSUME NEW p \in Process, Sends(p)
      PROVE  StreamInv'
  BY <1>3, SendsStream
<1>4. ASSUME NEW p \in Process, Kill(p)
      PROVE  StreamInv'
  <2>1. killsLeft' \in 0..KillBudget
    BY <1>4, BudgetAssumption DEF Kill, StreamInv, TypeOK
  <2>. QED BY <1>4, <2>1, GoneStream DEF Kill
<1>5. CASE UNCHANGED vars
  <2>1. UNCHANGED <<cpc, sent, said, conn, up, down, backlog, spc, link_id, Filemsg, len, off, part,
                    final, stored, unmoved, killsLeft, diskLeft>>
    BY <1>5 DEF vars, cliVars, netVars, srvVars
  <2>. QED BY <2>1 DEF StreamInv, TypeOK, HandlerFile, AnnouncedFirst, NotYetConnected, SendsItsFile, InHandler
<1>. QED BY <1>1, <1>2, <1>3, <1>4, <1>5 DEF Next

\* Nothing is sent, accepted or open at the start.
LEMMA StreamInit == Init => StreamInv
<1>. SUFFICES ASSUME Init PROVE StreamInv
  OBVIOUS
<1>1. TypeOK
  BY EmptySeq, BudgetAssumption DEF Init, TypeOK
<1>2. HandlerFile
  BY DEF Init, HandlerFile
<1>3. ASSUME NEW p \in Process
      PROVE  AnnouncedFirst(p) /\ NotYetConnected(p) /\ SendsItsFile(p)
  BY <1>3, NoProcessAssumption, ReqFacts DEF Init, AnnouncedFirst, NotYetConnected, SendsItsFile
<1>. QED BY <1>1, <1>2, <1>3 DEF StreamInv

\* The stream to the receiver is the announcement alone or file data alone, a .filepart and
\* a published file are files (no write leaves a hole), and the offset, the counters and
\* the states of both programs keep their types (server.c:42-144, client.c:36-165).
THEOREM TcpTypeCorrect == Spec => []TypeOK
<1>1. StreamInv => TypeOK
  BY DEF StreamInv
<1>. QED BY <1>1, StreamInit, StreamStep, PTL DEF Spec

-----------------------------------------------------------------------------
(* What is published, and what the sender is told.                         *)

\* What a step does to the published files, the answers and what senders have printed: only
\* Check publishes, and only with the digest of the announced file.
LEMMA PublishStep ==
  ASSUME StreamInv, [Next]_vars
  PROVE  /\ stored \subseteq stored' /\ unmoved \subseteq unmoved'
         /\ \/ final' = final
            \/ /\ link_id \in Process
               /\ final' = [final EXCEPT ![FileOf[link_id].name] = FileOf[link_id].bytes]
<1>1. CASE Receiver
  <2>1. CASE Check
    <3>1. link_id \in Process /\ spc = "check" /\ Filemsg = FileOf[link_id]
      BY <2>1 DEF Check, StreamInv, HandlerFile
    <3>. QED BY <2>1, <3>1 DEF Check, Move, MoveFails
  <2>2. CASE RecvSome
    BY <2>2 DEF RecvSome, RecvFile
  <2>3. CASE Accept \/ TakeRequest \/ SkipData \/ CloseLink \/ RecvFileEnds
    BY <2>3 DEF Accept, TakeRequest, SkipData, CloseLink, RecvFileEnds, srvVars
  <2>. QED BY <1>1, <2>1, <2>2, <2>3 DEF Receiver
<1>2. ASSUME NEW p \in Process, Connect(p) \/ Sends(p) \/ Kill(p)
      PROVE  UNCHANGED <<final, stored, unmoved>>
  BY <1>2 DEF Connect, Sends, Kill, RecvReqAnswer, SendBlock, SentAll, RecvFinishAnswer, HangUp, srvVars
<1>3. CASE UNCHANGED vars
  BY <1>3 DEF vars, srvVars
<1>. QED BY <1>1, <1>2, <1>3 DEF Next

\* What is published under a name is the whole file of a sender of that name, whatever
\* longer or shorter .filepart an earlier upload left (server.c:53, 99-120).
THEOREM TcpPublishedWhole == Spec => []PublishedWhole
<1>1. Init => PublishedWhole
  BY DEF Init, PublishedWhole
<1>2. StreamInv /\ PublishedWhole /\ [Next]_vars => PublishedWhole'
  <2>. SUFFICES ASSUME StreamInv, PublishedWhole, [Next]_vars,
                       NEW n \in Name, final'[n] # {}
                PROVE  \E p \in Process : FileOf[p].name = n /\ FileOf[p].bytes = final'[n]
    BY DEF PublishedWhole
  <2>1. CASE final'[n] = final[n]
    BY <2>1 DEF PublishedWhole
  <2>2. CASE final'[n] # final[n]
    <3>1. /\ link_id \in Process /\ final \in [Name -> SUBSET Seq(Block)]
          /\ final' = [final EXCEPT ![FileOf[link_id].name] = FileOf[link_id].bytes]
      BY <2>2, PublishStep DEF StreamInv, TypeOK
    <3>2. FileOf[link_id].name = n /\ FileOf[link_id].bytes = final'[n]
      BY <2>2, <3>1
    <3>. QED BY <3>1, <3>2
  <2>. QED BY <2>1, <2>2
<1>. QED BY <1>1, <1>2, StreamInit, StreamStep, PTL DEF Spec

HonestInv == \A p \in Process : AnswerHonest(p)

\* A sender that is gone has read at most its last answer.
LEMMA GoneHonest ==
  ASSUME StreamInv, HonestInv, NEW p \in Process, NEW word, NEW unread, Gone(p, word, unread),
         word = "ok" => Received(p), UNCHANGED <<stored, unmoved>>
  PROVE  HonestInv'
<1>. SUFFICES ASSUME NEW q \in Process PROVE AnswerHonest(q)'
  BY DEF HonestInv
<1>1. CASE q = p
  <2>1. down'[p] = <<>> /\ said'[p] = word /\ Len(<<>>) = 0
    BY DEF Gone, StreamInv, TypeOK
  <2>2. Received(p)' = Received(p)
    BY DEF Received
  <2>. QED BY <1>1, <2>1, <2>2 DEF AnswerHonest
<1>2. CASE q # p
  BY <1>2 DEF Gone, StreamInv, TypeOK, AnswerHonest, HonestInv, Received
<1>. QED BY <1>1, <1>2

\* Every step keeps the answers honest.
LEMMA HonestStep == StreamInv /\ HonestInv /\ [Next]_vars => HonestInv'
<1>. SUFFICES ASSUME StreamInv, HonestInv, [Next]_vars PROVE HonestInv'
  OBVIOUS
<1>0. \A q \in Process : Received(q) => Received(q)'
  BY PublishStep DEF Received
<1>1. ASSUME UNCHANGED <<down, said>>
      PROVE  HonestInv'
  BY <1>0, <1>1 DEF HonestInv, AnswerHonest
<1>2. ASSUME NEW a \in Answer, NEW next \in {"recvMsg", "recvFile"}, link_id \in Process,
             SendAnswer(a, next), UNCHANGED said,
             a = "FINISH_OK" => \A q \in Process : q = link_id => Received(q)'
      PROVE  HonestInv'
  <2>. SUFFICES ASSUME NEW q \in Process PROVE AnswerHonest(q)'
    BY DEF HonestInv
  <2>1. CASE down'[q] = down[q]
    BY <1>0, <1>2, <2>1 DEF HonestInv, AnswerHonest
  <2>2. CASE down'[q] # down[q]
    <3>1. q = link_id /\ down'[q] = Append(down[q], a) /\ down[q] \in Seq(Answer)
      BY <1>2, <2>2, SendAnswerEffect DEF StreamInv, TypeOK
    <3>2. /\ Len(down'[q]) = Len(down[q]) + 1 /\ Len(down[q]) \in Nat
          /\ down'[q][Len(down[q]) + 1] = a
          /\ \A k \in 1..Len(down[q]) : down'[q][k] = down[q][k]
      BY <3>1, AppendProperties, LenProperties
    <3>3. ASSUME NEW k \in 1..Len(down'[q]), down'[q][k] = "FINISH_OK"
          PROVE  Received(q)'
      <4>1. k \in 1..Len(down[q]) \/ k = Len(down[q]) + 1
        BY <3>2
      <4>. QED BY <1>0, <1>2, <3>1, <3>2, <3>3, <4>1 DEF HonestInv, AnswerHonest
    <3>. QED BY <1>0, <1>2, <3>3 DEF HonestInv, AnswerHonest
  <2>. QED BY <2>1, <2>2
<1>3. CASE Receiver
  <2>1. CASE Check
    <3>1. link_id \in Process /\ Filemsg = FileOf[link_id] /\ UNCHANGED said
      BY <2>1 DEF Check, StreamInv, HandlerFile, cliVars
    <3>2. CASE SendAnswer("FINISH_FAIL", "recvMsg")
      BY <1>2, <3>1, <3>2 DEF Answer
    <3>3. CASE Move(Filemsg.name) \/ MoveFails
      <4>1. \A q \in Process : q = link_id => Received(q)'
        BY <3>1, <3>3 DEF Move, MoveFails, Received
      <4>2. SendAnswer("FINISH_OK", "recvMsg") \/ SendAnswer("FINISH_FAIL", "recvMsg")
        BY <2>1 DEF Check
      <4>. QED BY <1>2, <3>1, <4>1, <4>2 DEF Answer
    <3>. QED BY <2>1, <3>2, <3>3 DEF Check
  <2>2. CASE TakeRequest
    <3>1. link_id \in Process /\ UNCHANGED said /\ SendAnswer("REQ_OK", "recvFile")
      BY <2>2 DEF TakeRequest, StreamInv, HandlerFile, cliVars
    <3>. QED BY <1>2, <3>1 DEF Answer
  <2>3. CASE RecvSome
    BY <1>1, <2>3 DEF RecvSome, RecvFile, cliVars
  <2>4. CASE Accept \/ SkipData \/ CloseLink \/ RecvFileEnds
    BY <1>1, <2>4 DEF Accept, SkipData, CloseLink, RecvFileEnds, cliVars, netVars
  <2>. QED BY <1>3, <2>1, <2>2, <2>3, <2>4 DEF Receiver
<1>4. ASSUME NEW p \in Process, RecvReqAnswer(p)
      PROVE  HonestInv'
  <2>1. CASE Gone(p, "noread", Tail(down[p]))
    BY <1>4, <2>1, GoneHonest DEF RecvReqAnswer, srvVars
  <2>2. CASE down' = [down EXCEPT ![p] = Tail(@)] /\ UNCHANGED said
    <3>. SUFFICES ASSUME NEW q \in Process PROVE AnswerHonest(q)'
      BY DEF HonestInv
    <3>. down[p] # <<>>
      BY <1>4 DEF RecvReqAnswer
    <3>1. CASE q # p
      BY <1>0, <2>2, <3>1 DEF HonestInv, AnswerHonest, StreamInv, TypeOK
    <3>2. CASE q = p
      <4>1. down'[p] = Tail(down[p]) /\ down[p] \in Seq(Answer)
        BY <2>2 DEF StreamInv, TypeOK
      <4>2. /\ Len(down'[p]) = Len(down[p]) - 1 /\ Len(down[p]) \in Nat
            /\ \A k \in 1..Len(down'[p]) : down'[p][k] = down[p][k + 1]
        BY <4>1, HeadTailProperties, LenProperties
      <4>3. \A k \in 1..Len(down'[p]) : k + 1 \in 1..Len(down[p])
        BY <4>2
      <4>. QED BY <1>0, <2>2, <3>2, <4>2, <4>3 DEF HonestInv, AnswerHonest
    <3>. QED BY <3>1, <3>2
  <2>. QED BY <1>4, <2>1, <2>2 DEF RecvReqAnswer
<1>5. ASSUME NEW p \in Process, RecvFinishAnswer(p)
      PROVE  HonestInv'
  <2>1. down[p] # <<>> /\ Head(down[p]) = down[p][1] /\ 1 \in 1..Len(down[p])
    BY <1>5, EmptySeq, LenProperties DEF RecvFinishAnswer, StreamInv, TypeOK
  <2>2. Head(down[p]) = "FINISH_OK" => Received(p)
    BY <2>1 DEF HonestInv, AnswerHonest
  <2>. DEFINE word == IF Head(down[p]) = "FINISH_OK" THEN "ok" ELSE "fail"
  <2>3. Gone(p, word, Tail(down[p])) /\ UNCHANGED <<stored, unmoved>> /\ (word = "ok" => Received(p))
    BY <1>5, <2>2 DEF RecvFinishAnswer, srvVars
  <2>. HIDE DEF word
  <2>. QED BY <2>3, GoneHonest
<1>6. ASSUME NEW p \in Process, HangUp(p) \/ Kill(p)
      PROVE  HonestInv'
  BY <1>6, GoneHonest DEF HangUp, Kill, srvVars
<1>7. ASSUME NEW p \in Process, Connect(p) \/ SendBlock(p) \/ SentAll(p)
      PROVE  HonestInv'
  BY <1>1, <1>7 DEF Connect, SendBlock, SentAll, netVars
<1>8. CASE UNCHANGED vars
  BY <1>1, <1>8 DEF vars, cliVars, netVars
<1>. QED BY <1>3, <1>4, <1>5, <1>6, <1>7, <1>8 DEF Next, Sends

\* "file send is ok" is printed only after the receiver had exactly that sender's file, and
\* published it unless the "mv" whose result server.c:119 does not look at failed
\* (client.c:146-165, server.c:68-144): no open() or write() that failed, no short write and
\* no connection cut off passes for a file.
THEOREM TcpOkMeansStored == Spec => []OkMeansStored
<1>1. Init => HonestInv
  <2>. SUFFICES ASSUME Init, NEW p \in Process PROVE AnswerHonest(p)
    BY DEF HonestInv
  <2>1. down[p] = <<>> /\ said[p] = "nothing" /\ Len(<<>>) = 0
    BY DEF Init
  <2>. QED BY <2>1 DEF AnswerHonest
<1>2. HonestInv => OkMeansStored
  BY DEF HonestInv, AnswerHonest, OkMeansStored, Received
<1>. QED BY <1>1, <1>2, HonestStep, StreamInit, StreamStep, PTL DEF Spec

-----------------------------------------------------------------------------
(* What is counted.                                                        *)

LenInv == \A p \in Process : LenExact(p)

\* A step that leaves the receiver's loop, the stream and its count alone, or after which
\* the receiver is not in the loop, keeps the count.
LEMMA LenKept ==
  ASSUME LenInv,
         \/ spc' # "recvFile"
         \/ /\ UNCHANGED <<spc, link_id, Filemsg, len, diskLeft>>
            /\ link_id \in Process =>
                 sent'[link_id] - Len(up'[link_id]) = sent[link_id] - Len(up[link_id])
  PROVE  LenInv'
BY DEF LenInv, LenExact, Counted

\* Every step keeps the count.
LEMMA LenStep == StreamInv /\ LenInv /\ [Next]_vars => LenInv'
<1>. SUFFICES ASSUME StreamInv, LenInv, [Next]_vars PROVE LenInv'
  OBVIOUS
<1>1. CASE Accept \/ CloseLink \/ RecvFileEnds
  BY <1>1, LenKept DEF Accept, CloseLink, RecvFileEnds
<1>2. CASE SkipData
  <2>1. spc' = "recvMsg"
    BY <1>2 DEF SkipData, srvVars
  <2>. QED BY <2>1, LenKept
<1>3. CASE Check
  <2>1. spc' \in {"recvMsg", "dead"}
    BY <1>3 DEF Check, SendAnswer
  <2>. QED BY <2>1, LenKept
<1>4. CASE TakeRequest
  <2>1. link_id \in Process /\ up[link_id] = <<"REQ">>
    BY <1>4, ReqFacts DEF TakeRequest, StreamInv, HandlerFile, TypeOK, AnnouncedFirst
  <2>2. sent'[link_id] = 0 /\ len' = 0 /\ up'[link_id] = <<>> /\ Len(<<>>) = 0 /\ link_id' = link_id
    BY <1>4, <2>1, ReqFacts DEF TakeRequest, StreamInv, TypeOK, AnnouncedFirst, cliVars
  <2>3. BlockLen * (0 - 0) = 0
    BY BlockLenAssumption
  <2>. QED BY <2>2, <2>3 DEF LenInv, LenExact
<1>5. CASE RecvSome
  <2>. PICK r \in 1..RecvMax : \E w \in {-1} \cup 1..r :
         link_id # NoProcess /\ r <= Len(up[link_id]) /\ RecvFile(r, w)
    BY <1>5 DEF RecvSome
  <2>. PICK w \in {-1} \cup 1..r :
         link_id # NoProcess /\ r <= Len(up[link_id]) /\ RecvFile(r, w)
    OBVIOUS
  <2>. SUFFICES ASSUME NEW q \in Process, diskLeft' = DiskBudget, spc' = "recvFile", link_id' = q
                PROVE  /\ len' = BlockLen * (sent'[q] - Len(up'[q]))
                       /\ len' = 0 \/ ~Counted(len)'
    BY DEF LenInv, LenExact
  <2>1. /\ spc = "recvFile" /\ link_id = q /\ UNCHANGED <<sent, Filemsg>>
        /\ Len(up'[q]) = Len(up[q]) - r
        /\ Len(up[q]) \in Nat /\ sent[q] \in Nat /\ r \in Nat /\ BlockLen \in Nat
    BY RecvFileEffect, LenProperties, BufAssumption, BlockLenAssumption
       DEF RecvFile, StreamInv, TypeOK, cliVars
  <2>2. w = r /\ diskLeft = DiskBudget
    <3>1. off = NoFd => diskLeft < DiskBudget
      BY <2>1 DEF StreamInv, HandlerFile
    <3>. QED BY <3>1, BudgetAssumption DEF RecvFile, StreamInv, TypeOK
  <2>3. len' = len + BlockLen * r /\ ~Counted(len')
    BY <2>1, <2>2 DEF RecvFile
  <2>4. len = BlockLen * (sent[q] - Len(up[q]))
    BY <2>1, <2>2 DEF LenInv, LenExact
  <2>5. BlockLen * (sent[q] - Len(up[q])) + BlockLen * r = BlockLen * (sent[q] - (Len(up[q]) - r))
    BY <2>1
  <2>6. ~Counted(len)'
    BY <2>1, <2>3 DEF Counted
  <2>. QED BY <2>1, <2>3, <2>4, <2>5, <2>6
<1>6. ASSUME NEW p \in Process, Connect(p)
      PROVE  LenInv'
  <2>1. link_id # p /\ UNCHANGED <<spc, link_id, Filemsg, len, diskLeft, sent>>
    BY <1>6 DEF Connect, StreamInv, NotYetConnected, srvVars
  <2>2. link_id \in Process => up'[link_id] = up[link_id]
    BY <1>6, <2>1 DEF Connect, StreamInv, TypeOK
  <2>. QED BY <2>1, <2>2, LenKept
<1>7. ASSUME NEW p \in Process, SendBlock(p)
      PROVE  LenInv'
  <2>1. UNCHANGED <<spc, link_id, Filemsg, len, diskLeft>>
    BY <1>7 DEF SendBlock, srvVars
  <2>2. ASSUME link_id \in Process
        PROVE  sent'[link_id] - Len(up'[link_id]) = sent[link_id] - Len(up[link_id])
    <3>1. CASE link_id # p
      BY <1>7, <2>2, <3>1 DEF SendBlock, StreamInv, TypeOK
    <3>2. CASE link_id = p
      <4>1. Bytes(FileOf[p]) \in Seq(Block) /\ up[p] \in Seq(Block) /\ sent[p] \in Nat
        BY <1>7, FileOfAssumption DEF SendBlock, StreamInv, TypeOK, SendsItsFile, AnnouncedFirst, Bytes
      <4>2. Bytes(FileOf[p])[sent[p] + 1] \in Block
        BY <1>7, <4>1, ElementOfSeq, LenProperties DEF SendBlock
      <4>3. Len(up'[p]) = Len(up[p]) + 1 /\ Len(up[p]) \in Nat /\ sent'[p] = sent[p] + 1
        BY <1>7, <4>1, <4>2, AppendProperties, LenProperties DEF SendBlock, StreamInv, TypeOK
      <4>. QED BY <3>2, <4>1, <4>3
    <3>. QED BY <3>1, <3>2
  <2>. QED BY <2>1, <2>2, LenKept
<1>8. ASSUME NEW p \in Process,
             RecvReqAnswer(p) \/ SentAll(p) \/ RecvFinishAnswer(p) \/ HangUp(p) \/ Kill(p)
      PROVE  LenInv'
  <2>1. UNCHANGED <<spc, link_id, Filemsg, len, diskLeft, sent, up>>
    BY <1>8 DEF RecvReqAnswer, SentAll, RecvFinishAnswer, HangUp, Kill, Gone, srvVars, netVars
  <2>. QED BY <2>1, LenKept
<1>9. CASE UNCHANGED vars
  BY <1>9, LenKept DEF vars, cliVars, netVars, srvVars
<1>. QED BY <1>1, <1>2, <1>3, <1>4, <1>5, <1>6, <1>7, <1>8, <1>9 DEF Next, Receiver, Sends

\* Sender and receiver wait for each other for ever only over an empty file or after an open or a
\* write failed or a write was short (server.c:81-98): whatever the sizes of the file, the blocks and the
\* reads, the loop ends with the last byte otherwise.
THEOREM TcpStallHasCause == Spec => []StallHasCause
<1>1. Init => LenInv
  BY DEF Init, LenInv, LenExact
<1>2. StreamInv /\ LenInv => StallHasCause
  <2>. SUFFICES ASSUME StreamInv, LenInv, NEW p \in Process, Stalled(p), ~(diskLeft < DiskBudget)
                PROVE  Bytes(FileOf[p]) = <<>>
    BY DEF StallHasCause
  <2>1. /\ diskLeft = DiskBudget /\ spc = "recvFile" /\ link_id = p
        /\ up[p] = <<>> /\ cpc[p] = "waitFinish" /\ Filemsg = FileOf[p]
    BY BudgetAssumption DEF Stalled, StreamInv, TypeOK, HandlerFile
  <2>2. /\ FileOf[p].bytes # {} /\ Bytes(FileOf[p]) \in Seq(Block)
        /\ sent[p] = Len(Bytes(FileOf[p])) /\ Len(<<>>) = 0
    BY <2>1, FileOfAssumption DEF StreamInv, SendsItsFile, Bytes
  <2>. DEFINE n == Len(Bytes(FileOf[p]))
  <2>3. n \in Nat /\ BlockLen \in Nat \ {0, 1}
    BY <2>2, LenProperties, BlockLenAssumption
  <2>4. len = BlockLen * (n - 0) /\ (len = 0 \/ ~Counted(len))
    BY <2>1, <2>2 DEF LenInv, LenExact
  <2>5. Counted(len)
    BY <2>1, <2>2, <2>3, <2>4 DEF Counted
  <2>6. n = 0
    BY <2>3, <2>4, <2>5
  <2>. QED BY <2>2, <2>6, EmptySeq
<1>. QED BY <1>1, <1>2, LenStep, StreamInit, StreamStep, PTL DEF Spec

-----------------------------------------------------------------------------
(* While no sender is killed.                                              *)

\* A step of another sender leaves the accepted connection where it was.
LEMMA LinkKept ==
  ASSUME NEW q \in Process, LinkStep(q), UNCHANGED <<spc, cpc[q], conn[q], up[q], down[q]>>
  PROVE  LinkStep(q)'
BY DEF LinkStep, Waiting, Streaming

\* A waiting connection that nothing touched is still waiting.
LEMMA WaitingKept ==
  ASSUME NEW q \in Process, Waiting(q), UNCHANGED <<cpc[q], conn[q], up[q], down[q]>>
  PROVE  Waiting(q)'
BY DEF Waiting

\* A step of one sender that is not waiting in the backlog leaves the backlog as it is.
LEMMA NoKillSender ==
  ASSUME StreamInv, NoKillInv, killsLeft = KillBudget, NEW p \in Process,
         UNCHANGED <<spc, link_id, backlog>>, down[p] # <<>> \/ cpc[p] # "waitReq",
         \A q \in Process : q # p => UNCHANGED <<cpc[q], conn[q], up[q], down[q]>>,
         ClosedByEnd(p)', link_id = p => LinkStep(p)'
  PROVE  NoKillInv'
<1>1. \A q \in Process : ClosedByEnd(q)' /\ (link_id' = q => LinkStep(q)')
  <2>. SUFFICES ASSUME NEW q \in Process PROVE ClosedByEnd(q)' /\ (link_id' = q => LinkStep(q)')
    OBVIOUS
  <2>. QED BY LinkKept DEF NoKillInv, ClosedByEnd
<1>2. ASSUME NEW k \in 1..Len(backlog)
      PROVE  /\ Waiting(backlog[k])' /\ link_id' # backlog'[k]
             /\ \A j \in 1..Len(backlog) : backlog'[j] = backlog'[k] => j = k
  <2>1. backlog[k] \in Process /\ Waiting(backlog[k])
    BY ElementOfSeq DEF NoKillInv, StreamInv, TypeOK
  <2>2. backlog[k] # p
    BY <2>1 DEF Waiting
  <2>3. Waiting(backlog[k])'
    BY <2>1, <2>2, WaitingKept
  <2>. QED BY <2>3 DEF NoKillInv
<1>. QED BY <1>1, <1>2 DEF NoKillInv

\* A step of the receiver that leaves the waiting connections alone.
LEMMA NoKillReceiver ==
  ASSUME StreamInv, NoKillInv, killsLeft = KillBudget, NEW p \in Process, link_id = p,
         spc' # "dead", UNCHANGED <<cpc, backlog>>, link_id' \in {p, NoProcess},
         \A q \in Process : q # p => UNCHANGED <<conn[q], up[q], down[q]>>,
         ClosedByEnd(p)', link_id' = p => LinkStep(p)'
  PROVE  NoKillInv'
<1>1. \A q \in Process : ClosedByEnd(q)' /\ (link_id' = q => LinkStep(q)')
  <2>1. ASSUME NEW q \in Process, q # p
        PROVE  ClosedByEnd(q)' /\ link_id' # q
    BY <2>1, NoProcessAssumption DEF NoKillInv, ClosedByEnd
  <2>. QED BY <2>1
<1>2. ASSUME NEW k \in 1..Len(backlog)
      PROVE  /\ Waiting(backlog[k])' /\ link_id' # backlog'[k]
             /\ \A j \in 1..Len(backlog) : backlog'[j] = backlog'[k] => j = k
  <2>1. backlog[k] \in Process /\ Waiting(backlog[k]) /\ backlog[k] # p
    BY ElementOfSeq DEF NoKillInv, StreamInv, TypeOK
  <2>2. Waiting(backlog[k])'
    BY <2>1, WaitingKept
  <2>. QED BY <2>1, <2>2, NoProcessAssumption DEF NoKillInv
<1>. QED BY <1>1, <1>2 DEF NoKillInv

\* A sender's steps, while none is killed.
LEMMA NoKillSends ==
  ASSUME StreamInv, NoKillInv, killsLeft = KillBudget, NEW p \in Process, Sends(p)
  PROVE  NoKillInv'
<1>0. spc # "dead" /\ ClosedByEnd(p) /\ (link_id = p => LinkStep(p))
  BY DEF NoKillInv
<1>1. CASE RecvReqAnswer(p)
  <2>0. UNCHANGED <<spc, link_id, backlog, up>> /\ down[p] # <<>> /\ cpc[p] = "waitReq"
    BY <1>1 DEF RecvReqAnswer, Gone, srvVars
  <2>1. Len(down[p]) = 1 => Tail(down[p]) = <<>>
    <3>1. down[p] \in Seq(Answer)
      BY DEF StreamInv, TypeOK
    <3>2. Tail(down[p]) \in Seq(Answer) /\ Len(Tail(down[p])) = Len(down[p]) - 1
      BY <2>0, <3>1, HeadTailProperties
    <3>. DEFINE t == Tail(down[p])
    <3>3. Len(down[p]) = 1 => t \in Seq(Answer) /\ Len(t) = 0
      BY <3>2
    <3>. HIDE DEF t
    <3>4. t \in Seq(Answer) /\ Len(t) = 0 => t = <<>>
      BY EmptySeq
    <3>. QED BY <3>3, <3>4 DEF t
  <2>2. CASE Gone(p, "noread", Tail(down[p]))
    <3>1. /\ cpc'[p] = "ended" /\ conn'[p] \in {"fin", "rst"}
          /\ (Tail(down[p]) = <<>> => conn'[p] = "fin")
          /\ \A q \in Process : q # p => UNCHANGED <<cpc[q], conn[q], up[q], down[q]>>
      BY <2>0, <2>2 DEF Gone, StreamInv, TypeOK
    <3>2. ClosedByEnd(p)'
      BY <3>1 DEF ClosedByEnd
    <3>3. ASSUME link_id = p PROVE LinkStep(p)'
      BY <1>0, <2>0, <2>1, <3>1, <3>3 DEF LinkStep, Waiting, Streaming, ClosedByEnd
    <3>. QED BY <2>0, <3>1, <3>2, <3>3, NoKillSender
  <2>3. CASE /\ cpc' = [cpc EXCEPT ![p] = "sending"] /\ down' = [down EXCEPT ![p] = Tail(@)]
             /\ UNCHANGED conn
    <3>1. /\ cpc'[p] = "sending" /\ down'[p] = Tail(down[p])
          /\ \A q \in Process : q # p => UNCHANGED <<cpc[q], conn[q], up[q], down[q]>>
      BY <2>0, <2>3 DEF StreamInv, TypeOK
    <3>2. ClosedByEnd(p)'
      BY <1>0, <2>0, <2>3 DEF ClosedByEnd
    <3>3. ASSUME link_id = p PROVE LinkStep(p)'
      BY <1>0, <2>0, <2>1, <2>3, <3>1, <3>3 DEF LinkStep, Waiting, Streaming, ClosedByEnd
    <3>. QED BY <2>0, <3>1, <3>2, <3>3, NoKillSender
  <2>. QED BY <1>1, <2>2, <2>3 DEF RecvReqAnswer
<1>2. CASE SendBlock(p)
  <2>1. /\ UNCHANGED <<spc, link_id, backlog, cpc, conn, down>> /\ cpc[p] = "sending"
        /\ \A q \in Process : q # p => UNCHANGED <<cpc[q], conn[q], up[q], down[q]>>
    BY <1>2 DEF SendBlock, srvVars, StreamInv, TypeOK
  <2>2. ClosedByEnd(p)'
    BY <1>0, <2>1 DEF ClosedByEnd
  <2>3. ASSUME link_id = p PROVE LinkStep(p)'
    BY <1>0, <2>1, <2>3 DEF LinkStep, Waiting, Streaming, ClosedByEnd
  <2>. QED BY <2>1, <2>2, <2>3, NoKillSender
<1>3. CASE SentAll(p)
  <2>1. /\ UNCHANGED <<spc, link_id, backlog, up, conn, down>> /\ cpc[p] = "sending"
        /\ cpc'[p] = "waitFinish"
        /\ \A q \in Process : q # p => UNCHANGED <<cpc[q], conn[q], up[q], down[q]>>
    BY <1>3 DEF SentAll, netVars, srvVars, StreamInv, TypeOK
  <2>2. ClosedByEnd(p)'
    BY <1>0, <2>1 DEF ClosedByEnd
  <2>3. ASSUME link_id = p PROVE LinkStep(p)'
    BY <1>0, <2>1, <2>3 DEF LinkStep, Waiting, Streaming, ClosedByEnd
  <2>. QED BY <2>1, <2>2, <2>3, NoKillSender
<1>4. CASE RecvFinishAnswer(p)
  <2>1. /\ UNCHANGED <<spc, link_id, backlog, up>> /\ cpc[p] = "waitFinish" /\ down[p] # <<>>
        /\ cpc'[p] = "ended" /\ conn'[p] \in {"fin", "rst"}
        /\ \A q \in Process : q # p => UNCHANGED <<cpc[q], conn[q], up[q], down[q]>>
    BY <1>4 DEF RecvFinishAnswer, Gone, srvVars, StreamInv, TypeOK
  <2>2. ClosedByEnd(p)'
    BY <2>1 DEF ClosedByEnd
  <2>3. ASSUME link_id = p PROVE LinkStep(p)'
    <3>1. up[p] # <<"REQ">>
      BY <2>1 DEF StreamInv, AnnouncedFirst
    <3>. QED BY <1>0, <2>1, <2>3, <3>1 DEF LinkStep, Waiting, Streaming, ClosedByEnd
  <2>. QED BY <2>1, <2>2, <2>3, NoKillSender
<1>5. ~HangUp(p)
  BY <1>0 DEF HangUp
<1>. QED BY <1>1, <1>2, <1>3, <1>4, <1>5 DEF Sends

\* A new connection waits at the end of the backlog.
LEMMA NoKillConnect ==
  ASSUME StreamInv, NoKillInv, killsLeft = KillBudget, NEW p \in Process, Connect(p)
  PROVE  NoKillInv'
<1>1. /\ link_id # p /\ \A k \in 1..Len(backlog) : backlog[k] # p
      /\ down[p] = <<>> /\ cpc[p] = "idle"
  BY DEF Connect, StreamInv, NotYetConnected
<1>2. /\ UNCHANGED <<spc, link_id, down, killsLeft>> /\ cpc'[p] = "waitReq" /\ conn'[p] = "open"
      /\ up'[p] = <<"REQ">>
      /\ \A q \in Process : q # p => UNCHANGED <<cpc[q], conn[q], up[q], down[q]>>
  BY DEF Connect, srvVars, StreamInv, TypeOK
<1>3. /\ Len(backlog') = Len(backlog) + 1 /\ Len(backlog) \in Nat
      /\ backlog'[Len(backlog) + 1] = p
      /\ \A k \in 1..Len(backlog) : backlog'[k] = backlog[k] /\ backlog[k] \in Process
  BY AppendProperties, LenProperties, ElementOfSeq DEF Connect, StreamInv, TypeOK
<1>4. ASSUME NEW q \in Process PROVE ClosedByEnd(q)' /\ (link_id' = q => LinkStep(q)')
  <2>1. CASE q = p
    BY <1>1, <1>2, <2>1 DEF ClosedByEnd
  <2>2. CASE q # p
    BY <1>2, <2>2, LinkKept DEF NoKillInv, ClosedByEnd
  <2>. QED BY <2>1, <2>2
<1>5. ASSUME NEW k \in 1..Len(backlog')
      PROVE  /\ Waiting(backlog[k])' /\ link_id' # backlog'[k]
             /\ \A j \in 1..Len(backlog') : backlog'[j] = backlog'[k] => j = k
  <2>1. CASE k \in 1..Len(backlog)
    <3>1. Waiting(backlog[k]) /\ backlog[k] # p /\ link_id # backlog[k]
      BY <1>1, <2>1 DEF NoKillInv
    <3>2. Waiting(backlog[k])'
      BY <1>2, <1>3, <2>1, <3>1 DEF Waiting
    <3>3. ASSUME NEW j \in 1..Len(backlog'), backlog'[j] = backlog'[k]
          PROVE  j = k
      <4>1. j \in 1..Len(backlog)
        BY <1>3, <2>1, <3>1, <3>3
      <4>. QED BY <1>3, <2>1, <3>3, <4>1 DEF NoKillInv
    <3>. QED BY <1>2, <1>3, <2>1, <3>1, <3>2, <3>3
  <2>2. CASE k = Len(backlog) + 1
    <3>1. Waiting(backlog[k])'
      BY <1>1, <1>2, <1>3, <2>2 DEF Waiting
    <3>2. ASSUME NEW j \in 1..Len(backlog'), backlog'[j] = backlog'[k]
          PROVE  j = k
      BY <1>1, <1>3, <2>2, <3>2
    <3>. QED BY <1>1, <1>2, <1>3, <2>2, <3>1, <3>2
  <2>. QED BY <1>3, <2>1, <2>2
<1>6. spc' # "dead"
  BY <1>2 DEF NoKillInv
<1>. QED BY <1>4, <1>5, <1>6 DEF NoKillInv

\* The receiver accepts the connection that waited longest.
LEMMA NoKillAccept ==
  ASSUME StreamInv, NoKillInv, killsLeft = KillBudget, Accept
  PROVE  NoKillInv'
<1>1. /\ backlog' \in Seq(Process) /\ Len(backlog) \in Nat \ {0} /\ link_id' = backlog[1]
      /\ Len(backlog') = Len(backlog) - 1
      /\ \A k \in 1..Len(backlog') : backlog'[k] = backlog[k + 1] /\ k + 1 \in 1..Len(backlog)
  BY HeadTailProperties, EmptySeq DEF Accept, StreamInv, TypeOK
<1>2. UNCHANGED <<cpc, conn, up, down, killsLeft>> /\ spc' = "recvMsg"
  BY DEF Accept, cliVars
<1>3. \A k \in 1..Len(backlog) : backlog[k] \in Process /\ Waiting(backlog[k])
  BY ElementOfSeq DEF NoKillInv, StreamInv, TypeOK
<1>4. ASSUME NEW q \in Process PROVE ClosedByEnd(q)' /\ (link_id' = q => LinkStep(q)')
  <2>1. ClosedByEnd(q)'
    BY <1>2 DEF NoKillInv, ClosedByEnd
  <2>2. ASSUME link_id' = q PROVE LinkStep(q)'
    <3>1. q = backlog[1] /\ 1 \in 1..Len(backlog)
      BY <1>1, <2>2
    <3>2. Waiting(q)
      BY <1>3, <3>1
    <3>3. Waiting(q)'
      BY <1>2, <3>2 DEF Waiting
    <3>. QED BY <1>2, <3>3 DEF LinkStep
  <2>. QED BY <2>1, <2>2
<1>5. ASSUME NEW k \in 1..Len(backlog')
      PROVE  /\ Waiting(backlog[k])' /\ link_id' # backlog'[k]
             /\ \A j \in 1..Len(backlog') : backlog'[j] = backlog'[k] => j = k
  <2>1. Waiting(backlog[k])'
    BY <1>1, <1>2, <1>3 DEF Waiting
  <2>2. 1 \in 1..Len(backlog) /\ k + 1 \in 1..Len(backlog) /\ k + 1 # 1
    BY <1>1
  <2>3. link_id' # backlog'[k]
    BY <1>1, <2>2 DEF NoKillInv
  <2>4. ASSUME NEW j \in 1..Len(backlog'), backlog'[j] = backlog'[k]
        PROVE  j = k
    <3>1. j + 1 \in 1..Len(backlog) /\ backlog[j + 1] = backlog[k + 1]
      BY <1>1, <2>4
    <3>2. j + 1 = k + 1
      BY <2>2, <3>1 DEF NoKillInv
    <3>. QED BY <3>2
  <2>. QED BY <2>1, <2>3, <2>4
<1>. QED BY <1>2, <1>4, <1>5 DEF NoKillInv

\* What the receiver's send() does on a connection that is open or at its end.
LEMMA AnswerDelivered ==
  ASSUME TypeOK, NEW p \in Process, link_id = p, NEW a, NEW next, SendAnswer(a, next),
         conn[p] \in {"open", "fin"}
  PROVE  /\ spc' = next
         /\ \A q \in Process : q # p => UNCHANGED <<conn[q], down[q]>>
         /\ conn[p] = "open" => conn'[p] = "open" /\ down'[p] = Append(down[p], a)
         /\ conn[p] = "fin" => conn'[p] = "rst"
BY DEF SendAnswer, TypeOK

\* The receiver's work for the connection it accepted, while no sender is killed.
LEMMA NoKillLink ==
  ASSUME StreamInv, NoKillInv, killsLeft = KillBudget, NEW p \in Process, link_id = p,
         TakeRequest \/ SkipData \/ CloseLink \/ RecvSome \/ RecvFileEnds \/ Check
  PROVE  NoKillInv'
<1>0. spc # "dead" /\ ClosedByEnd(p) /\ LinkStep(p) /\ TypeOK
  BY DEF NoKillInv, StreamInv
<1>1. CASE TakeRequest
  <2>1. spc = "recvMsg" /\ up[p] = <<"REQ">>
    <3>1. up[p] \in Seq(Block) \cup {<<"REQ">>} /\ up[p] # <<>> /\ Head(up[p]) = "REQ"
      BY <1>0, <1>1 DEF TakeRequest, TypeOK
    <3>. QED BY <1>1, <3>1, ReqFacts DEF TakeRequest
  <2>2. conn[p] = "open" /\ cpc[p] = "waitReq" /\ down[p] = <<>>
    BY <1>0, <2>1 DEF LinkStep, Waiting, Streaming, StreamInv, AnnouncedFirst
  <2>3. /\ spc' = "recvFile" /\ conn'[p] = "open" /\ down'[p] = Append(<<>>, "REQ_OK")
        /\ \A q \in Process : q # p => UNCHANGED <<conn[q], down[q]>>
    BY <1>0, <1>1, <2>2, AnswerDelivered DEF TakeRequest
  <2>4. Len(down'[p]) = 1
    BY <2>3
  <2>5. /\ UNCHANGED <<cpc, backlog, link_id>> /\ up'[p] = <<>>
        /\ \A q \in Process : q # p => up'[q] = up[q]
    BY <1>0, <1>1, <2>1, ReqFacts DEF TakeRequest, cliVars, TypeOK
  <2>6. ClosedByEnd(p)' /\ LinkStep(p)'
    BY <2>2, <2>3, <2>4, <2>5 DEF ClosedByEnd, LinkStep
  <2>. QED BY <2>3, <2>5, <2>6, NoKillReceiver
<1>2. CASE SkipData
  <2>1. spc = "recvMsg" /\ up[p] \in Seq(Block) /\ up[p] # <<>> /\ up[p] # <<"REQ">>
    BY <1>0, <1>2, ReqFacts DEF SkipData, TypeOK
  <2>2. /\ UNCHANGED <<cpc, backlog, link_id, spc, conn, down>>
        /\ up'[p] = Tail(up[p]) /\ \A q \in Process : q # p => up'[q] = up[q]
    BY <1>0, <1>2 DEF SkipData, cliVars, srvVars, TypeOK
  <2>3. up'[p] # <<"REQ">>
    BY <2>1, <2>2, HeadTailProperties, ReqFacts
  <2>4. ClosedByEnd(p)' /\ LinkStep(p)'
    BY <1>0, <2>1, <2>2, <2>3 DEF ClosedByEnd, LinkStep, Waiting, Streaming
  <2>. QED BY <1>0, <2>2, <2>4, NoKillReceiver
<1>3. CASE CloseLink
  <2>1. UNCHANGED <<cpc, backlog, conn, up, down>> /\ link_id' = NoProcess /\ spc' = "accept"
    BY <1>3 DEF CloseLink, cliVars, netVars
  <2>2. ClosedByEnd(p)' /\ LinkStep(p)'
    BY <1>0, <2>1 DEF ClosedByEnd, LinkStep
  <2>. QED BY <2>1, <2>2, NoKillReceiver
<1>4. CASE RecvSome
  <2>. PICK r \in 1..RecvMax : \E w \in {-1} \cup 1..r :
         link_id # NoProcess /\ r <= Len(up[link_id]) /\ RecvFile(r, w)
    BY <1>4 DEF RecvSome
  <2>. PICK w \in {-1} \cup 1..r :
         link_id # NoProcess /\ r <= Len(up[link_id]) /\ RecvFile(r, w)
    OBVIOUS
  <2>1. /\ UNCHANGED <<cpc, backlog, link_id, conn, down>> /\ spc = "recvFile"
        /\ spc' \in {"recvFile", "check"}
    BY DEF RecvFile, cliVars
  <2>2. \A q \in Process : q # p => up'[q] = up[q]
    BY RecvFileEffect
  <2>3. up[p] # <<>>
    BY BufAssumption
  <2>4. ClosedByEnd(p)' /\ LinkStep(p)'
    BY <1>0, <2>1, <2>3 DEF ClosedByEnd, LinkStep, Streaming
  <2>. QED BY <2>1, <2>2, <2>4, NoKillReceiver
<1>5. CASE RecvFileEnds
  <2>1. /\ UNCHANGED <<cpc, backlog, link_id, up, down>> /\ spc = "recvFile" /\ spc' = "check"
        /\ conn[p] # "open" /\ AfterEnd
    BY <1>5 DEF RecvFileEnds, AtEnd, cliVars
  <2>2. conn[p] = "fin"
    BY <1>0, <2>1 DEF LinkStep, Streaming
  <2>3. conn'[p] = "fin" /\ \A q \in Process : q # p => conn'[q] = conn[q]
    BY <1>0, <2>1, <2>2 DEF AfterEnd, TypeOK
  <2>4. ClosedByEnd(p)' /\ LinkStep(p)'
    BY <1>0, <2>1, <2>2, <2>3 DEF ClosedByEnd, LinkStep
  <2>. QED BY <2>1, <2>3, <2>4, NoKillReceiver
<1>6. CASE Check
  <2>1. UNCHANGED <<cpc, backlog, link_id, up>> /\ spc = "check"
    BY <1>6 DEF Check, cliVars
  <2>2. (Streaming(p) /\ down[p] = <<>>) \/ conn[p] = "fin"
    BY <1>0, <2>1 DEF LinkStep
  <2>3. up[p] # <<"REQ">>
    BY <2>1 DEF StreamInv, AnnouncedFirst, InHandler
  <2>4. PICK a \in {"FINISH_OK", "FINISH_FAIL"} : SendAnswer(a, "recvMsg")
    BY <1>6 DEF Check
  <2>5. /\ spc' = "recvMsg" /\ \A q \in Process : q # p => UNCHANGED <<conn[q], down[q]>>
        /\ conn[p] = "open" => conn'[p] = "open" /\ down'[p] = Append(down[p], a)
        /\ conn[p] = "fin" => conn'[p] = "rst"
    BY <1>0, <2>2, <2>4, AnswerDelivered DEF Streaming
  <2>6. Len(Append(<<>>, a)) = 1 /\ Append(<<>>, a)[1] = a
    OBVIOUS
  <2>7. ClosedByEnd(p)'
    BY <1>0, <2>1, <2>2, <2>5 DEF ClosedByEnd, Streaming
  <2>8. LinkStep(p)'
    <3>1. CASE Streaming(p) /\ down[p] = <<>>
      BY <2>1, <2>5, <2>6, <3>1 DEF LinkStep, Streaming
    <3>2. CASE conn[p] = "fin"
      BY <2>1, <2>3, <2>5, <3>2 DEF LinkStep
    <3>. QED BY <2>2, <3>1, <3>2
  <2>. QED BY <2>1, <2>5, <2>7, <2>8, NoKillReceiver
<1>. QED BY <1>1, <1>2, <1>3, <1>4, <1>5, <1>6

\* The receiver dies of SIGPIPE only after a sender was killed: whatever is sent, and also
\* for a sender whose file is not there (server.c:124-144, client.c:111-128).
THEOREM TcpDeathNeedsKill == Spec => []DeathNeedsKill
<1>1. Init => NoKillInv
  BY NoProcessAssumption DEF Init, NoKillInv, ClosedByEnd
<1>2. StreamInv /\ NoKillInv /\ [Next]_vars => NoKillInv'
  <2>. SUFFICES ASSUME StreamInv, NoKillInv, [Next]_vars, killsLeft' = KillBudget PROVE NoKillInv'
    BY DEF NoKillInv
  <2>1. \A p \in Process : ~Kill(p)
    BY BudgetAssumption DEF Kill, StreamInv, TypeOK
  <2>2. killsLeft = KillBudget
    <3>1. CASE Receiver
      BY <3>1 DEF Receiver, Accept, TakeRequest, SkipData, CloseLink, RecvSome, RecvFile, RecvFileEnds, Check
    <3>2. ASSUME NEW p \in Process, Connect(p) \/ Sends(p)
          PROVE  killsLeft' = killsLeft
      BY <3>2 DEF Connect, Sends, RecvReqAnswer, SendBlock, SentAll, RecvFinishAnswer, HangUp
    <3>. QED BY <2>1, <3>1, <3>2 DEF Next, vars
  <2>3. CASE Accept
    BY <2>2, <2>3, NoKillAccept
  <2>4. CASE TakeRequest \/ SkipData \/ CloseLink \/ RecvSome \/ RecvFileEnds \/ Check
    <3>1. link_id \in Process
      BY <2>4 DEF TakeRequest, SkipData, CloseLink, RecvSome, RecvFile, RecvFileEnds, Check,
                  StreamInv, HandlerFile
    <3>. QED BY <2>2, <2>4, <3>1, NoKillLink
  <2>5. ASSUME NEW p \in Process, Connect(p) \/ Sends(p)
        PROVE  NoKillInv'
    BY <2>2, <2>5, NoKillConnect, NoKillSends
  <2>6. CASE UNCHANGED vars
    <3>1. UNCHANGED <<cpc, conn, up, down, backlog, spc, link_id, killsLeft>>
      BY <2>6 DEF vars, cliVars, netVars, srvVars
    <3>. QED BY <2>2, <3>1 DEF NoKillInv, ClosedByEnd, LinkStep, Waiting, Streaming
  <2>. QED BY <2>1, <2>3, <2>4, <2>5, <2>6 DEF Next, Receiver
<1>3. StreamInv /\ NoKillInv => DeathNeedsKill
  BY BudgetAssumption DEF StreamInv, TypeOK, NoKillInv, DeathNeedsKill
<1>. QED BY <1>1, <1>2, <1>3, StreamInit, StreamStep, PTL DEF Spec
=============================================================================
