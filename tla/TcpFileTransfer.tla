--------------------------- MODULE TcpFileTransfer ---------------------------
(***************************************************************************)
(* The TCP file transfer (filesend/tcpfilesend/server.c and client.c; the  *)
(* copies in filesend/udpfilesend/back are the same programs).  The        *)
(* receiver accepts one connection at a time, takes the announcement,      *)
(* reads the stream until it has counted file_length bytes, checks the     *)
(* digest and answers.  The sender announces, streams the file and waits   *)
(* for the answer; neither side has a timeout.                             *)
(*                                                                         *)
(* A connection ends as TCP ends it: a sender that closes its socket       *)
(* leaves "fin", one that goes with an answer unread, or is answered after *)
(* it has gone, leaves "rst"; the system call that meets the reset leaves  *)
(* "broken", and a send() on a broken connection raises SIGPIPE, which     *)
(* ends the receiver.                                                      *)
(*                                                                         *)
(* The bytes of a file that the receiver would read as a message after it  *)
(* gave up on the file are taken not to look like one of its commands.     *)
(***************************************************************************)
EXTENDS Integers, Sequences

CONSTANTS Process,     \* runs of the sender
          Name,        \* file names
          Block,       \* data of BlockLen bytes
          FileOf,      \* what each process sends: [name, bytes]; bytes {} if absent
          BlockLen,    \* bytes in a block
          RecvMax,     \* blocks a recv() returns at most
          SockBuf,     \* blocks that fit the socket buffers
          NoProcess,
          KillBudget,  \* how many senders are killed
          DiskBudget   \* how often open() or write() fails or a write is short

ASSUME FileOfAssumption ==
  \A p \in Process : FileOf[p].name \in Name /\ FileOf[p].bytes \subseteq Seq(Block)
ASSUME BlockAssumption == "REQ" \notin Block
ASSUME BlockLenAssumption == BlockLen \in Nat \ {0, 1}
ASSUME BufAssumption == RecvMax \in Nat \ {0} /\ SockBuf \in Nat \ {0}
ASSUME NoProcessAssumption == NoProcess \notin Process
ASSUME BudgetAssumption == KillBudget \in Nat /\ DiskBudget \in Nat

VARIABLES cpc,      \* where each sender is in request_sendfile
          sent,     \* blocks each sender has sent
          said,     \* what it printed last
          conn,     \* the state of each connection as the receiver sees it
          up,       \* stream to the receiver: "REQ" and blocks
          down,     \* answers to the sender
          backlog,  \* connections waiting for accept()
          spc,      \* where the receiver is
          link_id,  \* the accepted connection
          Filemsg,  \* the announced file
          len,      \* bytes cmd_reqsend_deel has counted
          off,      \* offset of fd, in blocks; NoFd if open() failed
          part, final,     \* <name>.filepart and <name>: {} or {contents}
          killsLeft, diskLeft,
          stored,   \* the files published so far
          unmoved   \* the senders whose file was complete and not moved

cliVars == <<cpc, sent, said>>
netVars == <<conn, up, down, backlog>>
srvVars == <<spc, link_id, Filemsg, len, off, part, final, stored, unmoved>>
vars == <<cliVars, netVars, srvVars, killsLeft, diskLeft>>

ZeroFile == [name |-> "", bytes |-> {}]
Bytes(f) == CHOOSE b \in f.bytes : TRUE
NoFd == -1

Init ==
  /\ cpc = [p \in Process |-> "idle"] /\ sent = [p \in Process |-> 0]
  /\ said = [p \in Process |-> "nothing"]
  /\ conn = [p \in Process |-> "none"]
  /\ up = [p \in Process |-> <<>>] /\ down = [p \in Process |-> <<>>]
  /\ backlog = <<>>
  /\ spc = "accept" /\ link_id = NoProcess /\ Filemsg = ZeroFile /\ len = 0 /\ off = 0
  /\ part = [n \in Name |-> {}] /\ final = [n \in Name |-> {}]
  /\ stored = {} /\ unmoved = {}
  /\ killsLeft = KillBudget /\ diskLeft = DiskBudget

-----------------------------------------------------------------------------
(* The sender.                                                             *)

\* The process is gone: its socket is closed, or reset if an answer was not read
Gone(p, word, unread) ==
  /\ cpc' = [cpc EXCEPT ![p] = "ended"]
  /\ said' = [said EXCEPT ![p] = word]
  /\ conn' = [conn EXCEPT ![p] = IF unread = <<>> THEN "fin" ELSE "rst"]
  /\ down' = [down EXCEPT ![p] = <<>>]
  /\ UNCHANGED <<sent, up, backlog>>

\* socketconnect, and request_sendfile up to its first recv
Connect(p) ==
  /\ cpc[p] = "idle" /\ spc # "dead"
  /\ cpc' = [cpc EXCEPT ![p] = "waitReq"]
  /\ conn' = [conn EXCEPT ![p] = "open"]
  /\ backlog' = Append(backlog, p)
  /\ up' = [up EXCEPT ![p] = <<"REQ">>]
  /\ UNCHANGED <<sent, said, down, srvVars, killsLeft, diskLeft>>

\* Mutant of RecvReqAnswer: the file is opened before the answer is read
RecvReqAnswerLate(p) ==
  /\ cpc[p] = "waitReq" /\ down[p] # <<>>
  /\ \/ FileOf[p].bytes = {} /\ Gone(p, "noread", down[p])
     \/ /\ FileOf[p].bytes # {}
        /\ cpc' = [cpc EXCEPT ![p] = "sending"]
        /\ down' = [down EXCEPT ![p] = Tail(@)]
        /\ UNCHANGED <<sent, said, conn, up, backlog>>
  /\ UNCHANGED <<srvVars, killsLeft, diskLeft>>

\* The answer to the announcement; the file may not be there
RecvReqAnswer(p) ==
  /\ cpc[p] = "waitReq" /\ down[p] # <<>>
  /\ \/ FileOf[p].bytes = {} /\ Gone(p, "noread", Tail(down[p]))
     \/ /\ FileOf[p].bytes # {}
        /\ cpc' = [cpc EXCEPT ![p] = "sending"]
        /\ down' = [down EXCEPT ![p] = Tail(@)]
        /\ UNCHANGED <<sent, said, conn, up, backlog>>
  /\ UNCHANGED <<srvVars, killsLeft, diskLeft>>

\* read() and socketsend() of a block; send() blocks while the buffers are full
SendBlock(p) ==
  /\ cpc[p] = "sending" /\ sent[p] < Len(Bytes(FileOf[p])) /\ Len(up[p]) < SockBuf
  /\ up' = [up EXCEPT ![p] = Append(@, Bytes(FileOf[p])[sent[p] + 1])]
  /\ sent' = [sent EXCEPT ![p] = @ + 1]
  /\ UNCHANGED <<cpc, said, conn, down, backlog, srvVars, killsLeft, diskLeft>>

SentAll(p) ==
  /\ cpc[p] = "sending" /\ sent[p] = Len(Bytes(FileOf[p]))
  /\ cpc' = [cpc EXCEPT ![p] = "waitFinish"]
  /\ UNCHANGED <<sent, said, netVars, srvVars, killsLeft, diskLeft>>

RecvFinishAnswer(p) ==
  /\ cpc[p] = "waitFinish" /\ down[p] # <<>>
  /\ Gone(p, IF Head(down[p]) = "FINISH_OK" THEN "ok" ELSE "fail", Tail(down[p]))
  /\ UNCHANGED <<srvVars, killsLeft, diskLeft>>

Kill(p) ==
  /\ cpc[p] \notin {"idle", "ended"} /\ killsLeft > 0
  /\ killsLeft' = killsLeft - 1
  /\ Gone(p, "killed", down[p])
  /\ UNCHANGED <<srvVars, diskLeft>>

\* The receiver has died: the sender's recv() or send() fails and it ends
HangUp(p) ==
  /\ spc = "dead" /\ cpc[p] \notin {"idle", "ended"}
  /\ Gone(p, "hungup", <<>>)
  /\ UNCHANGED <<srvVars, killsLeft, diskLeft>>

-----------------------------------------------------------------------------
(* The receiver.                                                           *)

\* send(): delivered, answered by a reset, or fatal
SendAnswer(a, next) ==
  LET p == link_id IN
  /\ down' = IF conn[p] = "open" THEN [down EXCEPT ![p] = Append(@, a)] ELSE down
  /\ conn' = [conn EXCEPT ![p] = CASE @ = "open" -> "open" [] @ = "fin" -> "rst"
                                   [] OTHER -> "broken"]
  /\ spc' = IF conn[p] = "broken" THEN "dead" ELSE next

Accept ==
  /\ spc = "accept" /\ backlog # <<>>
  /\ link_id' = Head(backlog) /\ backlog' = Tail(backlog)
  /\ spc' = "recvMsg"
  /\ UNCHANGED <<cliVars, conn, up, down, Filemsg, len, off, part, final, stored, unmoved,
                 killsLeft, diskLeft>>

\* open() of the .filepart: no O_TRUNC, and one that fails is only reported
Opened(n) ==
  /\ off' = 0
  /\ part' = [part EXCEPT ![n] = IF @ = {} THEN {<<>>} ELSE @]
  /\ UNCHANGED diskLeft
OpenFails ==
  /\ off' = NoFd
  /\ diskLeft > 0 /\ diskLeft' = diskLeft - 1
  /\ UNCHANGED part

\* cmd_reqsend_deel up to its recv loop.  The path buffers are empty here, since every way
\* out of the handler clears them
TakeRequest ==
  LET f == FileOf[link_id] IN
  /\ spc = "recvMsg" /\ up[link_id] # <<>> /\ Head(up[link_id]) = "REQ"
  /\ up' = [up EXCEPT ![link_id] = Tail(@)]
  /\ Filemsg' = f /\ len' = 0
  /\ Opened(f.name) \/ OpenFails
  /\ SendAnswer("REQ_OK", "recvFile")
  /\ UNCHANGED <<cliVars, backlog, link_id, final, stored, unmoved, killsLeft>>

\* ReceiveThread reads file data that no handler wanted as a message, and drops it
SkipData ==
  /\ spc = "recvMsg" /\ up[link_id] # <<>> /\ Head(up[link_id]) # "REQ"
  /\ up' = [up EXCEPT ![link_id] = Tail(@)]
  /\ UNCHANGED <<cliVars, conn, down, backlog, srvVars, killsLeft, diskLeft>>

\* recv() returns 0 or -1: the connection is at its end
AtEnd == up[link_id] = <<>> /\ conn[link_id] # "open"
AfterEnd == conn' = [conn EXCEPT ![link_id] = IF @ = "rst" THEN "broken" ELSE @]

CloseLink ==
  /\ spc = "recvMsg" /\ AtEnd
  /\ spc' = "accept" /\ link_id' = NoProcess
  /\ UNCHANGED <<cliVars, netVars, Filemsg, len, off, part, final, stored, unmoved, killsLeft, diskLeft>>

\* Mutant of Counted: > where the code has >=
CountedPast(l) ==
  l < 0 \/ (Filemsg.bytes # {} /\ l > BlockLen * Len(Bytes(Filemsg)))

\* len >= Filemsg.file_length compares as unsigned: a negative len is large, and
\* so is the length -1 that get_file_size returns for a file that is not there
Counted(l) ==
  \/ l < 0
  \/ Filemsg.bytes # {} /\ l >= BlockLen * Len(Bytes(Filemsg))

Overwrite(old, pos, new) ==
  [k \in 1..(IF pos + Len(new) > Len(old) THEN pos + Len(new) ELSE Len(old)) |->
     IF k > pos /\ k <= pos + Len(new) THEN new[k - pos] ELSE old[k]]

\* One round of the recv loop: r blocks arrive, w of them are written, or write()
\* returns -1 (w = -1)
RecvFile(r, w) ==
  LET n == Filemsg.name
      data == SubSeq(up[link_id], 1, r)
      l == IF w = -1 THEN len - 1 ELSE len + BlockLen * w
  IN /\ spc = "recvFile"
     /\ up' = [up EXCEPT ![link_id] = SubSeq(@, r + 1, Len(@))]
     /\ IF off = NoFd THEN w = -1 ELSE w = r \/ diskLeft > 0
     /\ diskLeft' = IF w = r \/ off = NoFd THEN diskLeft ELSE diskLeft - 1
     /\ len' = l
     /\ off' = IF w = -1 THEN off ELSE off + w
     /\ part' = IF w = -1 THEN part
                ELSE [part EXCEPT ![n] = {Overwrite(CHOOSE b \in @ : TRUE, off, SubSeq(data, 1, w))}]
     /\ spc' = IF Counted(l) THEN "check" ELSE "recvFile"
     /\ UNCHANGED <<cliVars, conn, down, backlog, link_id, Filemsg, final, stored, unmoved, killsLeft>>

RecvSome ==
  \E r \in 1..RecvMax : \E w \in {-1} \cup 1..r :
    link_id # NoProcess /\ r <= Len(up[link_id]) /\ RecvFile(r, w)

RecvFileEnds ==
  /\ spc = "recvFile" /\ AtEnd
  /\ AfterEnd /\ spc' = "check"
  /\ UNCHANGED <<cliVars, up, down, backlog, link_id, Filemsg, len, off, part, final, stored,
                 unmoved, killsLeft, diskLeft>>

\* Mutant of Check: the digest is not compared
CheckNothing ==
  LET n == Filemsg.name IN
  /\ spc = "check"
  /\ final' = [final EXCEPT ![n] = part[n]]
  /\ part' = [part EXCEPT ![n] = {}]
  /\ stored' = IF part[n] = Filemsg.bytes THEN stored \cup {Filemsg} ELSE stored
  /\ SendAnswer("FINISH_OK", "recvMsg")
  /\ UNCHANGED <<unmoved, cliVars, up, backlog, link_id, Filemsg, len, off, killsLeft, diskLeft>>

\* system("mv ..."): its result is not looked at
Move(n) ==
  /\ part[n] # {}
  /\ final' = [final EXCEPT ![n] = part[n]]
  /\ part' = [part EXCEPT ![n] = {}]
  /\ stored' = stored \cup {Filemsg} /\ UNCHANGED unmoved
MoveFails == unmoved' = unmoved \cup {link_id} /\ UNCHANGED <<final, part, stored>>

\* close(fd), MD5_file (zero for a file that is not there, as the sender announces one),
\* mv, bzero of the paths, and the answer
Check ==
  LET n == Filemsg.name IN
  /\ spc = "check"
  /\ \/ /\ part[n] = Filemsg.bytes
        /\ Move(n) \/ MoveFails
        /\ SendAnswer("FINISH_OK", "recvMsg")
     \/ /\ part[n] # Filemsg.bytes
        /\ UNCHANGED <<final, part, stored, unmoved>>
        /\ SendAnswer("FINISH_FAIL", "recvMsg")
  /\ UNCHANGED <<cliVars, up, backlog, link_id, Filemsg, len, off, killsLeft, diskLeft>>

Receiver == Accept \/ TakeRequest \/ SkipData \/ CloseLink \/ RecvSome \/ RecvFileEnds \/ Check

Sends(p) == RecvReqAnswer(p) \/ SendBlock(p) \/ SentAll(p) \/ RecvFinishAnswer(p) \/ HangUp(p)

Next == Receiver \/ \E p \in Process : Connect(p) \/ Sends(p) \/ Kill(p)

\* Both are loops around blocking calls: each goes on whenever its call can return
Fairness == WF_vars(Receiver) /\ \A p \in Process : WF_vars(Sends(p))

Spec == Init /\ [][Next]_vars
FairSpec == Spec /\ Fairness

-----------------------------------------------------------------------------
\* "file send is ok" (client.c:158) is printed only after the receiver published exactly the
\* file of that sender, or had it complete and "mv" failed, which server.c:119 does not look
\* at: an open() or a write that failed or was short never passes for a file.
OkMeansStored == \A p \in Process : said[p] = "ok" => FileOf[p] \in stored \/ p \in unmoved

\* What is published under a name is the whole file of some sender of that name: the
\* remains of an upload that was cut off, longer or shorter, never show.
PublishedWhole ==
  \A n \in Name : final[n] # {} =>
    \E p \in Process : FileOf[p].name = n /\ FileOf[p].bytes = final[n]

\* Sender and receiver both wait for the other: the sender for the answer to a file it
\* has sent, the receiver for bytes that were all sent.
Stalled(p) ==
  /\ spc = "recvFile" /\ link_id = p /\ conn[p] = "open" /\ up[p] = <<>>
  /\ cpc[p] = "waitFinish" /\ down[p] = <<>>

\* They do so only over an empty file, or after a write failed or was short (server.c:89: len
\* then never reaches file_length).
StallHasCause ==
  \A p \in Process : Stalled(p) => Bytes(FileOf[p]) = <<>> \/ diskLeft < DiskBudget

\* The receiver dies of SIGPIPE only after a sender was killed: one that ends by
\* itself, the one whose file is not there included, never takes it down.
DeathNeedsKill == spc = "dead" => killsLeft < KillBudget

\* Every sender comes to an end, also when others are killed or the receiver dies,
\* unless a write failed or was short (of files that are not empty).
SenderEnds ==
  \A p \in Process : cpc[p] # "idle" ~> (cpc[p] = "ended" \/ diskLeft < DiskBudget)

\* ReceiveThread has an empty file end the connection with a failing recv ("if client
\* send file is empty"): its sender comes to an end.
EmptyFileEnds ==
  \A p \in Process : cpc[p] # "idle" /\ FileOf[p].bytes = {<<>>} ~> cpc[p] = "ended"
=============================================================================
