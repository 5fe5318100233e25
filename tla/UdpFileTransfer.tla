--------------------------- MODULE UdpFileTransfer ---------------------------
(***************************************************************************)
(* Senders and receiver of the UDP file transfer over a network that, as   *)
(* far as Faults says, loses, duplicates, delays and reorders datagrams,   *)
(* while senders are killed or started before another one has ended, the   *)
(* receiver is restarted and its device fails.  At most FaultBudget faults *)
(* happen in a behaviour.                                                  *)
(***************************************************************************)
EXTENDS UdpServer, UdpClient, SequencesExt

CONSTANTS Faults,       \* the kinds of fault that may happen
          FaultBudget   \* how many in a behaviour

ASSUME FaultsAssumption ==
  /\ Faults \subseteq {"lose", "duplicate", "reorder", "late", "kill", "restart", "disk", "mv", "overlap"}
  /\ FaultBudget \in Nat

VARIABLES budget,    \* faults that may still happen
          happened,  \* the kinds of fault that have happened
          stored     \* the names published so far with the sender's contents

netVars == <<budget, happened, stored>>
vars == <<srvVars, cliVars, netVars>>

Fault(kind) ==
  /\ kind \in Faults /\ budget > 0
  /\ budget' = budget - 1
  /\ happened' = happened \cup {kind}

Init ==
  /\ SrvInit /\ CliInit
  /\ budget = FaultBudget /\ happened = {}
  /\ stored = {}

-----------------------------------------------------------------------------
Running(p) == sender[p].pc \notin {"idle", "ended"}

\* A sender is started, when none is running or while another one is
Start(p, n) ==
  /\ Announce(p, n)
  /\ \/ (\A q \in Process : ~Running(q)) /\ UNCHANGED <<budget, happened>>
     \/ (\E q \in Process : Running(q)) /\ Fault("overlap")
  /\ UNCHANGED <<srvVars, stored>>

Answer(p) == Receive(p) /\ UNCHANGED <<srvVars, netVars>>

\* Nothing of p is on its way: udprev is bound to time out
Silent(p) == toClient[p] = <<>> /\ \A k \in 1..Len(toServer) : toServer[k].src # p

NoAnswer(p) == Silent(p) /\ TimeOut(p) /\ UNCHANGED <<srvVars, netVars>>

\* The answer takes longer than a second, and arrives later
LateAnswer(p) ==
  /\ ~Silent(p) /\ Fault("late")
  /\ TimeOut(p) /\ UNCHANGED <<srvVars, stored>>

Kill(p) ==
  /\ Running(p) /\ Fault("kill")
  /\ Ends(p, "nothing") /\ UNCHANGED <<toServer, srvVars, stored>>

\* The file appears under its name with the sender's contents
Verified(n) ==
  /\ final'[n] # NoInode /\ final'[n] # final[n]
  /\ inode'[final'[n]].bytes \in Local[n]

\* A write that fails, or is short, although the file is within the device's bound
DiskFault(k) ==
  /\ IsData(toServer[k].msg) /\ fd.kind = "file" /\ fd.pos < DiskBlocks
  /\ fd'.kind = "none" \/ inode'[fd.ino].bytes[fd.pos + 1] = Torn

\* socketrev: the receiver takes datagram k and answers where it came from
Handled(k) ==
  LET pkt == toServer[k] IN
  /\ toServer' = RemoveAt(toServer, k)
  /\ toClient' = IF reply' = NoReply \/ ~Running(pkt.src) THEN toClient
                 ELSE [toClient EXCEPT ![pkt.src] = Append(@, reply')]
  /\ UNCHANGED <<sender, stored>>

Deliver ==
  /\ toServer # <<>>
  /\ onrecv(toServer[1].msg) /\ Handled(1)
  /\ IF DiskFault(1) THEN Fault("disk") ELSE UNCHANGED <<budget, happened>>

Overtake ==
  /\ Fault("reorder")
  /\ \E k \in 2..Len(toServer) : onrecv(toServer[k].msg) /\ Handled(k) /\ ~DiskFault(k)

\* What cmd_revfilefinsh does after its answer; a "mv" that fails is a fault
Finish ==
  /\ \/ /\ Move
        /\ IF Movable /\ UNCHANGED final THEN Fault("mv") ELSE UNCHANGED <<budget, happened>>
     \/ SetTime /\ UNCHANGED <<budget, happened>>
  /\ stored' = stored \cup {n \in Name : Verified(n)}
  /\ UNCHANGED cliVars

LoseRequest ==
  /\ Fault("lose")
  /\ \E k \in 1..Len(toServer) : toServer' = RemoveAt(toServer, k)
  /\ UNCHANGED <<sender, toClient, srvVars, stored>>

LoseAnswer ==
  /\ Fault("lose")
  /\ \E p \in Process : \E k \in 1..Len(toClient[p]) :
       toClient' = [toClient EXCEPT ![p] = RemoveAt(@, k)]
  /\ UNCHANGED <<sender, toServer, srvVars, stored>>

\* A copy of a datagram arrives after all that are on their way
Duplicate ==
  /\ Fault("duplicate")
  /\ \E k \in 1..Len(toServer) : toServer' = Append(toServer, toServer[k])
  /\ UNCHANGED <<sender, toClient, srvVars, stored>>

\* The receiver is restarted: what waited in its socket is gone, what is still in the
\* network reaches the new process
ServerRestart ==
  /\ Fault("restart")
  /\ Restart
  /\ \E k \in 0..Len(toServer) : toServer' = SubSeq(toServer, k + 1, Len(toServer))
  /\ UNCHANGED <<sender, toClient, stored>>

Next ==
  \/ \E p \in Process :
       \/ \E n \in Name : Start(p, n)
       \/ Answer(p) \/ NoAnswer(p) \/ LateAnswer(p) \/ Kill(p)
  \/ Deliver \/ Overtake \/ Finish
  \/ LoseRequest \/ LoseAnswer \/ Duplicate
  \/ ServerRestart

\* udprev has a timeout and the receiver's select() returns for every datagram:
\* neither stops while it can go on
Fairness ==
  /\ WF_vars(Deliver) /\ WF_vars(Finish)
  /\ \A p \in Process : WF_vars(Answer(p)) /\ WF_vars(NoAnswer(p))

Spec == Init /\ [][Next]_vars
FairSpec == Spec /\ Fairness

-----------------------------------------------------------------------------
\* "file send is ok" (udp-client.c:156) is printed only when the receiver has published that
\* very file with the sender's contents, or has it complete and is about to (FINISH is
\* answered at udp-server.c:219, before "mv" at 225), whatever was lost, late, killed or not
\* written. Three things break it: a "mv" that fails, which nobody looks at; a restart (which
\* comes before "mv", or finds no file announced and all well); and another sender's
\* datagrams among one's own: two senders at a time, or copies and stragglers of a sender
\* that has ended, which have its request accepted in the middle of this upload.
AboutToStore(n) ==
  /\ finishing = "mv" /\ Filemsg.name = n /\ Movable
  /\ inode[part[n]].bytes \in Local[n]
OkMeansStored ==
  happened \cap {"mv", "restart", "overlap", "duplicate", "reorder"} = {} =>
    \A p \in Process : sender[p].said = "ok" =>
      sender[p].name \in stored \/ AboutToStore(sender[p].name)

\* What is published under a name is what the senders have under that name, as long as
\* the network neither duplicates nor reorders and one sender runs at a time: blocks
\* that were resent, skipped, torn or cut off by a restart never show.
PublishedIntact ==
  happened \cap {"duplicate", "reorder", "overlap"} = {} =>
    \A n \in Name : final[n] # NoInode => inode[final[n]].bytes \in Local[n]

\* The program prints "file send fail!retry send" when a block was not answered: it
\* goes on, to the next block or to FINISH, only after an answer to this one.
UnansweredIsResent ==
  \A p \in Process :
    /\ sender[p].pc = "waitFile" => sender[p].acks >= sender[p].block - 1
    /\ sender[p].pc = "waitFinish" => sender[p].acks >= sender[p].block

\* A path left in the buffers wedges the receiver: when nobody is sending blocks, no
\* acceptance and nothing but requests is on its way, no later sender gets past its
\* request, however often one is started (short of a restart of the receiver).
Wedged ==
  /\ file_path # <<>> /\ finishing = "no"
  /\ \A k \in 1..Len(toServer) : IsReq(toServer[k].msg)
  /\ \A p \in Process :
       /\ sender[p].pc \in {"idle", "waitReq", "ended"}
       /\ \A k \in 1..Len(toClient[p]) : toClient[p][k].type # ACK_OK
WedgedForever == [][Wedged => Wedged' \/ "restart" \in happened']_vars

\* A .filepart longer than the sender's file blocks that name for good: there is no
\* O_TRUNC, so no later upload of it can match.
TooLong(n) ==
  /\ part[n] # NoInode /\ Local[n] # {}
  /\ Len(inode[part[n]].bytes) > Len(BytesOf(n))
LongLeftoverBlocks == [][\A n \in Name : TooLong(n) => TooLong(n)']_vars

\* Every sender that was started comes to an end.
SenderEnds == \A p \in Process : Running(p) ~> sender[p].pc = "ended"

\* Where each file can be read, one sender after the other says "ok" and has its file
\* published in the end, as long as nothing goes wrong: each upload leaves the receiver
\* ready for the next one, which may start before the "mv" of the last.
AllOk ==
  \A p \in Process :
    Running(p) ~> (sender[p].said = "ok" /\ sender[p].name \in stored) \/ happened # {}
==============================================================================
