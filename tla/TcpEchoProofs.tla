---------------------------- MODULE TcpEchoProofs ----------------------------
(***************************************************************************)
(* Proofs about the threaded echo server, for any clients, limits and      *)
(* numbers of bytes.                                                       *)
(***************************************************************************)
EXTENDS TcpEcho, SequenceTheorems, FiniteSetTheorems, WellFoundedInduction, TLAPS

Conn == [st : {"off", "up", "fin", "rst"}, sent : Nat, read : Nat, echoed : Nat, got : Nat]
Thread == [pc : {"none", "new", "loop", "read", "echo", "close", "done"}, fd : 0..FdLimit,
           file : Clients \cup {NoClient}, n : Nat]

TypeOK ==
  /\ conn \in [Clients -> Conn]
  /\ backlog \in Seq(Clients)
  /\ nfp \in 0..FdLimit
  /\ fds \in [1..FdLimit -> Clients \cup {NoClient}]
  /\ thread \in [Clients -> Thread]
  /\ down \in {"no", "sigpipe", "accept", "thread"} /\ late \in BOOLEAN

\* Threads are created after nfp was assigned, and use what they read there
FdKnown(c) ==
  /\ thread[c].pc = "new" => nfp \in 1..FdLimit
  /\ thread[c].pc \in {"loop", "read", "echo", "close"} => thread[c].fd \in 1..FdLimit

BaseInv == TypeOK /\ \A c \in Clients : FdKnown(c)

\* A connection that waits is open nowhere, has no thread, and waits once
Pending(k) ==
  /\ conn[backlog[k]].st # "off" /\ thread[backlog[k]].pc = "none"
  /\ \A f \in 1..FdLimit : fds[f] # backlog[k]
  /\ \A j \in 1..Len(backlog) : backlog[j] = backlog[k] => j = k

Unused(c) ==
  conn[c].st = "off" => /\ thread[c].pc = "none" /\ \A f \in 1..FdLimit : fds[f] # c
                        /\ \A k \in 1..Len(backlog) : backlog[k] # c

\* A thread's descriptor is its client's: the one in nfp until it has read it, and then
\* the one it read; what its read waits on is its client too
OwnFd(c) ==
  /\ thread[c].pc = "new" => fds[nfp] = c
  /\ thread[c].pc \in {"loop", "read", "echo", "close"} => fds[thread[c].fd] = c
  /\ thread[c].pc \in {"read", "echo"} => thread[c].file = c
  /\ thread[c].pc # "echo" => thread[c].n = 0

DistinctFds ==
  \A f, g \in 1..FdLimit : fds[f] = fds[g] /\ fds[f] # NoClient => f = g

\* Bytes of a connection are read after they were sent, echoed after they were read, and
\* taken after that; a reset leaves some untaken
InTurn(c) ==
  /\ conn[c].got <= conn[c].echoed
  /\ conn[c].echoed + thread[c].n <= conn[c].read /\ conn[c].read <= conn[c].sent
  /\ conn[c].st = "rst" => conn[c].got < conn[c].sent

PromptInv ==
  ~late => /\ DistinctFds /\ \A k \in 1..Len(backlog) : Pending(k)
           /\ \A c \in Clients : Unused(c) /\ OwnFd(c) /\ InTurn(c)
           /\ down = "sigpipe" => \E c \in Clients : conn[c].st = "rst"

-----------------------------------------------------------------------------
(* Types.                                                                  *)

\* A send changes at most the connection behind the descriptor, and ends the process only
\* over a connection that was reset.
LEMMA SendEffect ==
  ASSUME TypeOK, NEW f \in 1..FdLimit, NEW n \in Nat, Send(f, n), down = "no"
  PROVE  /\ conn' \in [Clients -> Conn] /\ down' \in {"no", "sigpipe"}
         /\ \A q \in Clients : q # fds[f] => conn'[q] = conn[q]
         /\ fds[f] = NoClient => UNCHANGED <<conn, down>>
         /\ fds[f] \in Clients =>
              LET c == conn[fds[f]]  d == conn'[fds[f]] IN
              \/ c.st = "up" /\ d = [c EXCEPT !.echoed = @ + n] /\ UNCHANGED down
              \/ c.st = "fin" /\ n > 0 /\ d = [c EXCEPT !.st = "rst"] /\ UNCHANGED down
              \/ c.st = "fin" /\ n = 0 /\ d = c /\ UNCHANGED down
              \/ c.st = "rst" /\ d = c
<1>1. CASE fds[f] = NoClient
  BY <1>1, ClientAssumption DEF Send, TypeOK
<1>2. CASE fds[f] \in Clients
  <2>. DEFINE b == fds[f]
  <2>0. b \in Clients /\ b # NoClient /\ conn[b] \in Conn
    BY <1>2, ClientAssumption DEF TypeOK
  <2>1. CASE conn[b].st = "up"
    <3>1. conn' = [conn EXCEPT ![b].echoed = @ + n] /\ UNCHANGED down
      BY <2>0, <2>1 DEF Send
    <3>. HIDE DEF b
    <3>2. [conn[b] EXCEPT !.echoed = @ + n] \in Conn
      BY <2>0 DEF Conn
    <3>3. conn'[b] = [conn[b] EXCEPT !.echoed = @ + n] /\ conn' \in [Clients -> Conn]
          /\ \A q \in Clients : q # b => conn'[q] = conn[q]
      BY <2>0, <3>1, <3>2 DEF TypeOK
    <3>. QED BY <1>2, <2>0, <2>1, <3>1, <3>3 DEF b
  <2>2. CASE conn[b].st = "fin"
    <3>1. conn' = [conn EXCEPT ![b].st = IF n > 0 THEN "rst" ELSE "fin"] /\ UNCHANGED down
      BY <2>0, <2>2 DEF Send
    <3>. HIDE DEF b
    <3>2. [conn[b] EXCEPT !.st = "rst"] \in Conn /\ [conn[b] EXCEPT !.st = "fin"] = conn[b]
      BY <2>0, <2>2 DEF Conn
    <3>3. /\ n > 0 => conn'[b] = [conn[b] EXCEPT !.st = "rst"]
          /\ n = 0 => conn'[b] = conn[b]
          /\ conn' \in [Clients -> Conn]
          /\ \A q \in Clients : q # b => conn'[q] = conn[q]
      BY <2>0, <3>1, <3>2 DEF TypeOK
    <3>. QED BY <1>2, <2>0, <2>2, <3>1, <3>3 DEF b
  <2>3. CASE conn[b].st = "rst"
    BY <2>0, <2>3 DEF Send, TypeOK
  <2>. QED BY <2>0, <2>1, <2>2, <2>3 DEF Send, Conn
<1>. QED BY <1>1, <1>2 DEF TypeOK

\* What main's accept does: a free descriptor for the connection that waited longest, and
\* a thread for it, unless the process ends.
LEMMA AcceptEffect ==
  ASSUME TypeOK, Accept
  PROVE  /\ Head(backlog) \in Clients /\ backlog' \in Seq(Clients) /\ down = "no" /\ UNCHANGED conn
         /\ Len(backlog) \in Nat \ {0} /\ Head(backlog) = backlog[1]
         /\ Len(backlog') = Len(backlog) - 1
         /\ \A k \in 1..Len(backlog') : backlog'[k] = backlog[k + 1] /\ k + 1 \in 1..Len(backlog)
         /\ late' = (late \/ \E c \in Clients : thread[c].pc = "new")
         /\ \/ down' = "accept" /\ UNCHANGED <<nfp, fds, thread>>
            \/ /\ nfp' \in 1..FdLimit /\ fds[nfp'] = NoClient
               /\ fds' = [fds EXCEPT ![nfp'] = Head(backlog)]
               /\ \/ down' = "thread" /\ UNCHANGED thread
                  \/ thread' = [thread EXCEPT ![Head(backlog)].pc = "new"] /\ UNCHANGED down
<1>1. /\ Head(backlog) \in Clients /\ backlog' \in Seq(Clients)
      /\ Len(backlog) \in Nat \ {0} /\ Head(backlog) = backlog[1]
      /\ Len(backlog') = Len(backlog) - 1
      /\ \A k \in 1..Len(backlog') : backlog'[k] = backlog[k + 1]
  BY HeadTailProperties, EmptySeq DEF Accept, TypeOK
<1>2. \A k \in 1..Len(backlog') : k + 1 \in 1..Len(backlog)
  BY <1>1
<1>3. \/ down' = "accept" /\ UNCHANGED <<nfp, fds, thread>>
      \/ /\ nfp' \in 1..FdLimit /\ fds[nfp'] = NoClient
         /\ fds' = [fds EXCEPT ![nfp'] = Head(backlog)]
         /\ \/ down' = "thread" /\ UNCHANGED thread
            \/ thread' = [thread EXCEPT ![Head(backlog)].pc = "new"] /\ UNCHANGED down
  BY DEF Accept, FreeFds
<1>. QED BY <1>1, <1>2, <1>3 DEF Accept

\* Every step keeps the types and the descriptors within the table.
LEMMA BaseStep == BaseInv /\ [Next]_vars => BaseInv'
<1>. SUFFICES ASSUME BaseInv, [Next]_vars PROVE BaseInv'
  OBVIOUS
<1>. USE DEF BaseInv
<1>1. ASSUME NEW c \in Clients, Connect(c) PROVE BaseInv'
  <2>1. conn' \in [Clients -> Conn]
    BY <1>1 DEF Connect, TypeOK, Conn
  <2>2. backlog' \in Seq(Clients)
    BY <1>1, AppendProperties DEF Connect, TypeOK
  <2>. QED BY <1>1, <2>1, <2>2 DEF Connect, TypeOK, FdKnown
<1>2. ASSUME NEW c \in Clients, ClientSend(c) \/ ClientRecv(c) \/ ClientClose(c) PROVE BaseInv'
  <2>1. conn' \in [Clients -> Conn]
    <3>1. CASE ClientSend(c)
      <4>1. conn[c] \in Conn
        BY DEF TypeOK
      <4>2. [conn[c] EXCEPT !.sent = @ + 1] \in Conn
        BY <4>1 DEF Conn
      <4>. QED BY <3>1, <4>2 DEF ClientSend, TypeOK
    <3>2. CASE ClientRecv(c)
      BY <3>2 DEF ClientRecv, TypeOK, Conn
    <3>3. CASE ClientClose(c)
      BY <3>3, ZenonT(60) DEF ClientClose, TypeOK, Conn
    <3>. QED BY <1>2, <3>1, <3>2, <3>3
  <2>2. UNCHANGED <<backlog, nfp, fds, thread, down, late>>
    BY <1>2 DEF ClientSend, ClientRecv, ClientClose
  <2>. QED BY <2>1, <2>2 DEF TypeOK, FdKnown
<1>3. CASE Accept
  <2>1. late' \in BOOLEAN /\ backlog' \in Seq(Clients) /\ conn' = conn
    BY <1>3, AcceptEffect
  <2>2. CASE down' = "accept" /\ UNCHANGED <<nfp, fds, thread>>
    BY <2>1, <2>2 DEF TypeOK, FdKnown
  <2>3. CASE /\ nfp' \in 1..FdLimit /\ fds' = [fds EXCEPT ![nfp'] = Head(backlog)]
             /\ \/ down' = "thread" /\ UNCHANGED thread
                \/ thread' = [thread EXCEPT ![Head(backlog)].pc = "new"] /\ UNCHANGED down
    <3>1. Head(backlog) \in Clients
      BY <1>3, AcceptEffect
    <3>2. /\ thread' \in [Clients -> Thread]
          /\ \A q \in Clients : thread'[q].pc \in {"new", thread[q].pc} /\ thread'[q].fd = thread[q].fd
      <4>1. CASE UNCHANGED thread
        BY <4>1 DEF TypeOK
      <4>2. CASE thread' = [thread EXCEPT ![Head(backlog)].pc = "new"]
        <5>1. PICK h \in Clients : h = Head(backlog)
          BY <3>1
        <5>2. thread' = [thread EXCEPT ![h].pc = "new"]
          BY <4>2, <5>1
        <5>. QED BY <5>2 DEF TypeOK, Thread
      <4>. QED BY <2>3, <4>1, <4>2
    <3>3. fds' \in [1..FdLimit -> Clients \cup {NoClient}] /\ nfp' \in 0..FdLimit
      BY <2>3, <3>1, LimitAssumption DEF TypeOK
    <3>4. down' \in {"no", "sigpipe", "accept", "thread"}
      BY <2>3 DEF TypeOK
    <3>5. \A q \in Clients : FdKnown(q)'
      BY <2>3, <3>2 DEF FdKnown
    <3>. QED BY <2>1, <3>2, <3>3, <3>4, <3>5 DEF TypeOK
  <2>. QED BY <1>3, <2>2, <2>3, AcceptEffect
<1>4. ASSUME NEW c \in Clients, ReadFd(c) PROVE BaseInv'
  <2>1. /\ thread' \in [Clients -> Thread] /\ thread'[c].fd = nfp /\ thread'[c].pc = "loop"
        /\ \A q \in Clients : q # c => thread'[q] = thread[q]
    BY <1>4 DEF ReadFd, TypeOK, Thread
  <2>2. nfp \in 1..FdLimit /\ UNCHANGED <<conn, backlog, nfp, fds, down, late>>
    BY <1>4 DEF ReadFd, FdKnown
  <2>. QED BY <2>1, <2>2 DEF TypeOK, FdKnown
<1>5. ASSUME NEW c \in Clients, LoopTop(c) PROVE BaseInv'
  <2>1. thread[c].fd \in 1..FdLimit /\ UNCHANGED <<backlog, nfp, fds, late>> /\ down = "no"
    BY <1>5 DEF LoopTop, FdKnown
  <2>2. fds[thread[c].fd] \in Clients \cup {NoClient}
    BY <2>1 DEF TypeOK
  <2>3. /\ thread' \in [Clients -> Thread] /\ thread'[c].fd = thread[c].fd /\ thread'[c].pc = "read"
        /\ \A q \in Clients : q # c => thread'[q] = thread[q]
    BY <1>5, <2>2, ZenonT(60) DEF LoopTop, TypeOK, Thread
  <2>4. conn' \in [Clients -> Conn] /\ down' \in {"no", "sigpipe"}
    BY <1>5, <2>1, SendEffect DEF LoopTop
  <2>. QED BY <2>1, <2>3, <2>4 DEF TypeOK, FdKnown
<1>6. ASSUME NEW c \in Clients, ReadData(c) PROVE BaseInv'
  <2>. DEFINE k == thread[c].file
  <2>1. /\ k \in Clients /\ conn[k] \in Conn /\ conn[k].read < conn[k].sent /\ thread[c] \in Thread
        /\ thread[c].pc = "read"
    BY <1>6 DEF ReadData, TypeOK, Thread
  <2>2. conn' \in [Clients -> Conn]
    <3>1. conn' = [conn EXCEPT ![k].read = conn[k].sent]
      BY <1>6 DEF ReadData
    <3>. HIDE DEF k
    <3>. QED BY <2>1, <3>1 DEF TypeOK, Conn
  <2>3. conn[k].sent - conn[k].read \in Nat
    BY <2>1 DEF Conn
  <2>4. /\ thread' \in [Clients -> Thread] /\ thread'[c].fd = thread[c].fd /\ thread'[c].pc = "echo"
        /\ \A q \in Clients : q # c => thread'[q] = thread[q]
    <3>1. thread' = [thread EXCEPT ![c].pc = "echo", ![c].n = conn[k].sent - conn[k].read]
      BY <1>6 DEF ReadData
    <3>. HIDE DEF k
    <3>. QED BY <2>3, <3>1 DEF TypeOK, Thread
  <2>5. UNCHANGED <<backlog, nfp, fds, down, late>>
    BY <1>6 DEF ReadData
  <2>. HIDE DEF k
  <2>. QED BY <2>1, <2>2, <2>4, <2>5 DEF TypeOK, FdKnown
<1>7. ASSUME NEW c \in Clients, Echo(c) PROVE BaseInv'
  <2>1. /\ thread[c].fd \in 1..FdLimit /\ UNCHANGED <<backlog, nfp, fds, late>> /\ down = "no"
        /\ thread[c].n \in Nat
    BY <1>7 DEF Echo, FdKnown, TypeOK, Thread
  <2>2. /\ thread' \in [Clients -> Thread] /\ thread'[c].fd = thread[c].fd /\ thread'[c].pc = "loop"
        /\ \A q \in Clients : q # c => thread'[q] = thread[q]
    BY <1>7 DEF Echo, TypeOK, Thread
  <2>3. conn' \in [Clients -> Conn] /\ down' \in {"no", "sigpipe"}
    BY <1>7, <2>1, SendEffect DEF Echo
  <2>. QED BY <2>1, <2>2, <2>3 DEF TypeOK, FdKnown
<1>8. ASSUME NEW c \in Clients, ReadEnds(c) PROVE BaseInv'
  <2>1. /\ thread' \in [Clients -> Thread] /\ thread'[c].fd = thread[c].fd
        /\ thread[c].pc = "read" /\ thread'[c].pc = "close"
        /\ \A q \in Clients : q # c => thread'[q] = thread[q]
    BY <1>8 DEF ReadEnds, TypeOK, Thread
  <2>2. UNCHANGED <<conn, backlog, nfp, fds, down, late>>
    BY <1>8 DEF ReadEnds
  <2>. QED BY <2>1, <2>2 DEF TypeOK, FdKnown
<1>9. ASSUME NEW c \in Clients, CloseFd(c) PROVE BaseInv'
  <2>1. [NoThread EXCEPT !.pc = "done"] \in Thread /\ [NoThread EXCEPT !.pc = "done"].pc = "done"
    BY LimitAssumption DEF NoThread, Thread
  <2>2. /\ thread' \in [Clients -> Thread] /\ thread'[c].pc = "done"
        /\ \A q \in Clients : q # c => thread'[q] = thread[q]
    BY <1>9, <2>1 DEF CloseFd, TypeOK
  <2>3. fds' \in [1..FdLimit -> Clients \cup {NoClient}] /\ UNCHANGED <<conn, backlog, nfp, down, late>>
    BY <1>9 DEF CloseFd, TypeOK
  <2>. QED BY <2>2, <2>3 DEF TypeOK, FdKnown
<1>10. CASE UNCHANGED vars
  BY <1>10 DEF vars, TypeOK, FdKnown
<1>. QED BY <1>1, <1>2, <1>3, <1>4, <1>5, <1>6, <1>7, <1>8, <1>9, <1>10 DEF Next, rec_data

-----------------------------------------------------------------------------
(* Prompt threads.                                                         *)

\* A step of one client or of its thread that opens and closes nothing.
LEMMA OneKept ==
  ASSUME BaseInv, PromptInv, ~late, NEW c \in Clients, UNCHANGED <<backlog, nfp, fds, late>>,
         \A q \in Clients : q # c => UNCHANGED <<conn[q], thread[q]>>,
         conn'[c].st # "off", conn[c].st = "rst" => conn'[c].st = "rst",
         thread[c].pc = "none" => thread'[c].pc = "none", OwnFd(c)', InTurn(c)',
         down' = "sigpipe" => down = "sigpipe" \/ conn'[c].st = "rst"
  PROVE  PromptInv'
<1>1. DistinctFds'
  BY DEF PromptInv, DistinctFds
<1>2. ASSUME NEW k \in 1..Len(backlog) PROVE Pending(k)'
  <2>1. Pending(k) /\ backlog[k] \in Clients
    BY ElementOfSeq DEF PromptInv, BaseInv, TypeOK
  <2>2. CASE backlog[k] = c
    BY <2>1, <2>2 DEF Pending
  <2>3. CASE backlog[k] # c
    BY <2>1, <2>3 DEF Pending
  <2>. QED BY <2>2, <2>3
<1>3. ASSUME NEW q \in Clients PROVE Unused(q)' /\ OwnFd(q)' /\ InTurn(q)'
  <2>1. CASE q = c
    BY <2>1 DEF Unused
  <2>2. CASE q # c
    BY <2>2 DEF PromptInv, Unused, OwnFd, InTurn
  <2>. QED BY <2>1, <2>2
<1>4. down' = "sigpipe" => \E q \in Clients : conn'[q].st = "rst"
  BY DEF PromptInv
<1>. QED BY <1>1, <1>2, <1>3, <1>4 DEF PromptInv

\* A client sends, receives or closes.
LEMMA ClientPrompt ==
  ASSUME BaseInv, PromptInv, ~late, NEW c \in Clients, ClientSend(c) \/ ClientRecv(c) \/ ClientClose(c)
  PROVE  PromptInv'
<1>0. /\ conn \in [Clients -> Conn] /\ conn[c] \in Conn /\ conn[c].st = "up"
      /\ UNCHANGED <<backlog, nfp, fds, thread, down, late>>
  BY DEF BaseInv, TypeOK, ClientSend, ClientRecv, ClientClose
<1>1. OwnFd(c) /\ InTurn(c)
  BY DEF PromptInv
<1>2. /\ conn[c].sent \in Nat /\ conn[c].read \in Nat /\ conn[c].echoed \in Nat /\ conn[c].got \in Nat
      /\ thread[c].n \in Nat
  BY <1>0 DEF Conn, BaseInv, TypeOK, Thread
<1>3. /\ \A q \in Clients : q # c => conn'[q] = conn[q]
      /\ conn'[c].st # "off" /\ conn'[c].echoed = conn[c].echoed /\ conn'[c].read = conn[c].read
      /\ \/ conn'[c].st = "up" /\ conn'[c].sent = conn[c].sent + 1 /\ conn'[c].got = conn[c].got
         \/ conn'[c].st = "up" /\ conn'[c].sent = conn[c].sent /\ conn'[c].got = conn[c].echoed
         \/ /\ conn'[c].sent = conn[c].sent /\ conn'[c].got = conn[c].got
            /\ conn'[c].st = "rst" => conn[c].got < conn[c].echoed
  <2>1. CASE ClientSend(c)
    BY <1>0, <2>1 DEF ClientSend, Conn
  <2>2. CASE ClientRecv(c)
    BY <1>0, <2>2 DEF ClientRecv, Conn
  <2>3. CASE ClientClose(c)
    BY <1>0, <2>3 DEF ClientClose, Conn
  <2>. QED BY <2>1, <2>2, <2>3
<1>4. InTurn(c)'
  BY <1>0, <1>1, <1>2, <1>3 DEF InTurn
<1>5. OwnFd(c)'
  BY <1>0, <1>1 DEF OwnFd
<1>. QED BY <1>0, <1>3, <1>4, <1>5, OneKept

\* A new connection waits at the end of the backlog.
LEMMA ConnectPrompt ==
  ASSUME BaseInv, PromptInv, ~late, NEW c \in Clients, Connect(c)
  PROVE  PromptInv'
<1>1. /\ conn[c].st = "off" /\ UNCHANGED <<nfp, fds, thread, down, late>>
      /\ conn'[c] = [conn[c] EXCEPT !.st = "up"] /\ conn[c] \in Conn
      /\ \A q \in Clients : q # c => conn'[q] = conn[q]
  BY DEF Connect, BaseInv, TypeOK
<1>2. /\ Len(backlog') = Len(backlog) + 1 /\ Len(backlog) \in Nat
      /\ backlog'[Len(backlog) + 1] = c
      /\ \A k \in 1..Len(backlog) : backlog'[k] = backlog[k] /\ backlog[k] \in Clients
  BY AppendProperties, LenProperties, ElementOfSeq DEF Connect, BaseInv, TypeOK
<1>3. Unused(c) /\ OwnFd(c) /\ InTurn(c)
  BY DEF PromptInv
<1>4. /\ conn'[c].st = "up" /\ conn'[c].sent = conn[c].sent /\ conn'[c].read = conn[c].read
      /\ conn'[c].echoed = conn[c].echoed /\ conn'[c].got = conn[c].got
  BY <1>1 DEF Conn
<1>5. ASSUME NEW k \in 1..Len(backlog') PROVE Pending(k)'
  <2>1. CASE k \in 1..Len(backlog)
    <3>1. Pending(k) /\ backlog[k] # c /\ backlog[k] \in Clients
      BY <1>1, <1>2, <1>3, <2>1 DEF PromptInv, Unused
    <3>2. ASSUME NEW j \in 1..Len(backlog'), backlog'[j] = backlog'[k] PROVE j = k
      <4>1. j \in 1..Len(backlog)
        BY <1>2, <2>1, <3>1, <3>2
      <4>. QED BY <1>2, <2>1, <3>1, <3>2, <4>1 DEF Pending
    <3>. QED BY <1>1, <1>2, <2>1, <3>1, <3>2 DEF Pending
  <2>2. CASE k = Len(backlog) + 1
    <3>1. ASSUME NEW j \in 1..Len(backlog'), backlog'[j] = backlog'[k] PROVE j = k
      BY <1>1, <1>2, <1>3, <2>2, <3>1 DEF Unused
    <3>. QED BY <1>1, <1>2, <1>3, <1>4, <2>2, <3>1 DEF Pending, Unused
  <2>. QED BY <1>2, <2>1, <2>2
<1>6. ASSUME NEW q \in Clients PROVE Unused(q)' /\ OwnFd(q)' /\ InTurn(q)'
  <2>1. CASE q = c
    BY <1>1, <1>3, <1>4, <2>1 DEF Unused, OwnFd, InTurn
  <2>2. CASE q # c
    <3>1. Unused(q) /\ OwnFd(q) /\ InTurn(q)
      BY DEF PromptInv
    <3>2. \A k \in 1..Len(backlog') : backlog'[k] = q => k \in 1..Len(backlog) /\ backlog[k] = q
      BY <1>2, <2>2
    <3>3. Unused(q)'
      BY <1>1, <2>2, <3>1, <3>2 DEF Unused
    <3>. QED BY <1>1, <2>2, <3>1, <3>3 DEF OwnFd, InTurn
  <2>. QED BY <2>1, <2>2
<1>7. DistinctFds' /\ (down' = "sigpipe" => \E q \in Clients : conn'[q].st = "rst")
  <2>1. DistinctFds'
    BY <1>1 DEF PromptInv, DistinctFds
  <2>2. ASSUME down' = "sigpipe" PROVE \E q \in Clients : conn'[q].st = "rst"
    BY <1>1, <2>2 DEF PromptInv
  <2>. QED BY <2>1, <2>2
<1>. QED BY <1>1, <1>5, <1>6, <1>7 DEF PromptInv

\* main accepts a connection after every thread has read nfp.
LEMMA AcceptPrompt ==
  ASSUME BaseInv, PromptInv, ~late', Accept
  PROVE  PromptInv'
<1>. PICK h \in Clients : h = Head(backlog)
  BY AcceptEffect DEF BaseInv
<1>1. /\ ~late /\ \A c \in Clients : thread[c].pc # "new"
      /\ UNCHANGED conn /\ down = "no" /\ down' # "sigpipe"
      /\ Len(backlog) \in Nat \ {0} /\ h = backlog[1] /\ Len(backlog') = Len(backlog) - 1
      /\ \A k \in 1..Len(backlog') : backlog'[k] = backlog[k + 1] /\ k + 1 \in 1..Len(backlog)
  BY AcceptEffect DEF BaseInv, TypeOK
<1>2. Pending(1) /\ thread[h].pc = "none" /\ conn[h].st # "off" /\ \A f \in 1..FdLimit : fds[f] # h
  BY <1>1 DEF PromptInv, Pending
<1>3. /\ \A f \in 1..FdLimit : fds'[f] \in {fds[f], h}
      /\ \A f \in 1..FdLimit : fds'[f] = h => f = nfp'
      /\ \A f \in 1..FdLimit : fds'[f] # fds[f] => fds[f] = NoClient
  BY <1>2, AcceptEffect DEF BaseInv, TypeOK
<1>4. /\ \A q \in Clients : q # h => thread'[q] = thread[q]
      /\ thread'[h].n = thread[h].n
      /\ thread'[h].pc = "none" \/ (thread'[h].pc = "new" /\ nfp' \in 1..FdLimit /\ fds'[nfp'] = h)
  <2>1. CASE UNCHANGED thread
    BY <1>2, <2>1
  <2>2. CASE thread' = [thread EXCEPT ![h].pc = "new"] /\ nfp' \in 1..FdLimit /\ fds' = [fds EXCEPT ![nfp'] = h]
    BY <2>2 DEF BaseInv, TypeOK, Thread
  <2>. QED BY <2>1, <2>2, AcceptEffect DEF BaseInv
<1>5. ASSUME NEW k \in 1..Len(backlog') PROVE Pending(k)' /\ backlog'[k] # h
  <2>1. /\ Pending(k + 1) /\ k + 1 \in 1..Len(backlog) /\ k + 1 # 1 /\ 1 \in 1..Len(backlog)
        /\ backlog'[k] = backlog[k + 1] /\ backlog[k + 1] \in Clients
    BY <1>1, ElementOfSeq DEF PromptInv, BaseInv, TypeOK
  <2>2. backlog'[k] # h
    BY <1>1, <2>1 DEF Pending
  <2>3. ASSUME NEW j \in 1..Len(backlog'), backlog'[j] = backlog'[k] PROVE j = k
    <3>1. j + 1 \in 1..Len(backlog) /\ backlog[j + 1] = backlog[k + 1]
      BY <1>1, <2>1, <2>3
    <3>2. j + 1 = k + 1
      BY <2>1, <3>1 DEF Pending
    <3>. QED BY <3>2
  <2>. QED BY <1>1, <1>3, <1>4, <2>1, <2>2, <2>3 DEF Pending
<1>6. ASSUME NEW q \in Clients PROVE Unused(q)' /\ OwnFd(q)' /\ InTurn(q)'
  <2>0. Unused(q) /\ OwnFd(q) /\ InTurn(q) /\ FdKnown(q)
    BY <1>1 DEF PromptInv, BaseInv
  <2>1. Unused(q)'
    <3>1. CASE q = h
      BY <1>1, <1>2, <3>1 DEF Unused
    <3>2. CASE q # h
      BY <1>1, <1>3, <1>4, <2>0, <3>2 DEF Unused
    <3>. QED BY <3>1, <3>2
  <2>2. OwnFd(q)'
    <3>1. CASE q = h
      BY <1>2, <1>4, <2>0, <3>1 DEF OwnFd
    <3>2. CASE q # h
      <4>1. thread[q].pc \in {"loop", "read", "echo", "close"} => fds'[thread[q].fd] = q
        BY <1>3, <2>0, ClientAssumption DEF OwnFd, FdKnown
      <4>. QED BY <1>1, <1>4, <2>0, <3>2, <4>1 DEF OwnFd
    <3>. QED BY <3>1, <3>2
  <2>3. InTurn(q)'
    BY <1>1, <1>4, <2>0 DEF InTurn
  <2>. QED BY <2>1, <2>2, <2>3
<1>7. DistinctFds'
  <2>. SUFFICES ASSUME NEW f \in 1..FdLimit, NEW g \in 1..FdLimit, fds'[f] = fds'[g], fds'[f] # NoClient
                PROVE  f = g
    BY DEF DistinctFds
  <2>1. CASE fds'[f] = h
    BY <1>3, <2>1
  <2>2. CASE fds'[f] # h
    BY <1>1, <1>3, <2>2 DEF PromptInv, DistinctFds
  <2>. QED BY <2>1, <2>2
<1>. QED BY <1>1, <1>5, <1>6, <1>7 DEF PromptInv

\* A send on a thread's own descriptor, of no more than it has in its buffer.
LEMMA OwnSend ==
  ASSUME BaseInv, PromptInv, ~late, down = "no", NEW c \in Clients,
         thread[c].pc \in {"loop", "echo"}, NEW n \in Nat, Send(thread[c].fd, n),
         n = 0 \/ n = thread[c].n
  PROVE  /\ \A q \in Clients : q # c => conn'[q] = conn[q]
         /\ conn[c].st # "off" /\ conn'[c].st # "off"
         /\ conn[c].st = "rst" => conn'[c].st = "rst"
         /\ down' = "sigpipe" => conn'[c].st = "rst"
         /\ conn'[c].got <= conn'[c].echoed /\ conn'[c].read <= conn'[c].sent
         /\ conn'[c].echoed + (thread[c].n - n) <= conn'[c].read
         /\ conn'[c].st = "rst" => conn'[c].got < conn'[c].sent
<1>. DEFINE f == thread[c].fd
<1>1. f \in 1..FdLimit /\ fds[f] = c /\ InTurn(c) /\ Unused(c)
  BY DEF BaseInv, FdKnown, PromptInv, OwnFd
<1>2. /\ conn[c] \in Conn /\ thread[c].n \in Nat /\ conn[c].st # "off"
      /\ conn[c].sent \in Nat /\ conn[c].read \in Nat /\ conn[c].echoed \in Nat /\ conn[c].got \in Nat
  BY <1>1 DEF BaseInv, TypeOK, Conn, Thread, Unused
<1>3. /\ \A q \in Clients : q # c => conn'[q] = conn[q]
      /\ \/ conn[c].st = "up" /\ conn'[c] = [conn[c] EXCEPT !.echoed = @ + n] /\ UNCHANGED down
         \/ conn[c].st = "fin" /\ n > 0 /\ conn'[c] = [conn[c] EXCEPT !.st = "rst"] /\ UNCHANGED down
         \/ conn[c].st = "fin" /\ n = 0 /\ conn'[c] = conn[c] /\ UNCHANGED down
         \/ conn[c].st = "rst" /\ conn'[c] = conn[c]
  <2>. HIDE DEF f
  <2>. QED BY <1>1, SendEffect DEF BaseInv, f
<1>4. CASE conn[c].st = "up" /\ conn'[c] = [conn[c] EXCEPT !.echoed = @ + n] /\ UNCHANGED down
  <2>1. /\ conn'[c].st = "up" /\ conn'[c].echoed = conn[c].echoed + n
        /\ conn'[c].sent = conn[c].sent /\ conn'[c].read = conn[c].read /\ conn'[c].got = conn[c].got
    BY <1>2, <1>4 DEF Conn
  <2>. QED BY <1>1, <1>2, <1>3, <1>4, <2>1 DEF InTurn
<1>5. CASE conn[c].st = "fin" /\ n > 0 /\ conn'[c] = [conn[c] EXCEPT !.st = "rst"] /\ UNCHANGED down
  <2>1. /\ conn'[c].st = "rst" /\ conn'[c].echoed = conn[c].echoed
        /\ conn'[c].sent = conn[c].sent /\ conn'[c].read = conn[c].read /\ conn'[c].got = conn[c].got
    BY <1>2, <1>5 DEF Conn
  <2>. QED BY <1>1, <1>2, <1>3, <1>5, <2>1 DEF InTurn
<1>6. CASE conn'[c] = conn[c] /\ (conn[c].st = "rst" \/ UNCHANGED down)
  BY <1>1, <1>2, <1>3, <1>6 DEF InTurn
<1>. QED BY <1>3, <1>4, <1>5, <1>6

\* A thread reads its descriptor, greets, reads, echoes or leaves its loop.
LEMMA ThreadPrompt ==
  ASSUME BaseInv, PromptInv, ~late, NEW c \in Clients,
         ReadFd(c) \/ LoopTop(c) \/ ReadData(c) \/ Echo(c) \/ ReadEnds(c)
  PROVE  PromptInv'
<1>0. /\ Unused(c) /\ OwnFd(c) /\ InTurn(c) /\ FdKnown(c) /\ thread[c] \in Thread /\ conn[c] \in Conn
      /\ thread \in [Clients -> Thread] /\ conn \in [Clients -> Conn]
  BY DEF PromptInv, BaseInv, TypeOK
<1>1. CASE ReadFd(c)
  <2>1. /\ thread[c].pc = "new" /\ thread'[c].pc = "loop" /\ thread'[c].fd = nfp
        /\ thread'[c].n = thread[c].n /\ \A q \in Clients : q # c => thread'[q] = thread[q]
        /\ UNCHANGED <<conn, backlog, nfp, fds, down, late>>
    BY <1>0, <1>1 DEF ReadFd, Thread
  <2>2. OwnFd(c)' /\ InTurn(c)' /\ conn'[c].st # "off"
    BY <1>0, <2>1 DEF OwnFd, InTurn, Unused
  <2>. QED BY <2>1, <2>2, OneKept
<1>2. CASE LoopTop(c)
  <2>1. /\ thread[c].pc = "loop" /\ thread'[c].pc = "read" /\ thread'[c].fd = thread[c].fd
        /\ thread'[c].file = fds[thread[c].fd] /\ thread'[c].n = thread[c].n /\ thread[c].n = 0
        /\ \A q \in Clients : q # c => thread'[q] = thread[q]
        /\ UNCHANGED <<backlog, nfp, fds, late>> /\ down = "no" /\ Send(thread[c].fd, 0)
    BY <1>0, <1>2 DEF LoopTop, Thread, OwnFd
  <2>2. /\ \A q \in Clients : q # c => conn'[q] = conn[q]
        /\ conn'[c].st # "off" /\ (conn[c].st = "rst" => conn'[c].st = "rst")
        /\ down' = "sigpipe" => conn'[c].st = "rst"
        /\ conn'[c].got <= conn'[c].echoed /\ conn'[c].read <= conn'[c].sent
        /\ conn'[c].echoed + (thread[c].n - 0) <= conn'[c].read
        /\ conn'[c].st = "rst" => conn'[c].got < conn'[c].sent
    BY <2>1, OwnSend
  <2>3. OwnFd(c)'
    BY <1>0, <2>1 DEF OwnFd
  <2>4. InTurn(c)'
    BY <2>1, <2>2 DEF InTurn
  <2>. QED BY <2>1, <2>2, <2>3, <2>4, OneKept
<1>3. CASE ReadData(c)
  <2>1. thread[c].pc = "read" /\ thread[c].file = c /\ thread[c].n = 0 /\ conn[c].read < conn[c].sent
    BY <1>0, <1>3 DEF ReadData, OwnFd
  <2>2. /\ conn' = [conn EXCEPT ![c].read = conn[c].sent]
        /\ thread' = [thread EXCEPT ![c].pc = "echo", ![c].n = conn[c].sent - conn[c].read]
        /\ UNCHANGED <<backlog, nfp, fds, down, late>>
    BY <1>3, <2>1 DEF ReadData
  <2>3. /\ thread'[c].pc = "echo" /\ thread'[c].fd = thread[c].fd /\ thread'[c].file = c
        /\ thread'[c].n = conn[c].sent - conn[c].read
        /\ \A q \in Clients : q # c => thread'[q] = thread[q]
    BY <1>0, <2>1, <2>2 DEF Thread
  <2>4. /\ conn'[c].read = conn[c].sent /\ conn'[c].sent = conn[c].sent /\ conn'[c].st = conn[c].st
        /\ conn'[c].echoed = conn[c].echoed /\ conn'[c].got = conn[c].got
        /\ \A q \in Clients : q # c => conn'[q] = conn[q]
    BY <1>0, <2>2 DEF Conn
  <2>5. OwnFd(c)' /\ conn'[c].st # "off"
    BY <1>0, <2>1, <2>2, <2>3, <2>4 DEF OwnFd, Unused
  <2>6. /\ conn[c].sent \in Nat /\ conn[c].read \in Nat /\ conn[c].echoed \in Nat /\ conn[c].got \in Nat
    BY <1>0 DEF Conn
  <2>7. InTurn(c)'
    BY <1>0, <2>1, <2>3, <2>4, <2>6 DEF InTurn
  <2>. QED BY <2>1, <2>2, <2>3, <2>4, <2>5, <2>7, OneKept
<1>4. CASE Echo(c)
  <2>1. /\ thread[c].pc = "echo" /\ thread'[c].pc = "loop" /\ thread'[c].fd = thread[c].fd
        /\ thread'[c].n = 0 /\ thread[c].n \in Nat
        /\ \A q \in Clients : q # c => thread'[q] = thread[q]
        /\ UNCHANGED <<backlog, nfp, fds, late>> /\ down = "no" /\ Send(thread[c].fd, thread[c].n)
    BY <1>0, <1>4 DEF Echo, Thread
  <2>2. /\ \A q \in Clients : q # c => conn'[q] = conn[q]
        /\ conn'[c].st # "off" /\ (conn[c].st = "rst" => conn'[c].st = "rst")
        /\ down' = "sigpipe" => conn'[c].st = "rst"
        /\ conn'[c].got <= conn'[c].echoed /\ conn'[c].read <= conn'[c].sent
        /\ conn'[c].echoed + (thread[c].n - thread[c].n) <= conn'[c].read
        /\ conn'[c].st = "rst" => conn'[c].got < conn'[c].sent
    BY <2>1, OwnSend
  <2>3. OwnFd(c)'
    BY <1>0, <2>1 DEF OwnFd
  <2>4. InTurn(c)'
    BY <2>1, <2>2 DEF InTurn
  <2>. QED BY <2>1, <2>2, <2>3, <2>4, OneKept
<1>5. CASE ReadEnds(c)
  <2>1. /\ thread[c].pc = "read" /\ thread'[c].pc = "close" /\ thread'[c].fd = thread[c].fd
        /\ thread'[c].n = thread[c].n /\ \A q \in Clients : q # c => thread'[q] = thread[q]
        /\ UNCHANGED <<conn, backlog, nfp, fds, down, late>>
    BY <1>0, <1>5 DEF ReadEnds, Thread
  <2>2. OwnFd(c)' /\ InTurn(c)' /\ conn'[c].st # "off"
    BY <1>0, <2>1 DEF OwnFd, InTurn, Unused
  <2>. QED BY <2>1, <2>2, OneKept
<1>. QED BY <1>1, <1>2, <1>3, <1>4, <1>5

\* A thread closes the descriptor of its client and no other.
LEMMA ClosePrompt ==
  ASSUME BaseInv, PromptInv, ~late, NEW c \in Clients, CloseFd(c)
  PROVE  PromptInv'
<1>1. /\ thread[c].pc = "close" /\ thread[c].fd \in 1..FdLimit /\ fds[thread[c].fd] = c
      /\ UNCHANGED <<conn, backlog, nfp, down, late>>
  BY DEF CloseFd, BaseInv, FdKnown, PromptInv, OwnFd
<1>2. /\ \A f \in 1..FdLimit : fds'[f] = (IF f = thread[c].fd THEN NoClient ELSE fds[f])
      /\ \A q \in Clients : q # c => thread'[q] = thread[q]
      /\ thread'[c].pc = "done" /\ thread'[c].n = 0
  BY <1>1 DEF CloseFd, BaseInv, TypeOK, NoThread
<1>3. DistinctFds'
  BY <1>1, <1>2 DEF PromptInv, DistinctFds
<1>4. ASSUME NEW k \in 1..Len(backlog) PROVE Pending(k)'
  <2>1. Pending(k) /\ backlog[k] \in Clients /\ backlog[k] # c
    BY <1>1, ElementOfSeq DEF PromptInv, BaseInv, TypeOK, Pending
  <2>2. \A f \in 1..FdLimit : fds'[f] # backlog[k]
    BY <1>2, <2>1, ClientAssumption DEF Pending
  <2>. QED BY <1>1, <1>2, <2>1, <2>2 DEF Pending
<1>5. ASSUME NEW q \in Clients PROVE Unused(q)' /\ OwnFd(q)' /\ InTurn(q)'
  <2>0. Unused(q) /\ OwnFd(q) /\ InTurn(q) /\ FdKnown(q)
    BY DEF PromptInv, BaseInv
  <2>1. CASE q = c
    <3>1. conn[c].st # "off"
      BY <1>1, <2>0, <2>1 DEF Unused
    <3>2. /\ conn[c].sent \in Nat /\ conn[c].read \in Nat /\ conn[c].echoed \in Nat /\ thread[c].n \in Nat
      BY DEF BaseInv, TypeOK, Conn, Thread
    <3>. QED BY <1>1, <1>2, <2>0, <2>1, <3>1, <3>2 DEF Unused, OwnFd, InTurn
  <2>2. CASE q # c
    <3>1. Unused(q)'
      BY <1>1, <1>2, <2>0, <2>2, ClientAssumption DEF Unused
    <3>2. OwnFd(q)'
      BY <1>1, <1>2, <2>0, <2>2 DEF OwnFd, FdKnown
    <3>. QED BY <1>1, <1>2, <2>0, <2>2, <3>1, <3>2 DEF InTurn
  <2>. QED BY <2>1, <2>2
<1>6. down' = "sigpipe" => \E q \in Clients : conn'[q].st = "rst"
  BY <1>1 DEF PromptInv
<1>. QED BY <1>1, <1>3, <1>4, <1>5, <1>6 DEF PromptInv

\* Every step keeps the invariant of prompt threads.
LEMMA PromptStep == BaseInv /\ PromptInv /\ [Next]_vars => PromptInv'
<1>. SUFFICES ASSUME BaseInv, PromptInv, [Next]_vars, ~late' PROVE PromptInv'
  BY DEF PromptInv
<1>1. CASE Accept
  BY <1>1, AcceptPrompt
<1>2. ASSUME NEW c \in Clients, Connect(c) PROVE PromptInv'
  BY <1>2, ConnectPrompt DEF Connect
<1>3. ASSUME NEW c \in Clients, ClientSend(c) \/ ClientRecv(c) \/ ClientClose(c) PROVE PromptInv'
  BY <1>3, ClientPrompt DEF ClientSend, ClientRecv, ClientClose
<1>4. ASSUME NEW c \in Clients, ReadFd(c) \/ LoopTop(c) \/ ReadData(c) \/ Echo(c) \/ ReadEnds(c)
      PROVE  PromptInv'
  <2>1. CASE ReadFd(c)
    BY <2>1, ThreadPrompt DEF ReadFd
  <2>2. CASE LoopTop(c)
    BY <2>2, ThreadPrompt DEF LoopTop
  <2>3. CASE ReadData(c)
    BY <2>3, ThreadPrompt DEF ReadData
  <2>4. CASE Echo(c)
    BY <2>4, ThreadPrompt DEF Echo
  <2>5. CASE ReadEnds(c)
    BY <2>5, ThreadPrompt DEF ReadEnds
  <2>. QED BY <1>4, <2>1, <2>2, <2>3, <2>4, <2>5
<1>5. ASSUME NEW c \in Clients, CloseFd(c) PROVE PromptInv'
  BY <1>5, ClosePrompt DEF CloseFd
<1>6. CASE UNCHANGED vars
  BY <1>6 DEF vars, PromptInv, DistinctFds, Pending, Unused, OwnFd, InTurn
<1>. QED BY <1>1, <1>2, <1>3, <1>4, <1>5, <1>6 DEF Next, rec_data

\* The server starts without connections and threads.
LEMMA EchoInit == Init => BaseInv /\ PromptInv
<1>. SUFFICES ASSUME Init PROVE BaseInv /\ PromptInv
  OBVIOUS
<1>1. [st |-> "off", sent |-> 0, read |-> 0, echoed |-> 0, got |-> 0] \in Conn /\ NoThread \in Thread
  BY LimitAssumption DEF Conn, Thread, NoThread
<1>2. TypeOK
  <2>1. conn \in [Clients -> Conn] /\ thread \in [Clients -> Thread]
    BY <1>1 DEF Init
  <2>2. backlog \in Seq(Clients)
    BY EmptySeq DEF Init
  <2>3. nfp \in 0..FdLimit /\ fds \in [1..FdLimit -> Clients \cup {NoClient}]
    BY LimitAssumption DEF Init
  <2>4. late \in BOOLEAN
    BY DEF Init
  <2>. QED BY <2>1, <2>2, <2>3, <2>4 DEF Init, TypeOK
<1>3. \A c \in Clients : /\ thread[c].pc = "none" /\ thread[c].n = 0 /\ conn[c].st = "off"
                         /\ conn[c].sent = 0 /\ conn[c].read = 0 /\ conn[c].echoed = 0 /\ conn[c].got = 0
  BY DEF Init, NoThread
<1>4. backlog = <<>> /\ Len(<<>>) = 0 /\ \A f \in 1..FdLimit : fds[f] = NoClient
  BY DEF Init
<1>5. \A c \in Clients : FdKnown(c)
  BY <1>3 DEF FdKnown
<1>6. \A c \in Clients : Unused(c) /\ OwnFd(c) /\ InTurn(c)
  BY <1>3, <1>4, ClientAssumption DEF Unused, OwnFd, InTurn
<1>7. DistinctFds /\ \A k \in 1..Len(backlog) : Pending(k)
  BY <1>4 DEF DistinctFds
<1>. QED BY <1>2, <1>5, <1>6, <1>7 DEF BaseInv, PromptInv, Init

\* Every variable of the server keeps its type, also when threads are late: a thread always
\* uses a descriptor of the table (tcp_server.c:12-30, 120-140).
THEOREM EchoTypeCorrect == Spec => []TypeOK
<1>1. BaseInv => TypeOK
  BY DEF BaseInv
<1>. QED BY <1>1, EchoInit, BaseStep, PTL DEF Spec

\* As long as sleep(1) (tcp_server.c:139) was enough, a thread serves the client it was
\* created for until it closes it, descriptors being closed and reused meanwhile.
THEOREM EchoPromptThreads == Spec => []PromptThreads
<1>1. PromptInv => PromptThreads
  BY DEF PromptInv, OwnFd, PromptThreads, ThreadPerClient
<1>. QED BY <1>1, EchoInit, BaseStep, PromptStep, PTL DEF Spec

\* With prompt threads SIGPIPE ends the process only after some client closed with an echo
\* outstanding (tcp_server.c:22, 29).
THEOREM EchoDeathNeedsHaste == Spec => []DeathNeedsHaste
<1>1. PromptInv => DeathNeedsHaste
  BY DEF PromptInv, InTurn, DeathNeedsHaste
<1>. QED BY <1>1, EchoInit, BaseStep, PromptStep, PTL DEF Spec

\* With prompt threads every connection gets back no more than it sent: what was echoed,
\* with what its thread holds, is within what was read of it (tcp_server.c:23-29).
THEOREM EchoWithinSent ==
  Spec => [](~late => \A c \in Clients : /\ conn[c].echoed + thread[c].n <= conn[c].read
                                         /\ conn[c].read <= conn[c].sent
                                         /\ conn[c].got <= conn[c].echoed)
<1>. DEFINE P == ~late => \A c \in Clients : /\ conn[c].echoed + thread[c].n <= conn[c].read
                                             /\ conn[c].read <= conn[c].sent
                                             /\ conn[c].got <= conn[c].echoed
<1>1. PromptInv => P
  BY DEF PromptInv, InTurn
<1>. QED BY <1>1, EchoInit, BaseStep, PromptStep, PTL DEF Spec

-----------------------------------------------------------------------------
(* Sums over the clients, threads that are late included.                  *)

\* A set of naturals that is not empty has a least element.
LEMMA LeastNat == ASSUME NEW T, T \subseteq Nat, T # {} PROVE \E x \in T : \A y \in T : x <= y
<1>1. IsWellFoundedOn(OpToRel(<, Nat), Nat)
  BY NatLessThanWellFounded
<1>2. PICK x \in T : \A y \in T : ~(<<y, x>> \in OpToRel(<, Nat))
  BY <1>1, WFMin
<1>3. \A y \in Nat : <<y, x>> \in OpToRel(<, Nat) <=> y < x
  BY DEF OpToRel
<1>4. \A y \in T : ~(y < x)
  BY <1>2, <1>3
<1>5. \A y \in T : x <= y
  BY <1>4
<1>. QED BY <1>5

First(S) == CHOOSE c \in S : TRUE

\* g gives the sum of f over the sets in D, in the order that MapThenSumSet takes
IsSum(f, g, D) ==
  \A S \in D : g[S] = IF S = {} THEN 0 ELSE f[First(S)] + g[S \ {First(S)}]

Groups == SUBSET Clients

Below(n) == {S \in Groups : Cardinality(S) < n}

\* A group without its first client is smaller by one.
LEMMA FirstLemma ==
  ASSUME NEW S \in Groups, S # {}
  PROVE  /\ First(S) \in S /\ First(S) \in Clients /\ S \ {First(S)} \in Groups
         /\ IsFiniteSet(S) /\ Cardinality(S) \in Nat
         /\ Cardinality(S \ {First(S)}) = Cardinality(S) - 1
<1>1. First(S) \in S
  BY Zenon DEF First
<1>2. IsFiniteSet(S) /\ Cardinality(S) \in Nat
  BY FiniteClients, FS_Subset, FS_CardinalityType DEF Groups
<1>. QED BY <1>1, <1>2, FS_RemoveElement DEF Groups

\* The groups are those with at most as many clients as there are.
LEMMA GroupsLemma ==
  /\ Cardinality(Clients) \in Nat
  /\ \A S \in Groups : Cardinality(S) \in Nat
  /\ Groups = Below(Cardinality(Clients) + 1)
<1>1. \A S \in Groups : Cardinality(S) \in Nat /\ Cardinality(S) <= Cardinality(Clients)
  BY FiniteClients, FS_Subset, FS_CardinalityType DEF Groups
<1>2. Cardinality(Clients) \in Nat
  BY FiniteClients, FS_CardinalityType
<1>. QED BY <1>1, <1>2 DEF Below

\* There are sums of every function.
LEMMA SumExists ==
  ASSUME NEW f
  PROVE  \E g : g = [S \in Groups |-> g[S]] /\ IsSum(f, g, Groups)
<1>. DEFINE Has(n) == \E g : g = [S \in Below(n) |-> g[S]] /\ IsSum(f, g, Below(n))
            T == {n \in Nat : ~Has(n)}
<1>1. ASSUME T # {} PROVE FALSE
  <2>1. PICK n \in T : \A k \in T : n <= k
    <3>. HIDE DEF Has
    <3>. QED BY <1>1, LeastNat
  <2>2. n # 0
    <3>1. Below(0) = {}
      BY GroupsLemma DEF Below
    <3>. DEFINE e == [S \in Below(0) |-> 0]
    <3>2. e = [S \in Below(0) |-> e[S]] /\ IsSum(f, e, Below(0))
      BY <3>1 DEF IsSum
    <3>3. Has(0)
      BY <3>2
    <3>. QED BY <3>3
  <2>3. n - 1 \in Nat /\ ~(n - 1 \in T) /\ n \in Nat
    BY <2>1, <2>2
  <2>4. Has(n - 1)
    BY <2>3
  <2>5. PICK g : g = [S \in Below(n - 1) |-> g[S]] /\ IsSum(f, g, Below(n - 1))
    BY <2>4
  <2>. DEFINE h == [S \in Below(n) |-> IF S = {} THEN 0 ELSE f[First(S)] + g[S \ {First(S)}]]
  <2>6. \A S \in Below(n - 1) : S \in Below(n) /\ h[S] = g[S]
    <3>1. \A S \in Below(n - 1) : S \in Below(n)
      BY <2>3, GroupsLemma DEF Below
    <3>. QED BY <3>1, <2>5 DEF IsSum
  <2>7. \A S \in Below(n) : S # {} => S \ {First(S)} \in Below(n - 1)
    BY <2>3, FirstLemma DEF Below
  <2>8. IsSum(f, h, Below(n))
    <3>1. SUFFICES ASSUME NEW S \in Below(n)
                   PROVE  h[S] = IF S = {} THEN 0 ELSE f[First(S)] + h[S \ {First(S)}]
      BY DEF IsSum
    <3>2. h[S] = IF S = {} THEN 0 ELSE f[First(S)] + g[S \ {First(S)}]
      OBVIOUS
    <3>3. S # {} => h[S \ {First(S)}] = g[S \ {First(S)}]
      BY <2>6, <2>7
    <3>. HIDE DEF h
    <3>. QED BY <3>2, <3>3
  <2>9. h = [S \in Below(n) |-> h[S]]
    OBVIOUS
  <2>10. Has(n)
    <3>. HIDE DEF h
    <3>. QED BY <2>8, <2>9
  <2>. QED BY <2>1, <2>10
<1>2. Cardinality(Clients) + 1 \in Nat
  BY GroupsLemma
<1>3. Has(Cardinality(Clients) + 1)
  BY <1>1, <1>2
<1>. QED BY <1>3, GroupsLemma

\* Sums of integers are integers, and changing one of them changes the sum by as much.
LEMMA SumChange ==
  ASSUME NEW f \in [Clients -> Int], NEW g, IsSum(f, g, Groups),
         NEW h \in [Clients -> Int], NEW k, IsSum(h, k, Groups),
         NEW c \in Clients, \A b \in Clients : b # c => h[b] = f[b]
  PROVE  /\ g[Clients] \in Int /\ k[Clients] \in Int
         /\ k[Clients] = g[Clients] + (h[c] - f[c])
<1>. DEFINE d(S) == IF c \in S THEN h[c] - f[c] ELSE 0
            Right(S) == g[S] \in Int /\ k[S] \in Int /\ k[S] = g[S] + d(S)
            T == {n \in Nat : \E S \in Groups : Cardinality(S) = n /\ ~Right(S)}
<1>1. ASSUME T # {} PROVE FALSE
  <2>1. PICK n \in T : \A j \in T : n <= j
    <3>. HIDE DEF Right
    <3>. QED BY <1>1, LeastNat
  <2>2. PICK S \in Groups : Cardinality(S) = n /\ ~Right(S)
    BY <2>1
  <2>3. S # {}
    <3>1. ASSUME S = {} PROVE Right(S)
      <4>1. g[S] = 0 /\ k[S] = 0 /\ d(S) = 0
        BY <3>1 DEF IsSum
      <4>. QED BY <4>1
    <3>. QED BY <3>1, <2>2
  <2>. DEFINE x == First(S)
              R == S \ {First(S)}
  <2>4. x \in S /\ x \in Clients /\ R \in Groups /\ Cardinality(R) = n - 1 /\ n \in Nat
        /\ n - 1 \in Nat
    <3>1. Cardinality(R) \in Nat
      BY <2>3, FirstLemma, GroupsLemma
    <3>. QED BY <2>2, <2>3, <3>1, FirstLemma
  <2>5. Right(R)
    <3>1. n - 1 \notin T
      BY <2>1, <2>4
    <3>. HIDE DEF Right
    <3>. QED BY <2>4, <3>1
  <2>6. g[S] = f[x] + g[R] /\ k[S] = h[x] + k[R]
    BY <2>3 DEF IsSum
  <2>7. f[x] \in Int /\ h[x] \in Int /\ f[c] \in Int /\ h[c] \in Int
    BY <2>4
  <2>8. c \in R <=> c \in S /\ c # x
    OBVIOUS
  <2>. HIDE DEF x, R
  <2>9. CASE x = c
    <3>1. d(R) = 0 /\ d(S) = h[c] - f[c]
      BY <2>4, <2>8, <2>9
    <3>. QED BY <2>2, <2>5, <2>6, <2>7, <2>9, <3>1
  <2>10. CASE x # c
    <3>1. d(R) = d(S) /\ h[x] = f[x] /\ d(S) \in Int
      BY <2>4, <2>7, <2>8, <2>10
    <3>. HIDE DEF d
    <3>. QED BY <2>2, <2>5, <2>6, <2>7, <3>1
  <2>. QED BY <2>9, <2>10
<1>2. Clients \in Groups /\ Cardinality(Clients) \in Nat
  BY GroupsLemma DEF Groups
<1>3. Right(Clients)
  <2>. HIDE DEF Right
  <2>. QED BY <1>1, <1>2
<1>. QED BY <1>3


\* What clients were echoed with what threads hold, and what was read
Held(cn, th) == [c \in Clients |-> cn[c].echoed + th[c].n]
Taken(cn) == [c \in Clients |-> cn[c].read]

HeldSum(cn, th) == MapThenSumSet(LAMBDA c : cn[c].echoed + th[c].n, Clients)
TakenSum(cn) == MapThenSumSet(LAMBDA c : cn[c].read, Clients)

\* The sums of EchoOnce are sums in the sense of IsSum.
LEMMA HeldIsSum ==
  ASSUME NEW cn, NEW th
  PROVE  \E g : IsSum(Held(cn, th), g, Groups) /\ HeldSum(cn, th) = g[Clients]
<1>. DEFINE P(g) == g = [S \in SUBSET Clients |->
                           IF S = {} THEN 0
                           ELSE (cn[CHOOSE c \in S : TRUE].echoed + th[CHOOSE c \in S : TRUE].n)
                                + g[S \ {CHOOSE c \in S : TRUE}]]
<1>1. HeldSum(cn, th) = (CHOOSE g : P(g))[Clients]
  BY Zenon DEF HeldSum, MapThenSumSet, MapThenFoldSet
<1>2. PICK g : g = [S \in Groups |-> g[S]] /\ IsSum(Held(cn, th), g, Groups)
  BY SumExists
<1>3. \A S \in Groups : S # {} =>
        Held(cn, th)[First(S)] = cn[First(S)].echoed + th[First(S)].n
  BY FirstLemma DEF Held
<1>4. P(g)
  BY <1>2, <1>3, ZenonT(60) DEF IsSum, First, Groups
<1>. DEFINE k == CHOOSE j : P(j)
<1>5. P(k)
  BY <1>4, Zenon
<1>. HIDE DEF k
<1>6. IsSum(Held(cn, th), k, Groups)
  BY <1>3, <1>5 DEF IsSum, First, Groups
<1>. QED BY <1>1, <1>6 DEF k

\* What was read from all clients is a sum.
LEMMA TakenIsSum ==
  ASSUME NEW cn
  PROVE  \E g : IsSum(Taken(cn), g, Groups) /\ TakenSum(cn) = g[Clients]
<1>. DEFINE P(g) == g = [S \in SUBSET Clients |->
                           IF S = {} THEN 0
                           ELSE cn[CHOOSE c \in S : TRUE].read + g[S \ {CHOOSE c \in S : TRUE}]]
<1>1. TakenSum(cn) = (CHOOSE g : P(g))[Clients]
  BY Zenon DEF TakenSum, MapThenSumSet, MapThenFoldSet
<1>2. PICK g : g = [S \in Groups |-> g[S]] /\ IsSum(Taken(cn), g, Groups)
  BY SumExists
<1>3. \A S \in Groups : S # {} => Taken(cn)[First(S)] = cn[First(S)].read
  BY FirstLemma DEF Taken
<1>4. P(g)
  BY <1>2, <1>3, ZenonT(60) DEF IsSum, First, Groups
<1>. DEFINE k == CHOOSE j : P(j)
<1>5. P(k)
  BY <1>4, Zenon
<1>. HIDE DEF k
<1>6. IsSum(Taken(cn), k, Groups)
  BY <1>3, <1>5 DEF IsSum, First, Groups
<1>. QED BY <1>1, <1>6 DEF k

\* EchoOnce compares the two sums.
LEMMA EchoOnceSums ==
  /\ EchoOnce <=> HeldSum(conn, thread) <= TakenSum(conn)
  /\ EchoOnce' <=> HeldSum(conn', thread') <= TakenSum(conn')
<1>1. EchoOnce <=> HeldSum(conn, thread) <= TakenSum(conn)
  BY DEF EchoOnce, HeldSum, TakenSum
<1>2. (EchoOnce <=> HeldSum(conn, thread) <= TakenSum(conn))'
  BY <1>1, PTL
<1>. QED BY <1>1, <1>2

\* A step that changes the account of one client.
LEMMA HeldChange ==
  ASSUME NEW cn \in [Clients -> Conn], NEW th \in [Clients -> Thread],
         NEW cm \in [Clients -> Conn], NEW tm \in [Clients -> Thread], NEW c \in Clients,
         \A b \in Clients : b # c => cm[b].echoed = cn[b].echoed /\ tm[b].n = th[b].n
  PROVE  /\ HeldSum(cn, th) \in Int /\ HeldSum(cm, tm) \in Int
         /\ HeldSum(cm, tm) = HeldSum(cn, th)
                                + ((cm[c].echoed + tm[c].n) - (cn[c].echoed + th[c].n))
<1>. DEFINE f == Held(cn, th)
            h == Held(cm, tm)
<1>1. f \in [Clients -> Int] /\ h \in [Clients -> Int]
  BY DEF Held, Conn, Thread
<1>2. /\ \A b \in Clients : b # c => h[b] = f[b]
      /\ f[c] = cn[c].echoed + th[c].n /\ h[c] = cm[c].echoed + tm[c].n
  BY DEF Held
<1>3. PICK g : IsSum(f, g, Groups) /\ HeldSum(cn, th) = g[Clients]
  BY HeldIsSum
<1>4. PICK k : IsSum(h, k, Groups) /\ HeldSum(cm, tm) = k[Clients]
  BY HeldIsSum
<1>. HIDE DEF f, h
<1>5. g[Clients] \in Int /\ k[Clients] \in Int /\ k[Clients] = g[Clients] + (h[c] - f[c])
  BY <1>1, <1>2, <1>3, <1>4, SumChange
<1>. QED BY <1>2, <1>3, <1>4, <1>5

\* A change at one client changes what was read by as much.
LEMMA TakenChange ==
  ASSUME NEW cn \in [Clients -> Conn], NEW cm \in [Clients -> Conn], NEW c \in Clients,
         \A b \in Clients : b # c => cm[b].read = cn[b].read
  PROVE  /\ TakenSum(cn) \in Int /\ TakenSum(cm) \in Int
         /\ TakenSum(cm) = TakenSum(cn) + (cm[c].read - cn[c].read)
<1>. DEFINE f == Taken(cn)
            h == Taken(cm)
<1>1. f \in [Clients -> Int] /\ h \in [Clients -> Int]
  BY DEF Taken, Conn
<1>2. (\A b \in Clients : b # c => h[b] = f[b]) /\ f[c] = cn[c].read /\ h[c] = cm[c].read
  BY DEF Taken
<1>3. PICK g : IsSum(f, g, Groups) /\ TakenSum(cn) = g[Clients]
  BY TakenIsSum
<1>4. PICK k : IsSum(h, k, Groups) /\ TakenSum(cm) = k[Clients]
  BY TakenIsSum
<1>. HIDE DEF f, h
<1>5. g[Clients] \in Int /\ k[Clients] \in Int /\ k[Clients] = g[Clients] + (h[c] - f[c])
  BY <1>1, <1>2, <1>3, <1>4, SumChange
<1>. QED BY <1>2, <1>3, <1>4, <1>5

\* A step in which no byte is read, and which adds nothing to what is echoed and held.
LEMMA NothingAdded ==
  ASSUME TypeOK, TypeOK', EchoOnce, NEW c \in Clients,
         \A b \in Clients : conn'[b].read = conn[b].read /\ conn'[b].echoed = conn[b].echoed,
         \A b \in Clients : b # c => thread'[b].n = thread[b].n,
         thread'[c].n <= thread[c].n
  PROVE  EchoOnce'
<1>1. /\ conn \in [Clients -> Conn] /\ conn' \in [Clients -> Conn]
      /\ thread \in [Clients -> Thread] /\ thread' \in [Clients -> Thread]
  BY DEF TypeOK
<1>2. conn[c].echoed \in Nat /\ thread[c].n \in Nat /\ thread'[c].n \in Nat /\ conn[c].read \in Nat
  BY <1>1 DEF Conn, Thread
<1>. DEFINE d == (conn'[c].echoed + thread'[c].n) - (conn[c].echoed + thread[c].n)
            r == conn'[c].read - conn[c].read
<1>3. /\ HeldSum(conn, thread) \in Int /\ HeldSum(conn', thread') \in Int
      /\ HeldSum(conn', thread') = HeldSum(conn, thread) + d
  BY <1>1, HeldChange
<1>4. /\ TakenSum(conn) \in Int /\ TakenSum(conn') \in Int
      /\ TakenSum(conn') = TakenSum(conn) + r
  BY <1>1, TakenChange
<1>5. d \in Int /\ d <= 0 /\ r = 0
  BY <1>2
<1>. HIDE DEF d, r
<1>6. HeldSum(conn', thread') <= TakenSum(conn')
  BY <1>3, <1>4, <1>5, EchoOnceSums
<1>. QED BY <1>6, EchoOnceSums

\* The bytes read go into the buffer of the thread that read them.
LEMMA ReadDataOnce == ASSUME BaseInv, BaseInv', EchoOnce, NEW c \in Clients, ReadData(c) PROVE EchoOnce'
<1>. DEFINE k == thread[c].file
<1>1. /\ conn \in [Clients -> Conn] /\ conn' \in [Clients -> Conn]
      /\ thread \in [Clients -> Thread] /\ thread' \in [Clients -> Thread]
  BY DEF BaseInv, TypeOK
<1>2. /\ k \in Clients /\ conn[k].read < conn[k].sent
      /\ conn' = [conn EXCEPT ![k].read = conn[k].sent]
      /\ thread' = [thread EXCEPT ![c].pc = "echo", ![c].n = conn[k].sent - conn[k].read]
  BY <1>1 DEF ReadData, Thread
<1>. HIDE DEF k
<1>3. /\ conn[k].read \in Nat /\ conn[k].sent \in Nat /\ conn[c].echoed \in Nat /\ thread[c].n \in Nat
      /\ conn[k] \in Conn
  BY <1>1, <1>2 DEF Conn, Thread
<1>4. /\ \A b \in Clients : conn'[b].echoed = conn[b].echoed
      /\ \A b \in Clients : b # k => conn'[b].read = conn[b].read
      /\ conn'[k].read = conn[k].sent
  BY <1>1, <1>2, <1>3 DEF Conn
<1>5. /\ \A b \in Clients : b # c => thread'[b].n = thread[b].n
      /\ thread'[c].n = conn[k].sent - conn[k].read
  BY <1>1, <1>2 DEF Thread
<1>. DEFINE d == (conn'[c].echoed + thread'[c].n) - (conn[c].echoed + thread[c].n)
            r == conn'[k].read - conn[k].read
<1>6. /\ HeldSum(conn, thread) \in Int /\ HeldSum(conn', thread') \in Int
      /\ HeldSum(conn', thread') = HeldSum(conn, thread) + d
  BY <1>1, <1>4, <1>5, HeldChange
<1>7. /\ TakenSum(conn) \in Int /\ TakenSum(conn') \in Int
      /\ TakenSum(conn') = TakenSum(conn) + r
  BY <1>1, <1>2, <1>4, TakenChange
<1>8. d \in Int /\ r \in Int /\ d <= r
  BY <1>3, <1>4, <1>5
<1>. HIDE DEF d, r
<1>9. HeldSum(conn', thread') <= TakenSum(conn')
  BY <1>6, <1>7, <1>8, EchoOnceSums
<1>. QED BY <1>9, EchoOnceSums

\* What a thread holds is echoed to whoever has its descriptor, and is then gone.
LEMMA EchoEcho == ASSUME BaseInv, BaseInv', EchoOnce, NEW c \in Clients, Echo(c) PROVE EchoOnce'
<1>. DEFINE f == thread[c].fd
            n == thread[c].n
<1>1. /\ conn \in [Clients -> Conn] /\ conn' \in [Clients -> Conn]
      /\ thread \in [Clients -> Thread] /\ thread' \in [Clients -> Thread]
      /\ TypeOK /\ TypeOK'
  BY DEF BaseInv, TypeOK
<1>2. /\ f \in 1..FdLimit /\ n \in Nat /\ Send(f, n) /\ down = "no"
      /\ thread' = [thread EXCEPT ![c].pc = "loop", ![c].n = 0]
  BY <1>1 DEF Echo, BaseInv, FdKnown, Thread
<1>3. /\ \A b \in Clients : b # c => thread'[b].n = thread[b].n
      /\ thread'[c].n = 0
  BY <1>1, <1>2 DEF Thread
<1>n. thread[c].n = n /\ thread'[c].n <= thread[c].n
  BY <1>2, <1>3
<1>. HIDE DEF f, n
<1>4. CASE \A b \in Clients : conn'[b].read = conn[b].read /\ conn'[b].echoed = conn[b].echoed
  BY <1>1, <1>3, <1>4, <1>n, NothingAdded
<1>5. CASE /\ fds[f] \in Clients
           /\ conn'[fds[f]] = [conn[fds[f]] EXCEPT !.echoed = @ + n]
           /\ \A q \in Clients : q # fds[f] => conn'[q] = conn[q]
  <2>0. PICK b \in Clients : b = fds[f]
    BY <1>5
  <2>1. b \in Clients /\ conn'[b] = [conn[b] EXCEPT !.echoed = @ + n]
        /\ \A q \in Clients : q # b => conn'[q] = conn[q]
    BY <1>5, <2>0
  <2>2. conn[b] \in Conn /\ conn[b].echoed \in Nat /\ conn[c].echoed \in Nat
    BY <2>1, <1>1 DEF Conn
  <2>3. conn'[b].echoed = conn[b].echoed + n /\ conn'[b].read = conn[b].read
    BY <2>1, <2>2 DEF Conn
  <2>4. \A q \in Clients : conn'[q].read = conn[q].read
    BY <2>1, <2>3
  <2>. DEFINE d1 == (conn'[b].echoed + thread[b].n) - (conn[b].echoed + thread[b].n)
              d2 == (conn'[c].echoed + thread'[c].n) - (conn'[c].echoed + thread[c].n)
              r  == conn'[b].read - conn[b].read
  <2>5. /\ HeldSum(conn, thread) \in Int /\ HeldSum(conn', thread) \in Int
        /\ HeldSum(conn', thread) = HeldSum(conn, thread) + d1
    <3>1. \A q \in Clients : q # b => conn'[q].echoed = conn[q].echoed /\ thread[q].n = thread[q].n
      BY <2>1
    <3>. HIDE DEF d1
    <3>2. d1 = (conn'[b].echoed + thread[b].n) - (conn[b].echoed + thread[b].n)
      BY DEF d1
    <3>. QED BY <3>1, <3>2, <1>1, HeldChange, ZenonT(60)
  <2>6. /\ HeldSum(conn', thread') \in Int
        /\ HeldSum(conn', thread') = HeldSum(conn', thread) + d2
    BY <1>1, <1>3, HeldChange, ZenonT(60)
  <2>7. /\ TakenSum(conn) \in Int /\ TakenSum(conn') \in Int
        /\ TakenSum(conn') = TakenSum(conn) + r
    BY <1>1, <2>1, <2>4, TakenChange
  <2>8. d1 = n /\ d2 = -n /\ r = 0
    <3>1. thread[b].n \in Nat /\ conn'[c].echoed \in Nat /\ conn[b].read \in Nat
      BY <1>1, <2>1 DEF Conn, Thread
    <3>. QED BY <3>1, <1>2, <1>3, <1>n, <2>2, <2>3
  <2>. HIDE DEF d1, d2, r
  <2>9. HeldSum(conn', thread') <= TakenSum(conn')
    BY <1>2, <2>5, <2>6, <2>7, <2>8, EchoOnceSums
  <2>. QED BY <2>9, EchoOnceSums
<1>6. CASE fds[f] = NoClient
  <2>1. conn' = conn
    BY <1>1, <1>2, <1>6, SendEffect
  <2>. QED BY <2>1, <1>4
<1>7. CASE fds[f] \in Clients
  <2>. DEFINE b == fds[f]
  <2>1. /\ \A q \in Clients : q # b => conn'[q] = conn[q]
        /\ \/ conn'[b] = [conn[b] EXCEPT !.echoed = @ + n]
           \/ conn'[b] = [conn[b] EXCEPT !.st = "rst"]
           \/ conn'[b] = conn[b]
    BY <1>1, <1>2, <1>7, SendEffect
  <2>2. b \in Clients /\ conn[b] \in Conn
    BY <1>1, <1>7
  <2>3. CASE conn'[b] = [conn[b] EXCEPT !.echoed = @ + n]
    BY <1>5, <1>7, <2>1, <2>3
  <2>4. CASE conn'[b] = [conn[b] EXCEPT !.st = "rst"] \/ conn'[b] = conn[b]
    <3>. HIDE DEF b
    <3>1. conn'[b].read = conn[b].read /\ conn'[b].echoed = conn[b].echoed
      BY <2>2, <2>4 DEF Conn
    <3>. QED BY <3>1, <2>1, <1>4
  <2>. QED BY <2>1, <2>3, <2>4
<1>. QED BY <1>1, <1>2, <1>6, <1>7 DEF TypeOK

\* Nothing is held at first.
LEMMA EchoOnceInit == Init => EchoOnce
<1>. SUFFICES ASSUME Init PROVE EchoOnce
  OBVIOUS
<1>1. \A c \in Clients : conn[c].read = 0 /\ conn[c].echoed + thread[c].n = 0
  BY DEF Init, NoThread
<1>. DEFINE f == Held(conn, thread)
            h == Taken(conn)
<1>2. f = h /\ f \in [Clients -> Int] /\ \A c \in Clients : f[c] = 0
  BY <1>1 DEF Held, Taken
<1>3. PICK g : IsSum(f, g, Groups) /\ HeldSum(conn, thread) = g[Clients]
  BY HeldIsSum
<1>4. PICK k : IsSum(h, k, Groups) /\ TakenSum(conn) = k[Clients]
  BY TakenIsSum
<1>. HIDE DEF f, h
<1>5. CASE Clients = {}
  <2>1. g[Clients] = 0 /\ k[Clients] = 0
    BY <1>3, <1>4, <1>5 DEF IsSum, Groups
  <2>. QED BY <2>1, <1>3, <1>4, EchoOnceSums
<1>6. CASE Clients # {}
  <2>1. PICK c \in Clients : TRUE
    BY <1>6
  <2>2. g[Clients] \in Int /\ k[Clients] \in Int /\ k[Clients] = g[Clients] + (h[c] - f[c])
    BY <1>2, <1>3, <1>4, SumChange
  <2>3. h[c] = 0 /\ f[c] = 0
    BY <1>2
  <2>4. k[Clients] = g[Clients]
    BY <2>2, <2>3
  <2>. QED BY <2>2, <2>4, <1>3, <1>4, EchoOnceSums
<1>. QED BY <1>5, <1>6

\* Every step preserves it.
LEMMA EchoOnceStep == BaseInv /\ EchoOnce /\ [Next]_vars => EchoOnce'
<1>. SUFFICES ASSUME BaseInv, EchoOnce, [Next]_vars PROVE EchoOnce'
  OBVIOUS
<1>0. BaseInv' /\ TypeOK /\ TypeOK'
  BY BaseStep DEF BaseInv
<1>1. /\ conn \in [Clients -> Conn] /\ conn' \in [Clients -> Conn]
      /\ thread \in [Clients -> Thread] /\ thread' \in [Clients -> Thread]
  BY <1>0 DEF TypeOK
<1>2. \A b \in Clients : thread[b].n \in Nat /\ thread[b].n <= thread[b].n
  BY <1>1 DEF Thread
<1>3. CASE Clients = {}
  <2>1. conn' = conn /\ thread' = thread
    BY <1>1, <1>3
  <2>. QED BY <2>1, EchoOnceSums
<1>4. ASSUME NEW c \in Clients, Connect(c) \/ ClientSend(c) \/ ClientRecv(c) \/ ClientClose(c)
      PROVE  EchoOnce'
  <2>1. thread' = thread
    BY <1>4 DEF Connect, ClientSend, ClientRecv, ClientClose
  <2>2. \A b \in Clients : conn'[b].read = conn[b].read /\ conn'[b].echoed = conn[b].echoed
    <3>0. conn[c] \in Conn
      BY <1>1
    <3>1. CASE Connect(c)
      BY <1>1, <3>0, <3>1 DEF Connect, Conn
    <3>2. CASE ClientSend(c)
      BY <1>1, <3>0, <3>2 DEF ClientSend, Conn
    <3>3. CASE ClientRecv(c)
      BY <1>1, <3>0, <3>3 DEF ClientRecv, Conn
    <3>4. CASE ClientClose(c)
      BY <1>1, <3>0, <3>4 DEF ClientClose, Conn
    <3>. QED BY <1>4, <3>1, <3>2, <3>3, <3>4
  <2>. QED BY <1>0, <1>2, <2>1, <2>2, NothingAdded
<1>5. CASE Accept
  <2>1. conn' = conn /\ backlog \in Seq(Clients) /\ backlog # <<>>
    BY <1>5, <1>0 DEF Accept, TypeOK
  <2>2. PICK h \in Clients : h = Head(backlog)
    BY <2>1
  <2>3. thread' = thread \/ thread' = [thread EXCEPT ![h].pc = "new"]
    BY <1>5, <2>2 DEF Accept
  <2>4. \A b \in Clients : thread'[b].n = thread[b].n
    BY <1>1, <2>3 DEF Thread
  <2>. QED BY <1>0, <1>2, <2>1, <2>4, NothingAdded
<1>6. ASSUME NEW c \in Clients, ReadFd(c) \/ ReadEnds(c) \/ CloseFd(c) PROVE EchoOnce'
  <2>1. conn' = conn
    BY <1>6 DEF ReadFd, ReadEnds, CloseFd
  <2>2. (\A b \in Clients : b # c => thread'[b].n = thread[b].n) /\ thread'[c].n <= thread[c].n
    <3>1. CASE ReadFd(c)
      BY <1>1, <1>2, <3>1 DEF ReadFd, Thread
    <3>2. CASE ReadEnds(c)
      BY <1>1, <1>2, <3>2 DEF ReadEnds, Thread
    <3>3. CASE CloseFd(c)
      <4>1. [NoThread EXCEPT !.pc = "done"].n = 0
        BY DEF NoThread
      <4>2. thread' = [thread EXCEPT ![c] = [NoThread EXCEPT !.pc = "done"]]
        BY <3>3 DEF CloseFd
      <4>. QED BY <1>1, <1>2, <4>1, <4>2
    <3>. QED BY <1>6, <3>1, <3>2, <3>3
  <2>. QED BY <1>0, <2>1, <2>2, NothingAdded
<1>7. ASSUME NEW c \in Clients, LoopTop(c) PROVE EchoOnce'
  <2>1. thread[c].fd \in 1..FdLimit /\ down = "no" /\ Send(thread[c].fd, 0)
        /\ thread' = [thread EXCEPT ![c].pc = "read", ![c].file = fds[thread[c].fd]]
    BY <1>7 DEF LoopTop, BaseInv, FdKnown
  <2>2. \A b \in Clients : thread'[b].n = thread[b].n
    BY <1>1, <2>1 DEF Thread
  <2>. DEFINE f == thread[c].fd
  <2>3. \A b \in Clients : conn'[b].read = conn[b].read /\ conn'[b].echoed = conn[b].echoed
    <3>1. CASE fds[f] = NoClient
      BY <1>0, <2>1, <3>1, SendEffect
    <3>2. CASE fds[f] \in Clients
      <4>1. /\ \A q \in Clients : q # fds[f] => conn'[q] = conn[q]
            /\ \/ conn'[fds[f]] = [conn[fds[f]] EXCEPT !.echoed = @ + 0]
               \/ conn'[fds[f]] = conn[fds[f]]
        <5>1. f \in 1..FdLimit /\ 0 \in Nat /\ Send(f, 0) /\ ~(0 > 0)
          BY <2>1
        <5>. HIDE DEF f
        <5>. QED BY <5>1, <1>0, <2>1, <3>2, SendEffect
      <4>. DEFINE b == fds[f]
      <4>2. b \in Clients /\ conn[b] \in Conn
        BY <1>1, <3>2
      <4>3. conn'[b].read = conn[b].read /\ conn'[b].echoed = conn[b].echoed
        <5>1. CASE conn'[b] = [conn[b] EXCEPT !.echoed = @ + 0]
          <6>. HIDE DEF b
          <6>. QED BY <4>2, <5>1 DEF Conn
        <5>2. CASE conn'[b] = conn[b]
          BY <5>2
        <5>. QED BY <4>1, <5>1, <5>2
      <4>. QED BY <4>1, <4>3
    <3>. QED BY <1>0, <2>1, <3>1, <3>2 DEF TypeOK
  <2>. QED BY <1>0, <1>2, <2>2, <2>3, NothingAdded
<1>8. CASE UNCHANGED vars
  <2>1. conn' = conn /\ thread' = thread
    BY <1>8 DEF vars
  <2>. QED BY <2>1, EchoOnceSums
<1>. QED BY <1>0, <1>4, <1>5, <1>6, <1>7, <1>8, ReadDataOnce, EchoEcho DEF Next, rec_data

\* Even when threads take the wrong descriptor, or one another has closed, no byte is invented
\* or echoed twice: what has been echoed to all clients, with what threads hold, is within what
\* was read (tcp_server.c:23-29).
THEOREM EchoEchoOnce == Spec => []EchoOnce
<1>. QED BY EchoInit, EchoOnceInit, BaseStep, EchoOnceStep, PTL DEF Spec

=============================================================================
