------------------------------- MODULE TcpEcho -------------------------------
(***************************************************************************)
(* The threaded echo server (socket/tcp_server.c): main accepts a          *)
(* connection into nfp, hands the ADDRESS of nfp to a new thread, sleeps a *)
(* second and accepts again; the thread reads nfp whenever it first runs,  *)
(* and then echoes until its read fails.  A thread is named after the      *)
(* connection it was created for; a connection counts the bytes sent to    *)
(* the server, read by it, echoed, and taken by the client.                *)
(***************************************************************************)
EXTENDS Integers, Sequences, FiniteSets, FiniteSetsExt

CONSTANTS Clients,      \* the connections of a behaviour
          NoClient,     \* a descriptor that is not open
          FdLimit,      \* descriptors accept can return: 1..FdLimit
          ThreadLimit,  \* threads pthread_create can make: none is joined or detached
          MaxSend       \* bytes a client sends

ASSUME LimitAssumption == {FdLimit, ThreadLimit, MaxSend} \subseteq Nat \ {0}
ASSUME ClientAssumption == NoClient \notin Clients
ASSUME FiniteClients == IsFiniteSet(Clients)

VARIABLES conn,     \* per client: st (off, up, fin, rst) and sent, read, echoed, got
          backlog,  \* connections waiting for accept
          nfp, fds, \* main's variable; the descriptor table
          thread,   \* per client: pc, client_sockfd, the file its read waits on, recbyte
          down,     \* why the process ended: no, sigpipe, accept, thread
          late      \* sleep(1) was once too short for a new thread to read nfp

vars == <<conn, backlog, nfp, fds, thread, down, late>>

NoThread == [pc |-> "none", fd |-> 0, file |-> NoClient, n |-> 0]

Init ==
  /\ conn = [c \in Clients |-> [st |-> "off", sent |-> 0, read |-> 0, echoed |-> 0, got |-> 0]]
  /\ backlog = <<>>
  /\ nfp = 0 /\ fds = [f \in 1..FdLimit |-> NoClient]
  /\ thread = [c \in Clients |-> NoThread]
  /\ down = "no" /\ late = FALSE

-----------------------------------------------------------------------------
(* The clients and their kernels.                                          *)

Connect(c) ==
  /\ conn[c].st = "off" /\ down = "no"
  /\ conn' = [conn EXCEPT ![c].st = "up"]
  /\ backlog' = Append(backlog, c)
  /\ UNCHANGED <<nfp, fds, thread, down, late>>

ClientSend(c) ==
  /\ conn[c].st = "up" /\ conn[c].sent < MaxSend
  /\ conn' = [conn EXCEPT ![c].sent = @ + 1]
  /\ UNCHANGED <<backlog, nfp, fds, thread, down, late>>

ClientRecv(c) ==
  /\ conn[c].st = "up" /\ conn[c].got < conn[c].echoed
  /\ conn' = [conn EXCEPT ![c].got = conn[c].echoed]
  /\ UNCHANGED <<backlog, nfp, fds, thread, down, late>>

\* Closing with an echo unread resets the connection
ClientClose(c) ==
  /\ conn[c].st = "up"
  /\ conn' = [conn EXCEPT ![c].st = IF conn[c].got < conn[c].echoed THEN "rst" ELSE "fin"]
  /\ UNCHANGED <<backlog, nfp, fds, thread, down, late>>

-----------------------------------------------------------------------------
(* main: one round of its loop, up to sleep(1).                            *)

FreeFds == {f \in 1..FdLimit : fds[f] = NoClient}
Created == {c \in Clients : thread[c].pc # "none"}

Accept ==
  /\ down = "no" /\ backlog # <<>>
  /\ late' = (late \/ \E c \in Clients : thread[c].pc = "new")
  /\ backlog' = Tail(backlog)
  /\ UNCHANGED conn
  /\ \/ FreeFds = {} /\ down' = "accept" /\ UNCHANGED <<nfp, fds, thread>>
     \/ /\ \E f \in FreeFds :
             /\ \A g \in FreeFds : f <= g      \* the lowest descriptor that is free
             /\ nfp' = f /\ fds' = [fds EXCEPT ![f] = Head(backlog)]
        /\ \/ /\ Cardinality(Created) = ThreadLimit
              /\ down' = "thread" /\ UNCHANGED thread
           \/ /\ Cardinality(Created) < ThreadLimit
              /\ thread' = [thread EXCEPT ![Head(backlog)].pc = "new"]
              /\ UNCHANGED down

-----------------------------------------------------------------------------
(* rec_data.                                                               *)

\* send on a descriptor: n bytes reach the client; they reset a connection whose client
\* has closed; on one that was reset the call fails or raises SIGPIPE
Send(f, n) ==
  LET c == fds[f] IN
  \/ c = NoClient /\ UNCHANGED <<conn, down>>
  \/ /\ c # NoClient /\ conn[c].st = "up"
     /\ conn' = [conn EXCEPT ![c].echoed = @ + n] /\ UNCHANGED down
  \/ /\ c # NoClient /\ conn[c].st = "fin"
     /\ conn' = [conn EXCEPT ![c].st = IF n > 0 THEN "rst" ELSE "fin"] /\ UNCHANGED down
  \/ c # NoClient /\ conn[c].st = "rst" /\ down' \in {"no", "sigpipe"} /\ UNCHANGED conn

\* client_sockfd = *((int*)fd)
ReadFd(c) ==
  /\ down = "no" /\ thread[c].pc = "new"
  /\ thread' = [thread EXCEPT ![c].pc = "loop", ![c].fd = nfp]
  /\ UNCHANGED <<conn, backlog, nfp, fds, down, late>>

\* Mutant of LoopTop: the greeting that is commented out at tcp_server.c:21 is sent
LoopTopGreets(c) ==
  /\ down = "no" /\ thread[c].pc = "loop"
  /\ Send(thread[c].fd, 1)
  /\ thread' = [thread EXCEPT ![c].pc = "read", ![c].file = fds[thread[c].fd]]
  /\ UNCHANGED <<backlog, nfp, fds, late>>

\* The empty send at the top of the loop, and the call of read
LoopTop(c) ==
  /\ down = "no" /\ thread[c].pc = "loop"
  /\ Send(thread[c].fd, 0)
  /\ thread' = [thread EXCEPT ![c].pc = "read", ![c].file = fds[thread[c].fd]]
  /\ UNCHANGED <<backlog, nfp, fds, late>>

ReadData(c) ==
  LET k == thread[c].file IN
  /\ down = "no" /\ thread[c].pc = "read" /\ k # NoClient /\ conn[k].read < conn[k].sent
  /\ conn' = [conn EXCEPT ![k].read = conn[k].sent]
  /\ thread' = [thread EXCEPT ![c].pc = "echo", ![c].n = conn[k].sent - conn[k].read]
  /\ UNCHANGED <<backlog, nfp, fds, down, late>>

\* Mutant of Echo: the whole buffer is sent, not recbyte bytes of it
EchoWholeBuffer(c) ==
  /\ down = "no" /\ thread[c].pc = "echo"
  /\ Send(thread[c].fd, MaxSend + 1)
  /\ thread' = [thread EXCEPT ![c].pc = "loop", ![c].n = 0]
  /\ UNCHANGED <<backlog, nfp, fds, late>>

Echo(c) ==
  /\ down = "no" /\ thread[c].pc = "echo"
  /\ Send(thread[c].fd, thread[c].n)
  /\ thread' = [thread EXCEPT ![c].pc = "loop", ![c].n = 0]
  /\ UNCHANGED <<backlog, nfp, fds, late>>

\* Mutant of ReadEnds: only an error ends the loop, not the end of file
ReadEndsOnError(c) ==
  LET k == thread[c].file IN
  /\ down = "no" /\ thread[c].pc = "read"
  /\ k = NoClient \/ (k # NoClient /\ conn[k].st = "rst")
  /\ thread' = [thread EXCEPT ![c].pc = "close"]
  /\ UNCHANGED <<conn, backlog, nfp, fds, down, late>>

\* End of file, a reset, or a descriptor that is not open
ReadEnds(c) ==
  LET k == thread[c].file IN
  /\ down = "no" /\ thread[c].pc = "read"
  /\ \/ k = NoClient
     \/ k # NoClient /\ conn[k].st = "fin" /\ conn[k].read = conn[k].sent
     \/ k # NoClient /\ conn[k].st = "rst"
  /\ thread' = [thread EXCEPT ![c].pc = "close"]
  /\ UNCHANGED <<conn, backlog, nfp, fds, down, late>>

\* Mutant of CloseFd: the descriptor may be closed twice
CloseFdTwice(c) ==
  /\ down = "no" /\ thread[c].pc = "close"
  /\ fds' = [fds EXCEPT ![thread[c].fd] = NoClient]
  /\ \E pc \in {"close", "done"} : thread' = [thread EXCEPT ![c].pc = pc]
  /\ UNCHANGED <<conn, backlog, nfp, down, late>>

CloseFd(c) ==
  /\ down = "no" /\ thread[c].pc = "close"
  /\ fds' = [fds EXCEPT ![thread[c].fd] = NoClient]
  /\ thread' = [thread EXCEPT ![c] = [NoThread EXCEPT !.pc = "done"]]
  /\ UNCHANGED <<conn, backlog, nfp, down, late>>

rec_data(c) ==
  ReadFd(c) \/ LoopTop(c) \/ ReadData(c) \/ Echo(c) \/ ReadEnds(c) \/ CloseFd(c)

Next ==
  \/ Accept
  \/ \E c \in Clients :
       \/ Connect(c) \/ ClientSend(c) \/ ClientRecv(c) \/ ClientClose(c)
       \/ rec_data(c)

Spec == Init /\ [][Next]_vars

\* Every thread of the process is scheduled
FairSpec == Spec /\ WF_vars(Accept) /\ \A c \in Clients : WF_vars(rec_data(c))

-----------------------------------------------------------------------------
\* "Different threads to tell different clients apart" (tcp_server.c:55): a thread that
\* has taken its descriptor (tcp_server.c:16) serves the client it was created
\* for until it closes it, descriptors being closed and reused meanwhile.
ThreadPerClient ==
  \A c \in Clients : thread[c].pc \in {"loop", "read", "echo", "close"} => fds[thread[c].fd] = c

\* It does as long as sleep(1) (tcp_server.c:139) was always enough for the new thread
\* to read nfp: descriptors being closed and reused meanwhile do no harm.
PromptThreads == ~late => ThreadPerClient

\* Even when threads take the wrong descriptor, or one another has closed, no byte is
\* invented or echoed twice: what has been echoed, with what threads hold in
\* their buffers (tcp_server.c:23-29), is within what was read.
EchoOnce ==
  MapThenSumSet(LAMBDA c : conn[c].echoed + thread[c].n, Clients)
    <= MapThenSumSet(LAMBDA c : conn[c].read, Clients)

\* With prompt threads the process is killed by SIGPIPE (the sends at tcp_server.c:22
\* and 29 ignore the state of the connection) only after some client closed with an
\* echo outstanding.
DeathNeedsHaste ==
  down = "sigpipe" /\ ~late =>
    \E c \in Clients : conn[c].st \in {"fin", "rst"} /\ conn[c].got < conn[c].sent

\* Whoever waits for an echo gets it, and whoever has left is closed: unless the client
\* leaves first, the process ends, or a thread was late.
Served ==
  \A c \in Clients :
    /\ conn[c].sent > 0 ~>
         (conn[c].echoed = conn[c].sent \/ conn[c].st # "up" \/ down # "no" \/ late)
    /\ conn[c].st \in {"fin", "rst"} ~> (thread[c].pc = "done" \/ down # "no" \/ late)
=============================================================================
