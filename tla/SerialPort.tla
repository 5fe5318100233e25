------------------------------ MODULE SerialPort -----------------------------
(***************************************************************************)
(* The serial port programs (uart/serial.c, RS485/serial.cpp): open and    *)
(* configure a port, and echo what a thread receives from it.  The two are *)
(* one text but for the speeds they know.  The peer is taken to use the    *)
(* parameters that the program asks for, whether or not set_opt can set    *)
(* them; bytes that meet other settings arrive as something else.          *)
(***************************************************************************)
EXTENDS Naturals, Sequences

CONSTANTS Inits,      \* the struct Uart_init a program may ask for: [nSpeed, nBits, nEvent, nStop]
          Bytes,      \* what the peer sends
          SerBuf,     \* sizeof(buf), 1024 in the code
          MaxBytes,   \* bytes in a behaviour
          MaxTroubles \* short or failed writes, failed reads

ASSUME SerAssumption ==
  /\ Inits \subseteq [nSpeed : Nat, nBits : Nat, nEvent : STRING, nStop : Nat]
  /\ Bytes \subseteq Nat /\ SerBuf \in Nat \ {0}

VARIABLES program,    \* uart or rs485
          init,       \* what it asks for
          tty,        \* the port's settings, NoTty before they are set
          main,       \* start, opened, flushed, sleep, failed, gone
          thread,     \* none, select, handle: in uart_revdhandle, ended
          rxq, nbuf,  \* bytes in the driver's queue, and in buf
          rx, tx,     \* history: bytes received since the flush, bytes written back
          serHist     \* history: early, a byte came between flush and settings; troubles

serVars == <<program, init, tty, main, thread, rxq, nbuf, rx, tx, serHist>>

NoTty == [speed |-> 0]

SerInit ==
  /\ program \in {"uart", "rs485"}
  /\ init \in Inits
  /\ tty = NoTty
  /\ main = "start" /\ thread = "none"
  /\ rxq = <<>> /\ nbuf = <<>> /\ rx = <<>> /\ tx = <<>>
  /\ serHist = [early |-> FALSE, troubles |-> 0]

-----------------------------------------------------------------------------
(* The settings.                                                           *)

UartSpeeds == {2400, 4800, 9600, 115200, 1000000}
Rs485Speeds == {2400, 4800, 9600, 115200}
Speeds == IF program = "uart" THEN UartSpeeds ELSE Rs485Speeds

\* newtio starts as zeros: other data bits than 7 and 8 leave CS5; parity sets ISTRIP
Settings ==
  [speed  |-> IF init.nSpeed \in Speeds THEN init.nSpeed ELSE 9600,
   bits   |-> IF init.nBits \in {7, 8} THEN init.nBits ELSE 5,
   parity |-> IF init.nEvent \in {"O", "E"} THEN init.nEvent ELSE "N",
   istrip |-> init.nEvent \in {"O", "E"},
   stop   |-> IF init.nStop = 2 THEN 2 ELSE 1]

\* The port speaks as the peer does
Agrees == /\ tty # NoTty
          /\ tty.speed = init.nSpeed /\ tty.bits = init.nBits /\ tty.parity = init.nEvent
          /\ tty.stop = init.nStop

Noise == 0

\* What the line makes of a byte: ISTRIP clears the eighth bit
Received(b) == IF ~Agrees THEN Noise ELSE IF tty.istrip THEN b % 128 ELSE b

-----------------------------------------------------------------------------
(* UART_init, called by main, which does not look at its result.           *)

uart_init_port ==
  /\ main = "start"
  /\ main' \in {"opened", "failed"}
  /\ UNCHANGED <<program, init, tty, thread, rxq, nbuf, rx, tx, serHist>>

\* set_opt: tcgetattr and tcflush ...
tcflush ==
  /\ main = "opened"
  /\ \/ main' = "failed" /\ UNCHANGED rxq      \* not a terminal: the descriptor stays open
     \/ main' = "flushed" /\ rxq' = <<>>
  /\ UNCHANGED <<program, init, tty, thread, nbuf, rx, tx, serHist>>

\* ... and tcsetattr; pthread_create follows when it succeeds, and its own failure goes unseen
tcsetattr ==
  /\ main = "flushed"
  /\ \/ main' = "failed" /\ UNCHANGED <<tty, thread>>
     \/ main' = "sleep" /\ tty' = Settings /\ thread' \in {"none", "select"}
  /\ UNCHANGED <<program, init, rxq, nbuf, rx, tx, serHist>>

\* sleep(10) is over, or UART_init failed: main returns, and the thread is gone with it
main_returns ==
  /\ main \in {"sleep", "failed"}
  /\ main' = "gone"
  /\ thread' = IF thread = "none" THEN "none" ELSE "ended"
  /\ UNCHANGED <<program, init, tty, rxq, nbuf, rx, tx, serHist>>

\* The peer sends a byte, of as many bits as were asked for, to the open port
Arrive(b) ==
  /\ main \in {"opened", "flushed", "sleep"} /\ b < 2 ^ init.nBits
  /\ Len(rx) < MaxBytes /\ Len(rxq) < MaxBytes
  /\ rxq' = Append(rxq, Received(b))
  /\ rx' = IF main = "sleep" THEN Append(rx, b) ELSE rx
  /\ serHist' = [serHist EXCEPT !.early = @ \/ main = "flushed"]
  /\ UNCHANGED <<program, init, tty, main, thread, nbuf, tx>>

-----------------------------------------------------------------------------
(* uart_revpthread and api_fcuart_received.                                *)

Shortest(m, n) == IF m < n THEN m ELSE n

\* select finds the port readable (a timeout or an error of select only goes round again)
ReadSome ==
  /\ thread = "select" /\ rxq # <<>>
  /\ LET n == Shortest(Len(rxq), SerBuf) IN
       /\ nbuf' = SubSeq(rxq, 1, n)
       /\ rxq' = SubSeq(rxq, n + 1, Len(rxq))
  /\ thread' = "handle"
  /\ UNCHANGED <<program, init, tty, main, rx, tx, serHist>>

Trouble == /\ serHist.troubles < MaxTroubles
           /\ serHist' = [serHist EXCEPT !.troubles = @ + 1]

\* read fails: the thread ends, and nobody is told (0, a port that hung up, goes round again)
ReadFails ==
  /\ thread = "select" /\ Trouble
  /\ thread' = "ended"
  /\ UNCHANGED <<program, init, tty, main, rxq, nbuf, rx, tx>>

\* Mutant of WriteBack: the whole buffer is written, what it held before too
WriteBackAll ==
  /\ thread = "handle" /\ thread' = "select"
  /\ tx' = tx \o nbuf \o [k \in 1..(SerBuf - Len(nbuf)) |-> 0] /\ nbuf' = <<>>
  /\ UNCHANGED <<program, init, tty, main, rxq, rx, serHist>>

WriteBack ==
  /\ thread = "handle" /\ thread' = "select"
  /\ tx' = tx \o nbuf /\ nbuf' = <<>>
  /\ UNCHANGED <<program, init, tty, main, rxq, rx, serHist>>

\* write takes a part of buf, or fails; the rest is forgotten
WriteShort ==
  /\ thread = "handle" /\ thread' = "select"
  /\ Trouble
  /\ \E k \in 0..(Len(nbuf) - 1) : tx' = tx \o SubSeq(nbuf, 1, k)
  /\ nbuf' = <<>>
  /\ UNCHANGED <<program, init, tty, main, rxq, rx>>

SerNext ==
  \/ uart_init_port \/ tcflush \/ tcsetattr \/ main_returns
  \/ \E b \in Bytes : Arrive(b)
  \/ ReadSome \/ ReadFails \/ WriteBack \/ WriteShort

SerSpec == SerInit /\ [][SerNext]_serVars

-----------------------------------------------------------------------------
Supported ==
  /\ init.nSpeed \in Speeds /\ init.nStop \in {1, 2}
  /\ init.nBits \in {7, 8} /\ init.nEvent \in {"O", "E", "N"}
  /\ init.nBits = 8 => init.nEvent = "N"

\* Whatever the sizes in which bytes arrive and are read (serial.c:174), the bytes written
\* back, in the buffer and in the queue are the bytes received, in order, none of them lost or
\* twice or with a bit missing: for the settings that set_opt (serial.c:57-140) can set,
\* which 8 bits with parity are not, as long as no byte came between the flush and the
\* settings (lines 133, 134) and no read or write failed.
EchoFaithful ==
  Supported /\ ~serHist.early /\ serHist.troubles = 0 /\ tty # NoTty
    => tx \o nbuf \o rxq = rx
=============================================================================
