---------------------------- MODULE ThreadsProofs ----------------------------
(***************************************************************************)
(* Proofs about the small programs with two threads: the serial echo, for  *)
(* any settings, bytes and size of its buffer; the word counter, for any   *)
(* words that fit its buffer; and the GPS reader, for any sentences,       *)
(* pauses and calls.                                                       *)
(***************************************************************************)
EXTENDS SemCounter, SerialPort, Gps, SequenceTheorems, FiniteSetTheorems,
        WellFoundedInduction, TLAPS

-----------------------------------------------------------------------------
(* The serial echo.                                                        *)

\* What the program's variables hold
SerTypeOK ==
  /\ program \in {"uart", "rs485"} /\ init \in Inits
  /\ main \in {"start", "opened", "flushed", "sleep", "failed", "gone"}
  /\ thread \in {"none", "select", "handle", "ended"}
  /\ rxq \in Seq(Nat) /\ nbuf \in Seq(Nat) /\ rx \in Seq(Nat) /\ tx \in Seq(Nat)
  /\ serHist \in [early : BOOLEAN, troubles : Nat]

\* Nothing is received for the program, read or echoed before the port is set, and the
\* thread, which starts after it, leaves buf empty between two rounds
SerOrder ==
  /\ main \in {"start", "opened", "flushed"} => tty = NoTty
  /\ main = "sleep" => tty = Settings
  /\ tty = NoTty => thread = "none" /\ rx = <<>> /\ tx = <<>> /\ nbuf = <<>>
  /\ main = "flushed" /\ ~serHist.early => rxq = <<>>
  /\ thread = "select" => nbuf = <<>>

SerInv == SerTypeOK /\ SerOrder /\ EchoFaithful

\* The line delivers a byte as it was sent, when the settings are ones that set_opt knows.
LEMMA ReceivedLemma ==
  ASSUME SerTypeOK, tty = Settings, Supported, NEW b \in Nat, b < 2 ^ init.nBits
  PROVE  Received(b) = b
<1>1. init \in [nSpeed : Nat, nBits : Nat, nEvent : STRING, nStop : Nat]
  BY SerAssumption DEF SerTypeOK
<1>2. tty.speed = init.nSpeed /\ tty.bits = init.nBits /\ tty.parity = init.nEvent
      /\ tty.stop = init.nStop /\ tty.istrip = (init.nEvent \in {"O", "E"})
  BY DEF Settings, Supported
<1>3. tty # NoTty
  BY <1>2 DEF NoTty, Supported, Speeds, UartSpeeds, Rs485Speeds
<1>4. Agrees
  BY <1>2, <1>3 DEF Agrees
<1>5. CASE tty.istrip
  <2>1. init.nBits = 7
    BY <1>2, <1>5 DEF Supported
  <2>2. b < 128
    BY <2>1
  <2>. QED BY <2>2, <1>4, <1>5 DEF Received
<1>6. CASE ~tty.istrip
  BY <1>4, <1>6 DEF Received
<1>. QED BY <1>5, <1>6

\* The port's settings are never the value for a port that is not set.
LEMMA SettingsNotNone == ASSUME SerTypeOK PROVE Settings # NoTty
<1>1. Settings.speed # 0
  BY DEF Settings, Speeds, UartSpeeds, Rs485Speeds
<1>. QED BY <1>1 DEF NoTty

\* Every step of the program, the line and the peer keeps the invariant.
LEMMA SerStepInv == SerInv /\ [SerNext]_serVars => SerInv'
<1>. SUFFICES ASSUME SerInv, [SerNext]_serVars PROVE SerInv'
  OBVIOUS
<1>0. SerTypeOK /\ SerOrder /\ EchoFaithful
  BY DEF SerInv
<1>1. CASE uart_init_port
  <2>1. main = "start" /\ main' \in {"opened", "failed"}
        /\ UNCHANGED <<program, init, tty, thread, rxq, nbuf, rx, tx, serHist>>
    BY <1>1 DEF uart_init_port
  <2>2. SerTypeOK' /\ SerOrder'
    BY <1>0, <2>1 DEF SerTypeOK, SerOrder
  <2>3. EchoFaithful'
    BY <1>0, <2>1 DEF SerOrder, EchoFaithful
  <2>. QED BY <2>2, <2>3 DEF SerInv
<1>2. CASE tcflush
  <2>1. /\ main = "opened" /\ main' \in {"failed", "flushed"}
        /\ main' = "flushed" => rxq' = <<>>
        /\ rxq' \in {rxq, <<>>}
        /\ UNCHANGED <<program, init, tty, thread, nbuf, rx, tx, serHist>>
    BY <1>2 DEF tcflush
  <2>2. SerTypeOK' /\ SerOrder'
    BY <1>0, <2>1 DEF SerTypeOK, SerOrder
  <2>3. EchoFaithful'
    BY <1>0, <2>1 DEF SerOrder, EchoFaithful
  <2>. QED BY <2>2, <2>3 DEF SerInv
<1>3. CASE tcsetattr
  <2>1. main = "flushed" /\ UNCHANGED <<program, init, rxq, nbuf, rx, tx, serHist>>
    BY <1>3 DEF tcsetattr
  <2>2. CASE main' = "failed" /\ UNCHANGED <<tty, thread>>
    BY <1>0, <2>1, <2>2 DEF SerInv, SerTypeOK, SerOrder, EchoFaithful
  <2>3. CASE main' = "sleep" /\ tty' = Settings /\ thread' \in {"none", "select"}
    <3>1. tty' # NoTty /\ tty' = Settings'
      BY <1>0, <2>1, <2>3, SettingsNotNone DEF Settings, Speeds
    <3>2. SerTypeOK' /\ SerOrder'
      BY <1>0, <2>1, <2>3, <3>1 DEF SerTypeOK, SerOrder
    <3>3. ~serHist.early => tx' \o nbuf' \o rxq' = rx'
      BY <1>0, <2>1 DEF SerOrder
    <3>. QED BY <2>1, <3>2, <3>3 DEF SerInv, EchoFaithful
  <2>. QED BY <1>3, <2>2, <2>3 DEF tcsetattr
<1>4. CASE main_returns
  <2>1. main' = "gone" /\ thread' \in {"none", "ended"} /\ (thread = "none" => thread' = "none")
        /\ UNCHANGED <<program, init, tty, rxq, nbuf, rx, tx, serHist>>
    BY <1>4 DEF main_returns
  <2>2. EchoFaithful'
    BY <1>0, <2>1 DEF EchoFaithful, Supported, Speeds
  <2>. QED BY <1>0, <2>1, <2>2 DEF SerInv, SerTypeOK, SerOrder
<1>5. ASSUME NEW b \in Bytes, Arrive(b) PROVE SerInv'
  <2>1. b \in Nat /\ b % 128 \in Nat
    BY SerAssumption
  <2>2. Received(b) \in Nat
    BY <2>1 DEF Received, Noise
  <2>3. main \in {"opened", "flushed", "sleep"} /\ b < 2 ^ init.nBits
        /\ rxq' = Append(rxq, Received(b)) /\ (rx' = IF main = "sleep" THEN Append(rx, b) ELSE rx)
        /\ UNCHANGED <<program, init, tty, main, thread, nbuf, tx>>
    BY <1>5 DEF Arrive
  <2>4. serHist' \in [early : BOOLEAN, troubles : Nat] /\ serHist'.troubles = serHist.troubles
        /\ (serHist.early => serHist'.early) /\ (main = "flushed" => serHist'.early)
    BY <1>0, <1>5 DEF Arrive, SerTypeOK
  <2>5. SerTypeOK'
    BY <1>0, <2>1, <2>2, <2>3, <2>4 DEF SerTypeOK
  <2>6. SerOrder'
    <3>1. tty' = NoTty => main # "sleep"
      BY <1>0, <2>3, SettingsNotNone DEF SerOrder
    <3>2. Settings' = Settings
      BY <2>3 DEF Settings, Speeds
    <3>. QED BY <1>0, <2>3, <2>4, <3>1, <3>2 DEF SerOrder
  <2>7. EchoFaithful'
    <3>. SUFFICES ASSUME Supported, ~serHist.early, serHist.troubles = 0, tty # NoTty
                  PROVE  tx' \o nbuf' \o rxq' = rx'
      BY <2>3, <2>4 DEF EchoFaithful, Supported, Speeds
    <3>1. main = "sleep" /\ tty = Settings
      BY <1>0, <2>3 DEF SerOrder
    <3>2. Received(b) = b
      BY <1>0, <2>1, <2>3, <3>1, ReceivedLemma
    <3>3. tx \o nbuf \in Seq(Nat) /\ rxq \in Seq(Nat) /\ <<b>> \in Seq(Nat)
      BY <1>0, <2>1 DEF SerTypeOK
    <3>4. (tx \o nbuf) \o (rxq \o <<b>>) = ((tx \o nbuf) \o rxq) \o <<b>>
      BY <3>3, ConcatAssociative
    <3>5. rxq' = rxq \o <<b>> /\ rx' = rx \o <<b>>
      BY <1>0, <2>1, <2>3, <3>1, <3>2, AppendIsConcat DEF SerTypeOK
    <3>6. tx \o nbuf \o rxq = rx
      BY <1>0 DEF EchoFaithful
    <3>. QED BY <2>3, <3>4, <3>5, <3>6
  <2>. QED BY <2>5, <2>6, <2>7 DEF SerInv
<1>6. CASE ReadSome
  <2>1. PICK n : n = Shortest(Len(rxq), SerBuf)
    OBVIOUS
  <2>2. n \in 0..Len(rxq)
    BY <1>0, <2>1, SerAssumption DEF Shortest, SerTypeOK
  <2>3. thread = "select" /\ thread' = "handle" /\ nbuf' = SubSeq(rxq, 1, n)
        /\ rxq' = SubSeq(rxq, n + 1, Len(rxq))
        /\ UNCHANGED <<program, init, tty, main, rx, tx, serHist>>
    BY <1>6, <2>1 DEF ReadSome
  <2>4. nbuf' \in Seq(Nat) /\ rxq' \in Seq(Nat)
    BY <1>0, <2>2, <2>3, SMTT(30) DEF SerTypeOK
  <2>5. nbuf' \o rxq' = rxq
    <3>1. SubSeq(rxq, 1, n) \o SubSeq(rxq, n + 1, Len(rxq)) = SubSeq(rxq, 1, Len(rxq))
      <4>1. rxq \in Seq(Nat) /\ 1 \in 1..(Len(rxq) + 1) /\ n \in (1 - 1)..Len(rxq)
            /\ Len(rxq) \in n..Len(rxq)
        BY <1>0, <2>2 DEF SerTypeOK
      <4>. QED BY <4>1, ConcatAdjacentSubSeq
    <3>. QED BY <1>0, <2>3, <3>1, SubSeqFull DEF SerTypeOK
  <2>6. tx' \o nbuf' \o rxq' = tx \o nbuf \o rxq
    <3>1. (tx \o nbuf') \o rxq' = tx \o (nbuf' \o rxq')
      <4>1. tx \in Seq(Nat)
        BY <1>0 DEF SerTypeOK
      <4>. QED BY <2>4, <4>1, ConcatAssociative
    <3>2. nbuf = <<>> /\ tx \o nbuf = tx
      BY <1>0, <2>3, ConcatEmptySeq DEF SerOrder, SerTypeOK
    <3>. QED BY <2>3, <2>5, <3>1, <3>2
  <2>7. SerTypeOK' /\ SerOrder'
    BY <1>0, <2>3, <2>4 DEF SerTypeOK, SerOrder, Settings, Speeds
  <2>8. EchoFaithful'
    BY <1>0, <2>3, <2>6 DEF EchoFaithful, Supported, Speeds
  <2>. QED BY <2>7, <2>8 DEF SerInv
<1>7. CASE ReadFails
  <2>1. thread = "select" /\ thread' = "ended" /\ UNCHANGED <<program, init, tty, main, rxq, nbuf, rx, tx>>
    BY <1>7 DEF ReadFails
  <2>2. serHist' \in [early : BOOLEAN, troubles : Nat] /\ serHist'.troubles # 0 /\ serHist'.early = serHist.early
    BY <1>0, <1>7 DEF ReadFails, Trouble, SerTypeOK
  <2>. QED BY <1>0, <2>1, <2>2 DEF SerInv, SerTypeOK, SerOrder, EchoFaithful, Settings, Speeds
<1>8. CASE WriteBack
  <2>1. thread = "handle" /\ thread' = "select" /\ tx' = tx \o nbuf /\ nbuf' = <<>>
        /\ UNCHANGED <<program, init, tty, main, rxq, rx, serHist>>
    BY <1>8 DEF WriteBack
  <2>2. SerTypeOK' /\ SerOrder'
    BY <1>0, <2>1 DEF SerTypeOK, SerOrder, Settings, Speeds
  <2>3. tx' \o nbuf' \o rxq' = tx \o nbuf \o rxq
    <3>1. tx \o nbuf \in Seq(Nat)
      BY <1>0 DEF SerTypeOK
    <3>. QED BY <2>1, <3>1, ConcatEmptySeq
  <2>4. EchoFaithful'
    BY <1>0, <2>1, <2>3 DEF EchoFaithful, Supported, Speeds
  <2>. QED BY <2>2, <2>4 DEF SerInv
<1>9. CASE WriteShort
  <2>1. PICK k \in 0..(Len(nbuf) - 1) : tx' = tx \o SubSeq(nbuf, 1, k)
    BY <1>9 DEF WriteShort
  <2>2. thread = "handle" /\ thread' = "select" /\ nbuf' = <<>> /\ UNCHANGED <<program, init, tty, main, rxq, rx>>
    BY <1>9 DEF WriteShort
  <2>3. tx' \in Seq(Nat)
    BY <1>0, <2>1 DEF SerTypeOK
  <2>4. serHist' \in [early : BOOLEAN, troubles : Nat] /\ serHist'.troubles # 0 /\ serHist'.early = serHist.early
    <3>1. serHist' = [serHist EXCEPT !.troubles = @ + 1]
      BY <1>9 DEF WriteShort, Trouble
    <3>2. serHist \in [early : BOOLEAN, troubles : Nat]
      BY <1>0 DEF SerTypeOK
    <3>. QED BY <3>1, <3>2
  <2>5. SerTypeOK'
    BY <1>0, <2>2, <2>3, <2>4 DEF SerTypeOK
  <2>6. SerOrder'
    BY <1>0, <2>2, <2>4 DEF SerOrder, Settings, Speeds
  <2>7. EchoFaithful'
    BY <2>4 DEF EchoFaithful
  <2>. QED BY <2>5, <2>6, <2>7 DEF SerInv
<1>10. CASE UNCHANGED serVars
  BY <1>0, <1>10 DEF serVars, SerInv, SerTypeOK, SerOrder, EchoFaithful, Settings, Supported, Speeds
<1>. QED BY <1>1, <1>2, <1>3, <1>4, <1>5, <1>6, <1>7, <1>8, <1>9, <1>10 DEF SerNext

\* For any sizes in which bytes arrive, are read and are written (serial.c:153-193), the bytes
\* echoed, in buf and in the driver's queue are the bytes received, in their order.
THEOREM SerialEchoFaithful == SerSpec => []EchoFaithful
<1>1. SerInit => SerInv
  BY DEF SerInit, SerInv, SerTypeOK, SerOrder, EchoFaithful
<1>2. SerInv => EchoFaithful
  BY DEF SerInv
<1>. QED BY <1>1, <1>2, SerStepInv, PTL DEF SerSpec

-----------------------------------------------------------------------------
(* The word counter.                                                       *)

\* A set of naturals that is not empty has a least element.
LEMMA LeastElement == ASSUME NEW T, T \subseteq Nat, T # {} PROVE \E x \in T : \A y \in T : x <= y
<1>1. IsWellFoundedOn(OpToRel(<, Nat), Nat)
  BY NatLessThanWellFounded
<1>2. PICK x \in T : \A y \in T : ~(<<y, x>> \in OpToRel(<, Nat))
  BY <1>1, WFMin
<1>3. \A y \in Nat : <<y, x>> \in OpToRel(<, Nat) <=> y < x
  BY DEF OpToRel
<1>4. \A y \in T : ~(y < x)
  BY <1>2, <1>3
<1>5. \A y \in T : x <= y
  BY <1>4
<1>. QED BY <1>5

\* What strlen's definition asks of its result
IsLength(n) == (n < BufSize => buf[n + 1] = NUL) /\ \A i \in 1..n : buf[i] # NUL

\* strlen stops within buf, or at its end, whatever buf holds.
LEMMA StrlenInRange == strlen \in 0..BufSize
<1>1. \E n \in 0..BufSize : IsLength(n)
  <2>. DEFINE T == {i \in 1..BufSize : buf[i] = NUL}
  <2>1. CASE T = {}
    <3>1. BufSize \in 0..BufSize /\ IsLength(BufSize)
      BY <2>1, BufAssumption DEF IsLength
    <3>. QED BY <3>1
  <2>2. CASE T # {}
    <3>1. PICK m \in T : \A i \in T : m <= i
      <4>1. T \subseteq Nat
        BY BufAssumption
      <4>. HIDE DEF T
      <4>. QED BY <2>2, <4>1, LeastElement
    <3>2. m \in 1..BufSize /\ buf[m] = NUL
      OBVIOUS
    <3>3. m - 1 \in 0..BufSize /\ m - 1 + 1 = m
      BY <3>2, BufAssumption
    <3>4. \A i \in 1..(m - 1) : buf[i] # NUL
      <4>. SUFFICES ASSUME NEW i \in 1..(m - 1), buf[i] = NUL PROVE FALSE
        OBVIOUS
      <4>1. i \in T /\ i < m
        BY <3>2, BufAssumption
      <4>. QED BY <3>1, <3>2, <4>1, BufAssumption
    <3>5. IsLength(m - 1)
      BY <3>2, <3>3, <3>4 DEF IsLength
    <3>. QED BY <3>3, <3>5
  <2>. QED BY <2>1, <2>2
<1>. QED BY <1>1 DEF strlen, IsLength

\* buf with a word and zeros behind it, and buf cleared
Padded(w) == [i \in 1..BufSize |-> IF i <= Len(w) THEN w[i] ELSE NUL]
Blank == [i \in 1..BufSize |-> NUL]

\* strlen finds the length of a word that is whole in buf.
LEMMA StrlenOfWord == ASSUME NEW w \in Words, buf = Padded(w) PROVE strlen = Len(w)
<1>1. w \in Seq(STRING \ {NUL}) /\ Len(w) < BufSize /\ BufSize \in Nat /\ Len(w) \in Nat
  BY BufAssumption
<1>2. \A i \in 1..Len(w) : w[i] # NUL /\ buf[i] = w[i]
  BY <1>1 DEF Padded
<1>3. buf[Len(w) + 1] = NUL
  BY <1>1 DEF Padded
<1>4. Len(w) \in 0..BufSize /\ IsLength(Len(w))
  BY <1>1, <1>2, <1>3 DEF IsLength
<1>5. ASSUME NEW n \in 0..BufSize, IsLength(n) PROVE n = Len(w)
  <2>1. ~(n < Len(w))
    <3>. SUFFICES ASSUME n < Len(w) PROVE FALSE
      OBVIOUS
    <3>1. n + 1 \in 1..Len(w) /\ buf[n + 1] = NUL
      BY <1>1, <1>5 DEF IsLength
    <3>. QED BY <1>2, <3>1
  <2>2. ~(Len(w) < n)
    <3>. SUFFICES ASSUME Len(w) < n PROVE FALSE
      OBVIOUS
    <3>1. Len(w) + 1 \in 1..n
      BY <1>1
    <3>. QED BY <1>3, <1>5, <3>1 DEF IsLength
  <2>. QED BY <1>1, <2>1, <2>2
<1>6. strlen = CHOOSE n \in 0..BufSize : IsLength(n)
  BY DEF strlen, IsLength
<1>. QED BY <1>4, <1>5, <1>6

\* strlen finds nothing in a cleared buf.
LEMMA StrlenOfBlank == ASSUME buf = Blank PROVE strlen = 0
<1>0. BufSize \in Nat /\ 0 \in 0..BufSize
  BY BufAssumption
<1>1. \A i \in 1..BufSize : buf[i] = NUL
  BY DEF Blank
<1>2. IsLength(0)
  BY <1>0, <1>1 DEF IsLength
<1>3. ASSUME NEW n \in 0..BufSize, IsLength(n) PROVE n = 0
  <2>. SUFFICES ASSUME n # 0 PROVE FALSE
    OBVIOUS
  <2>1. 1 \in 1..n /\ 1 \in 1..BufSize
    BY <1>0
  <2>. QED BY <1>1, <1>3, <2>1 DEF IsLength
<1>4. strlen = CHOOSE n \in 0..BufSize : IsLength(n)
  BY DEF strlen, IsLength
<1>. QED BY <1>0, <1>2, <1>3, <1>4

SemTypeOK ==
  /\ sem \in Nat /\ flag = 0
  /\ pc \in {"scan", "store", "compare", "gone"}
  /\ child \in {"wait", "report", "clear", "ended"}
  /\ typed \in Seq(Words) /\ counts \in Seq(Nat)
  /\ hasty \in BOOLEAN /\ eof \in BOOLEAN

\* A count is due for a word that was typed: shown, posted, taken by the child, or main is
\* still at the word
Reporting == IF child = "report" THEN 1 ELSE 0
Scanning == IF pc \in {"store", "compare"} THEN 1 ELSE 0
Due == Len(counts) + sem + Reporting + Scanning <= Len(typed)

Begins(w) == IsPrefix(End, w)

\* What a cell of buf may hold
Char == STRING \cup {NUL}

\* scanf has stored a part of the word, and buf is clear behind it
Stored(w) ==
  /\ left \in Seq(Char) /\ Len(left) \in 1..(Len(w) + 1)
  /\ \A i \in 1..Len(left) : left[i] = Append(w, NUL)[Len(w) + 1 - Len(left) + i]
  /\ buf = [i \in 1..BufSize |-> IF i <= Len(w) + 1 - Len(left) THEN w[i] ELSE NUL]

\* The lengths shown: those of the words, and none after them
Lengths == \A k \in 1..Len(counts) : counts[k] = IF k <= Len(typed) THEN Len(typed[k]) ELSE 0

\* buf holds the last word, and a cleared buf
HoldsLast == Len(typed) >= 1 /\ buf = Padded(typed[Len(typed)])

\* For a user who waits: where main and the child are, what buf holds and which words
\* were counted
Calm ==
  /\ Len(counts) <= Len(typed)
  /\ \A k \in 1..Len(counts) : counts[k] = Len(typed[k])
  /\ pc = "scan" => child # "ended" /\ \A k \in 1..Len(typed) : ~Begins(typed[k])
  /\ pc \in {"store", "compare"} =>
       /\ child = "wait" /\ sem = 0 /\ Len(typed) = Len(counts) + 1
       /\ \A k \in 1..Len(counts) : ~Begins(typed[k])
  /\ pc = "store" => Stored(typed[Len(typed)])
  /\ pc = "compare" => buf = Padded(typed[Len(typed)])
  /\ pc = "gone" => Len(typed) >= 1 /\ Begins(typed[Len(typed)])
  /\ pc \in {"scan", "gone"} =>
       \/ child = "ended"
       \/ child = "wait" /\ sem = 0 /\ Len(counts) = Len(typed) /\ buf = Blank
       \/ child = "wait" /\ sem = 1 /\ Len(typed) = Len(counts) + 1 /\ HoldsLast
       \/ child = "report" /\ sem = 0 /\ Len(typed) = Len(counts) + 1 /\ HoldsLast
       \/ child = "clear" /\ sem = 0 /\ Len(counts) = Len(typed) /\ HoldsLast

\* The same after the end of the input: main goes round for good, and the child shows the
\* length of the last word and then of a cleared buf
AtEof ==
  /\ pc \in {"scan", "compare"} /\ child \in {"wait", "report", "clear"}
  /\ \A k \in 1..Len(typed) : ~Begins(typed[k])
  /\ Lengths
  /\ \/ Len(typed) = Len(counts) + 1 /\ child \in {"wait", "report"} /\ HoldsLast
     \/ Len(counts) >= Len(typed) /\ buf = Blank
     \/ Len(counts) = Len(typed) /\ child = "clear" /\ HoldsLast

SemInv ==
  /\ SemTypeOK
  /\ ~eof => Due
  /\ ~hasty /\ ~eof => Calm
  /\ ~hasty /\ eof => AtEof

\* Typing a word, by a user who waits or not, keeps the invariant.
LEMMA TypeKeeps == ASSUME SemInv, NEW w \in Words, Type(w) PROVE SemInv'
<1>1. /\ pc = "scan" /\ typed' = Append(typed, w) /\ left' = Append(w, NUL) /\ pc' = "store"
      /\ ~eof /\ UNCHANGED <<buf, sem, flag, child, counts, eof>>
  BY DEF Type
<1>2. /\ SemTypeOK /\ hasty' \in BOOLEAN
      /\ ~hasty' => ~hasty /\ child = "wait" /\ sem = 0
  <2>1. SemTypeOK
    BY DEF SemInv
  <2>2. hasty' = (hasty \/ child # "wait" \/ sem > 0)
    BY DEF Type
  <2>3. hasty' \in BOOLEAN /\ (~hasty' => ~hasty /\ child = "wait" /\ ~(sem > 0))
    BY <2>2, Zenon
  <2>. QED BY <2>1, <2>3 DEF SemTypeOK
<1>3. /\ w \in Seq(STRING \ {NUL}) /\ w \in Seq(Char) /\ NUL \in Char
      /\ Len(w) < BufSize /\ BufSize \in Nat /\ Len(w) \in Nat
  <2>1. w \in Seq(STRING \ {NUL}) /\ Len(w) < BufSize /\ BufSize \in Nat
    BY BufAssumption
  <2>2. STRING \ {NUL} \subseteq Char /\ NUL \in Char
    BY DEF Char
  <2>3. w \in Seq(Char)
    BY <2>1, <2>2, SeqMonotonic
  <2>. QED BY <2>1, <2>2, <2>3
<1>4. /\ typed \in Seq(Words) /\ typed' \in Seq(Words) /\ Len(typed') = Len(typed) + 1
      /\ typed'[Len(typed')] = w /\ \A k \in 1..Len(typed) : typed'[k] = typed[k]
  BY <1>1, <1>2 DEF SemTypeOK
<1>5. SemTypeOK'
  BY <1>1, <1>2, <1>4 DEF SemTypeOK
<1>6. Due'
  <2>1. Due /\ Scanning = 0 /\ Scanning' = 1 /\ Reporting' = Reporting /\ Reporting \in Nat
    BY <1>1 DEF SemInv, Scanning, Reporting
  <2>. HIDE DEF Scanning, Reporting
  <2>. QED BY <1>1, <1>2, <1>4, <2>1 DEF Due, SemTypeOK
<1>7. ASSUME ~hasty' PROVE Calm'
  <2>1. Calm /\ child = "wait" /\ sem = 0
    BY <1>1, <1>2, <1>7 DEF SemInv
  <2>2. Len(counts) = Len(typed) /\ buf = Blank
    BY <1>1, <2>1 DEF Calm
  <2>3. \A k \in 1..Len(counts) : typed'[k] = typed[k] /\ counts[k] = Len(typed[k]) /\ ~Begins(typed[k])
    BY <1>1, <1>4, <2>1, <2>2 DEF Calm
  <2>4. /\ left' \in Seq(Char) /\ Len(left') = Len(w) + 1
        /\ \A i \in 1..Len(left') : left'[i] = Append(w, NUL)[i]
    BY <1>1, <1>3
  <2>5. /\ left' \in Seq(Char) /\ Len(left') \in 1..(Len(w) + 1) /\ Len(w) + 1 - Len(left') = 0
        /\ \A i \in 1..Len(left') : left'[i] = Append(w, NUL)[Len(w) + 1 - Len(left') + i]
    BY <1>3, <2>4
  <2>6. buf' = [i \in 1..BufSize |-> IF i <= Len(w) + 1 - Len(left') THEN w[i] ELSE NUL]
    BY <1>1, <1>3, <2>2, <2>5 DEF Blank
  <2>7. Stored(typed[Len(typed)])'
    BY <1>4, <2>5, <2>6 DEF Stored
  <2>8. counts' = counts /\ pc' = "store" /\ child' = "wait" /\ sem' = 0 /\ Len(typed') = Len(counts) + 1
        /\ Len(counts) \in Nat
    BY <1>1, <1>2, <1>4, <2>1, <2>2 DEF SemTypeOK
  <2>. QED BY <2>3, <2>7, <2>8 DEF Calm
<1>. QED BY <1>1, <1>5, <1>6, <1>7 DEF SemInv

\* scanf storing a character keeps the invariant: the word grows in a clear buf, and is
\* whole when its NUL is stored.
LEMMA StoreKeeps == ASSUME SemInv, Store PROVE SemInv'
<1>1. /\ pc = "store" /\ left' = Tail(left) /\ pc' = (IF Len(left) = 1 THEN "compare" ELSE "store")
      /\ buf' = [buf EXCEPT ![Len(Last(typed)) + 2 - Len(left)] = Head(left)]
      /\ UNCHANGED <<sem, flag, child, typed, counts, eof, hasty>>
  BY DEF Store
<1>2. SemTypeOK' /\ SemTypeOK
  BY <1>1 DEF SemInv, SemTypeOK
<1>3. ~eof => Due'
  BY <1>1 DEF SemInv, Due, Scanning, Reporting
<1>4. ASSUME ~hasty, ~eof PROVE Calm'
  <2>1. Calm /\ Stored(typed[Len(typed)]) /\ Len(typed) = Len(counts) + 1
    BY <1>1, <1>4 DEF SemInv, Calm
  <2>2. PICK w \in Words : w = typed[Len(typed)]
    BY <1>2, <2>1 DEF SemTypeOK
  <2>3. /\ w \in Seq(Char) /\ NUL \in Char /\ Len(w) < BufSize /\ BufSize \in Nat /\ Len(w) \in Nat
        /\ left \in Seq(Char) /\ Len(left) \in 1..(Len(w) + 1)
    <3>1. w \in Seq(STRING \ {NUL}) /\ Len(w) < BufSize /\ BufSize \in Nat
      BY BufAssumption
    <3>2. STRING \ {NUL} \subseteq Char /\ NUL \in Char
      BY DEF Char
    <3>3. w \in Seq(Char)
      BY <3>1, <3>2, SeqMonotonic
    <3>. QED BY <2>1, <2>2, <3>1, <3>2, <3>3 DEF Stored
  <2>4. PICK j \in 0..Len(w) : j = Len(w) + 1 - Len(left)
    <3>1. Len(w) + 1 - Len(left) \in 0..Len(w)
      BY <2>3
    <3>. QED BY <3>1
  <2>5. /\ \A i \in 1..Len(left) : left[i] = Append(w, NUL)[j + i]
        /\ buf = [i \in 1..BufSize |-> IF i <= j THEN w[i] ELSE NUL]
    BY <2>1, <2>2, <2>4 DEF Stored
  <2>6. Head(left) = Append(w, NUL)[j + 1] /\ Last(typed) = w /\ Len(w) + 2 - Len(left) = j + 1
    BY <2>2, <2>3, <2>4, <2>5 DEF Last
  <2>7. buf' = [buf EXCEPT ![j + 1] = Append(w, NUL)[j + 1]]
    BY <1>1, <2>6
  <2>8. buf' = [i \in 1..BufSize |-> IF i = j + 1 THEN Append(w, NUL)[j + 1] ELSE buf[i]]
    BY <2>5, <2>7
  <2>9. \A i \in 1..Len(w) : Append(w, NUL)[i] = w[i]
    BY <2>3, AppendProperties
  <2>10. Append(w, NUL)[Len(w) + 1] = NUL
    BY <2>3, AppendProperties
  <2>11. CASE Len(left) = 1
    <3>1. j = Len(w)
      BY <2>3, <2>4, <2>11
    <3>2. buf' = [i \in 1..BufSize |-> IF i = Len(w) + 1 THEN NUL ELSE buf[i]]
      BY <2>8, <2>10, <3>1
    <3>3. buf' = Padded(w)
      BY <2>3, <2>5, <3>1, <3>2 DEF Padded
    <3>4. pc' = "compare"
      BY <1>1, <2>11
    <3>. QED BY <1>1, <2>1, <2>2, <3>3, <3>4 DEF Calm, Padded
  <2>12. CASE Len(left) # 1
    <3>1. left' \in Seq(Char) /\ Len(left') = Len(left) - 1 /\ Len(left') \in 1..(Len(w) + 1)
          /\ \A i \in 1..Len(left') : i + 1 \in 1..Len(left) /\ left'[i] = left[i + 1]
      <4>1. left # <<>>
        BY <2>3
      <4>2. left' \in Seq(Char) /\ Len(left') = Len(left) - 1 /\ \A i \in 1..Len(left') : left'[i] = left[i + 1]
        BY <1>1, <2>3, <4>1, HeadTailProperties
      <4>. QED BY <2>3, <2>12, <4>2
    <3>2. Len(w) + 1 - Len(left') = j + 1 /\ j + 1 \in 1..Len(w)
      BY <2>3, <2>4, <2>12, <3>1
    <3>3. \A i \in 1..Len(left') : left'[i] = Append(w, NUL)[j + 1 + i]
      <4>1. \A i \in 1..Len(left') : left'[i] = Append(w, NUL)[j + (i + 1)]
        BY <2>5, <3>1
      <4>2. \A i \in 1..Len(left') : j + (i + 1) = j + 1 + i
        BY <2>4, <3>1
      <4>. QED BY <4>1, <4>2
    <3>4. buf' = [i \in 1..BufSize |-> IF i <= j + 1 THEN w[i] ELSE NUL]
      <4>1. buf' = [i \in 1..BufSize |-> IF i = j + 1 THEN w[j + 1] ELSE buf[i]]
        BY <2>8, <2>9, <3>2
      <4>2. \A i \in 1..BufSize : (IF i = j + 1 THEN w[j + 1] ELSE buf[i])
                                   = (IF i <= j + 1 THEN w[i] ELSE NUL)
        BY <2>3, <2>4, <2>5
      <4>. QED BY <4>1, <4>2
    <3>5. Stored(typed[Len(typed)])'
      BY <1>1, <2>2, <3>1, <3>2, <3>3, <3>4 DEF Stored
    <3>6. pc' = "store"
      BY <1>1, <2>12
    <3>. QED BY <1>1, <2>1, <3>5, <3>6 DEF Calm
  <2>. QED BY <2>11, <2>12
<1>5. ~hasty /\ eof => FALSE
  BY <1>1 DEF SemInv, AtEof
<1>. QED BY <1>1, <1>2, <1>3, <1>4, <1>5 DEF SemInv

\* "end" begins buf when it begins the word in it.
LEMMA EndOfWord == ASSUME NEW w \in Words, buf = Padded(w), Begins(w) PROVE IsEnd
<1>1. w \in Seq(STRING \ {NUL}) /\ Len(w) < BufSize /\ BufSize \in Nat /\ Len(w) \in Nat
  BY BufAssumption
<1>2. Len(End) = 3 /\ SubSeq(End, 1, 3) = End
  <2>1. Len(End) = 3 /\ End \in Seq({"e", "n", "d"})
    BY DEF End
  <2>. QED BY <2>1, SubSeqFull
<1>3. 3 <= Len(w) /\ SubSeq(w, 1, 3) = End
  BY <1>2 DEF Begins, IsPrefix
<1>4. \A i \in 1..3 : buf[i] = w[i]
  BY <1>1, <1>3 DEF Padded
<1>5. SubSeq(buf, 1, 3) = SubSeq(w, 1, 3)
  <2>1. SubSeq(buf, 1, 3) = [i \in 1..(3 - 1 + 1) |-> buf[1 + i - 1]]
    OBVIOUS
  <2>2. SubSeq(w, 1, 3) = [i \in 1..(3 - 1 + 1) |-> w[1 + i - 1]]
    OBVIOUS
  <2>. QED BY <1>4, <2>1, <2>2
<1>. QED BY <1>3, <1>5 DEF IsEnd

\* And the other way round; it does not begin a cleared buf.
LEMMA EndInBuf ==
  ASSUME IsEnd
  PROVE  buf # Blank /\ \A w \in Words : buf = Padded(w) => Begins(w)
<1>1. BufSize \in Nat /\ BufSize > 3 /\ Len(End) = 3
  BY BufAssumption DEF End
<1>2. End[1] = "e" /\ End[2] = "n" /\ End[3] = "d" /\ SubSeq(End, 1, 3) = End
  <2>1. End \in Seq({"e", "n", "d"})
    BY DEF End
  <2>2. SubSeq(End, 1, 3) = End
    BY <1>1, <2>1, SubSeqFull
  <2>. QED BY <2>2 DEF End
<1>3. SubSeq(buf, 1, 3) = [i \in 1..(3 - 1 + 1) |-> buf[1 + i - 1]]
  OBVIOUS
<1>4. SubSeq(buf, 1, 3)[3] = buf[3]
  BY <1>3
<1>5. buf[3] # NUL
  BY <1>2, <1>4 DEF IsEnd, NUL
<1>6. buf # Blank
  BY <1>1, <1>5 DEF Blank
<1>7. ASSUME NEW w \in Words, buf = Padded(w) PROVE Begins(w)
  <2>1. Len(w) \in Nat /\ w \in Seq(STRING \ {NUL})
    BY BufAssumption
  <2>2. 3 <= Len(w)
    BY <1>1, <1>5, <1>7, <2>1 DEF Padded
  <2>3. \A i \in 1..3 : buf[i] = w[i]
    BY <1>1, <1>7, <2>1, <2>2 DEF Padded
  <2>4. SubSeq(w, 1, 3) = [i \in 1..(3 - 1 + 1) |-> w[1 + i - 1]]
    OBVIOUS
  <2>5. SubSeq(buf, 1, 3) = SubSeq(w, 1, 3)
    BY <1>3, <2>3, <2>4
  <2>. QED BY <1>1, <1>2, <2>2, <2>5 DEF Begins, IsPrefix, IsEnd
<1>. QED BY <1>6, <1>7

\* The end of the input, met for the first time or again, keeps the invariant.
LEMMA EofKeeps == ASSUME SemInv, EndOfInput PROVE SemInv'
<1>1. /\ pc = "scan" /\ eof' = TRUE /\ pc' = "compare"
      /\ UNCHANGED <<buf, sem, flag, left, child, typed, counts, hasty>>
  BY DEF EndOfInput
<1>2. SemTypeOK' /\ SemTypeOK
  BY <1>1 DEF SemInv, SemTypeOK
<1>3. ASSUME ~hasty PROVE AtEof'
  <2>0. Len(typed) \in Nat /\ Len(counts) \in Nat
    BY <1>2 DEF SemTypeOK
  <2>1. AtEof \/ (Calm /\ ~eof)
    BY <1>2, <1>3 DEF SemInv, SemTypeOK
  <2>2. HoldsLast' = HoldsLast /\ Blank' = Blank /\ Lengths' = Lengths
    BY <1>1 DEF HoldsLast, Padded, Blank, Lengths
  <2>3. CASE AtEof
    BY <1>1, <2>2, <2>3 DEF AtEof
  <2>4. CASE Calm
    <3>1. Lengths
      BY <2>0, <2>4 DEF Calm, Lengths
    <3>2. child \in {"wait", "report", "clear"}
      BY <1>1, <1>2, <2>4 DEF Calm, SemTypeOK
    <3>3. \A k \in 1..Len(typed) : ~Begins(typed[k])
      BY <1>1, <2>4 DEF Calm
    <3>4. \/ Len(typed) = Len(counts) + 1 /\ child \in {"wait", "report"} /\ HoldsLast
          \/ Len(counts) >= Len(typed) /\ buf = Blank
          \/ Len(counts) = Len(typed) /\ child = "clear" /\ HoldsLast
      BY <1>1, <2>0, <2>4 DEF Calm
    <3>. QED BY <1>1, <2>2, <3>1, <3>2, <3>3, <3>4 DEF AtEof
  <2>. QED BY <2>1, <2>3, <2>4
<1>. QED BY <1>1, <1>2, <1>3 DEF SemInv

\* The test and the post after it keep the invariant, whatever the test finds.
LEMMA PostKeeps == ASSUME SemInv, Ends \/ Counts PROVE SemInv'
<1>1. /\ pc = "compare" /\ (sem' = IF sem < SemMax THEN sem + 1 ELSE sem)
      /\ pc' \in {"scan", "gone"} /\ (pc' = "scan" => ~IsEnd) /\ (pc' = "gone" => IsEnd)
      /\ UNCHANGED <<buf, flag, left, child, typed, counts, eof, hasty>>
  BY DEF Ends, Counts, sem_post
<1>2. SemTypeOK' /\ SemTypeOK
  BY <1>1 DEF SemInv, SemTypeOK
<1>3. ASSUME ~eof PROVE Due'
  <2>1. Due /\ Scanning = 1 /\ Scanning' = 0 /\ Reporting' = Reporting /\ Reporting \in Nat
    BY <1>1, <1>3 DEF SemInv, Scanning, Reporting
  <2>2. sem' <= sem + 1 /\ sem' \in Nat /\ sem \in Nat
    BY <1>1, <1>2 DEF SemTypeOK
  <2>. HIDE DEF Scanning, Reporting
  <2>. QED BY <1>1, <1>2, <2>1, <2>2 DEF Due, SemTypeOK
<1>4. ASSUME ~hasty, ~eof PROVE Calm'
  <2>1. /\ Calm /\ child = "wait" /\ sem = 0 /\ Len(typed) = Len(counts) + 1
        /\ buf = Padded(typed[Len(typed)])
        /\ \A k \in 1..Len(counts) : ~Begins(typed[k])
    BY <1>1, <1>4 DEF SemInv, Calm
  <2>2. sem' = 1
    BY <1>1, <2>1, MaxWordsAssumption
  <2>3. Len(counts) \in Nat /\ typed[Len(typed)] \in Words
    BY <1>2, <2>1 DEF SemTypeOK
  <2>4. /\ pc' = "scan" => ~Begins(typed[Len(typed)])
        /\ pc' = "gone" => Begins(typed[Len(typed)])
    BY <1>1, <2>1, <2>3, EndOfWord, EndInBuf
  <2>5. pc' = "scan" => \A k \in 1..Len(typed) : ~Begins(typed[k])
    BY <2>1, <2>3, <2>4
  <2>6. HoldsLast' /\ Len(typed) >= 1
    BY <1>1, <2>1, <2>3 DEF HoldsLast, Padded
  <2>. QED BY <1>1, <2>1, <2>2, <2>4, <2>5, <2>6 DEF Calm
<1>5. ASSUME ~hasty, eof PROVE AtEof'
  <2>1. AtEof
    BY <1>5 DEF SemInv
  <2>2. ~IsEnd
    <3>. SUFFICES ASSUME IsEnd PROVE FALSE
      OBVIOUS
    <3>1. HoldsLast
      BY <2>1, EndInBuf DEF AtEof
    <3>2. Len(typed) \in 1..Len(typed) /\ typed[Len(typed)] \in Words
      BY <1>2, <3>1 DEF HoldsLast, SemTypeOK
    <3>3. Begins(typed[Len(typed)])
      BY <3>1, <3>2, EndInBuf DEF HoldsLast
    <3>. QED BY <2>1, <3>2, <3>3 DEF AtEof
  <2>3. HoldsLast' = HoldsLast /\ Blank' = Blank /\ Lengths' = Lengths
    BY <1>1 DEF HoldsLast, Padded, Blank, Lengths
  <2>. QED BY <1>1, <2>1, <2>2, <2>3 DEF AtEof
<1>. QED BY <1>1, <1>2, <1>3, <1>4, <1>5 DEF SemInv

\* The end of the process keeps the invariant.
LEMMA ExitKeeps == ASSUME SemInv, Exit PROVE SemInv'
<1>1. pc = "gone" /\ child' = "ended" /\ UNCHANGED <<buf, sem, flag, pc, left, typed, counts, eof, hasty>>
  BY DEF Exit
<1>2. SemTypeOK' /\ SemTypeOK
  BY <1>1 DEF SemInv, SemTypeOK
<1>3. ASSUME ~eof PROVE Due'
  <2>1. Due /\ Scanning' = Scanning /\ Reporting' = 0 /\ Reporting \in Nat /\ Scanning \in Nat
    BY <1>1, <1>3 DEF SemInv, Scanning, Reporting
  <2>. HIDE DEF Scanning, Reporting
  <2>. QED BY <1>1, <1>2, <2>1 DEF Due, SemTypeOK
<1>4. ASSUME ~hasty, ~eof PROVE Calm'
  BY <1>1, <1>4 DEF SemInv, Calm
<1>5. ~hasty /\ eof => FALSE
  BY <1>1 DEF SemInv, AtEof
<1>. QED BY <1>1, <1>2, <1>3, <1>4, <1>5 DEF SemInv

\* The child taking a post keeps the invariant.
LEMMA WaitKeeps == ASSUME SemInv, sem_wait PROVE SemInv'
<1>1. /\ child = "wait" /\ sem > 0 /\ sem' = sem - 1 /\ child' = "report"
      /\ UNCHANGED <<buf, flag, pc, left, typed, counts, eof, hasty>>
  BY DEF sem_wait, SemInv, SemTypeOK
<1>2. SemTypeOK' /\ SemTypeOK
  BY <1>1 DEF SemInv, SemTypeOK
<1>3. ASSUME ~eof PROVE Due'
  <2>1. Due /\ Scanning' = Scanning /\ Reporting' = 1 /\ Reporting = 0 /\ Scanning \in Nat
    BY <1>1, <1>3 DEF SemInv, Scanning, Reporting
  <2>. HIDE DEF Scanning, Reporting
  <2>. QED BY <1>1, <1>2, <2>1 DEF Due, SemTypeOK
<1>4. ASSUME ~hasty, ~eof PROVE Calm'
  <2>1. Calm
    BY <1>4 DEF SemInv
  <2>2. pc \in {"scan", "gone"} /\ sem = 1 /\ Len(typed) = Len(counts) + 1 /\ HoldsLast
    BY <1>1, <1>2, <2>1 DEF Calm, SemTypeOK
  <2>3. HoldsLast' /\ sem' = 0
    BY <1>1, <2>2 DEF HoldsLast, Padded
  <2>. QED BY <1>1, <2>1, <2>2, <2>3 DEF Calm
<1>5. ASSUME ~hasty, eof PROVE AtEof'
  <2>1. AtEof
    BY <1>5 DEF SemInv
  <2>2. HoldsLast' = HoldsLast /\ Blank' = Blank /\ Lengths' = Lengths
    BY <1>1 DEF HoldsLast, Padded, Blank, Lengths
  <2>. QED BY <1>1, <2>1, <2>2 DEF AtEof
<1>. QED BY <1>1, <1>2, <1>3, <1>4, <1>5 DEF SemInv

\* The child showing a count keeps the invariant: for a user who waits buf holds the word,
\* or is cleared when the input is at its end and all words are counted.
LEMMA ReportKeeps == ASSUME SemInv, Report PROVE SemInv'
<1>1. /\ child = "report" /\ counts' = Append(counts, strlen) /\ child' = "clear"
      /\ UNCHANGED <<buf, sem, flag, pc, left, typed, eof, hasty>>
  BY DEF Report
<1>2. strlen \in Nat /\ SemTypeOK
  BY StrlenInRange, BufAssumption DEF SemInv
<1>3. /\ counts \in Seq(Nat) /\ counts' \in Seq(Nat) /\ Len(counts') = Len(counts) + 1
      /\ counts'[Len(counts) + 1] = strlen /\ \A k \in 1..Len(counts) : counts'[k] = counts[k]
  <2>1. counts \in Seq(Nat)
    BY <1>2 DEF SemTypeOK
  <2>. QED BY <1>1, <1>2, <2>1, AppendProperties
<1>4. SemTypeOK'
  BY <1>1, <1>2, <1>3 DEF SemTypeOK
<1>5. ASSUME ~eof PROVE Due'
  <2>1. Due /\ Scanning' = Scanning /\ Reporting' = 0 /\ Reporting = 1 /\ Scanning \in Nat
    BY <1>1, <1>5 DEF SemInv, Scanning, Reporting
  <2>. HIDE DEF Scanning, Reporting
  <2>. QED BY <1>1, <1>2, <1>3, <2>1 DEF Due, SemTypeOK
<1>6. ASSUME ~hasty, ~eof PROVE Calm'
  <2>1. Calm
    BY <1>6 DEF SemInv
  <2>2. pc \in {"scan", "gone"} /\ sem = 0 /\ Len(typed) = Len(counts) + 1 /\ HoldsLast
    BY <1>1, <1>2, <2>1 DEF Calm, SemTypeOK
  <2>3. Len(counts) \in Nat /\ typed[Len(typed)] \in Words
    BY <1>2, <1>3, <2>2 DEF SemTypeOK
  <2>4. strlen = Len(typed[Len(typed)])
    BY <2>2, <2>3, StrlenOfWord DEF HoldsLast
  <2>5. \A k \in 1..Len(counts') : counts'[k] = Len(typed'[k])
    <3>1. \A k \in 1..Len(counts) : counts'[k] = Len(typed[k])
      BY <1>3, <2>1 DEF Calm
    <3>2. counts'[Len(counts')] = Len(typed[Len(counts')])
      BY <1>3, <2>2, <2>4
    <3>3. \A k \in 1..Len(counts') : k \in 1..Len(counts) \/ k = Len(counts')
      BY <1>3, <2>3
    <3>. QED BY <1>1, <3>1, <3>2, <3>3
  <2>6. Len(counts') = Len(typed')
    BY <1>1, <1>3, <2>2
  <2>7. pc' = "scan" => \A k \in 1..Len(typed') : ~Begins(typed'[k])
    BY <1>1, <2>1 DEF Calm
  <2>8. HoldsLast' /\ (pc' = "gone" => Len(typed') >= 1 /\ Begins(typed'[Len(typed')]))
    BY <1>1, <2>1, <2>2 DEF HoldsLast, Padded, Calm
  <2>. QED BY <1>1, <1>3, <2>2, <2>3, <2>5, <2>6, <2>7, <2>8 DEF Calm
<1>7. ASSUME ~hasty, eof PROVE AtEof'
  <2>1. AtEof /\ Lengths /\ Len(typed) \in Nat /\ Len(counts) \in Nat
    BY <1>2, <1>7 DEF SemInv, AtEof, SemTypeOK
  <2>2. HoldsLast' = HoldsLast /\ Blank' = Blank
    BY <1>1 DEF HoldsLast, Padded, Blank
  <2>3. Len(counts') = Len(counts) + 1
    BY <1>3
  <2>4. \A k \in 1..Len(counts) : counts'[k] = IF k <= Len(typed) THEN Len(typed[k]) ELSE 0
    BY <1>3, <2>1 DEF Lengths
  <2>5. \A k \in 1..Len(counts') : k \in 1..Len(counts) \/ k = Len(counts')
    BY <2>1, <2>3
  <2>6. CASE Len(typed) = Len(counts) + 1 /\ HoldsLast
    <3>1. typed[Len(typed)] \in Words
      BY <1>2, <2>1, <2>6 DEF SemTypeOK, HoldsLast
    <3>2. strlen = Len(typed[Len(typed)])
      BY <2>6, <3>1, StrlenOfWord DEF HoldsLast
    <3>3. Lengths'
      BY <1>1, <1>3, <2>1, <2>3, <2>4, <2>5, <2>6, <3>2 DEF Lengths
    <3>. QED BY <1>1, <2>1, <2>2, <2>3, <2>6, <3>3 DEF AtEof
  <2>7. CASE Len(counts) >= Len(typed) /\ buf = Blank
    <3>1. strlen = 0
      BY <2>7, StrlenOfBlank
    <3>2. Lengths'
      BY <1>1, <1>3, <2>1, <2>3, <2>4, <2>5, <2>7, <3>1 DEF Lengths
    <3>. QED BY <1>1, <2>1, <2>2, <2>3, <2>7, <3>2 DEF AtEof
  <2>. QED BY <1>1, <2>1, <2>6, <2>7 DEF AtEof
<1>. QED BY <1>1, <1>4, <1>5, <1>6, <1>7 DEF SemInv

\* The child clearing buf keeps the invariant: for a user who waits main is not at a word.
LEMMA ClearKeeps == ASSUME SemInv, Clear PROVE SemInv'
<1>1. /\ child = "clear" /\ child' = "wait" /\ buf' = Blank
      /\ UNCHANGED <<sem, flag, pc, left, typed, counts, eof, hasty>>
  BY DEF Clear, Blank
<1>2. SemTypeOK' /\ SemTypeOK
  BY <1>1 DEF SemInv, SemTypeOK
<1>3. ~eof => Due'
  BY <1>1 DEF SemInv, Due, Scanning, Reporting
<1>4. buf' = Blank'
  BY <1>1 DEF Blank
<1>5. ASSUME ~hasty, ~eof PROVE Calm'
  <2>1. Calm
    BY <1>5 DEF SemInv
  <2>2. pc \in {"scan", "gone"} /\ sem = 0 /\ Len(counts) = Len(typed)
    BY <1>1, <1>2, <2>1 DEF Calm, SemTypeOK
  <2>. QED BY <1>1, <1>4, <2>1, <2>2 DEF Calm
<1>6. ASSUME ~hasty, eof PROVE AtEof'
  <2>1. AtEof /\ Len(counts) >= Len(typed) /\ Lengths'
    <3>1. AtEof /\ Len(typed) \in Nat /\ Len(counts) \in Nat
      BY <1>2, <1>6 DEF SemInv, SemTypeOK
    <3>. QED BY <1>1, <3>1 DEF AtEof, Lengths
  <2>. QED BY <1>1, <1>4, <2>1 DEF AtEof
<1>. QED BY <1>1, <1>2, <1>3, <1>5, <1>6 DEF SemInv

\* The inductive invariant of the word counter: no more counts than words until the end of
\* the input, for a user who waits the child and main take turns (sem.c:18-24, 42-57), and
\* at the end of the input main goes round for good.
THEOREM SemInvariant == SemSpec => []SemInv
<1>1. SemInit => SemInv
  <2>. SUFFICES ASSUME SemInit PROVE SemInv
    OBVIOUS
  <2>1. /\ buf = Blank /\ sem = 0 /\ flag = 0 /\ pc = "scan" /\ child = "wait"
        /\ typed = <<>> /\ counts = <<>> /\ hasty = FALSE /\ eof = FALSE
    BY DEF SemInit, Blank
  <2>2. SemTypeOK
    <3>1. typed \in Seq(Words) /\ counts \in Seq(Nat)
      BY <2>1, EmptySeq
    <3>. QED BY <2>1, <3>1 DEF SemTypeOK
  <2>3. Len(counts) = 0 /\ Len(typed) = 0
    BY <2>1
  <2>4. Due
    BY <2>1, <2>3 DEF Due, Reporting, Scanning
  <2>5. Calm
    BY <2>1, <2>3 DEF Calm
  <2>. QED BY <2>1, <2>2, <2>4, <2>5 DEF SemInv
<1>2. SemInv /\ [SemNext]_semVars => SemInv'
  <2>. SUFFICES ASSUME SemInv, [SemNext]_semVars PROVE SemInv'
    OBVIOUS
  <2>1. CASE UNCHANGED semVars
    BY <2>1 DEF semVars, SemInv, SemTypeOK, Due, Reporting, Scanning, Calm, AtEof, Lengths, HoldsLast, Stored, Blank, Padded
  <2>. QED BY <2>1, TypeKeeps, EofKeeps, StoreKeeps, PostKeeps, ExitKeeps, WaitKeeps, ReportKeeps, ClearKeeps DEF SemNext
<1>. QED BY <1>1, <1>2, PTL DEF SemSpec

\* The counts shown are the lengths of the words typed, for a user who waits for each, and
\* zeros after the end of the input; before it never more than words were typed
\* (sem.c:18-23, 42, 49, 56).
THEOREM SemCountsMatch == SemSpec => []CountsMatch
<1>1. SemInv => CountsMatch
  <2>. SUFFICES ASSUME SemInv PROVE CountsMatch
    OBVIOUS
  <2>1. SemTypeOK /\ Len(counts) \in Nat /\ Len(typed) \in Nat
    BY DEF SemInv, SemTypeOK
  <2>2. ASSUME ~eof PROVE Len(counts) + sem <= Len(typed)
    <3>1. Reporting \in Nat /\ Scanning \in Nat /\ Due
      BY <2>2 DEF Reporting, Scanning, SemInv
    <3>. QED BY <2>1, <3>1 DEF Due, SemTypeOK
  <2>3. ASSUME ~hasty PROVE Lengths
    <3>1. CASE eof
      BY <2>3, <3>1 DEF SemInv, AtEof
    <3>2. CASE ~eof
      BY <2>1, <2>3, <3>2 DEF SemInv, Calm, Lengths
    <3>. QED BY <3>1, <3>2
  <2>. QED BY <2>2, <2>3 DEF CountsMatch, Lengths
<1>. QED BY <1>1, SemInvariant, PTL

\* For a user who waits, main goes on scanning only after words other than "end", and quits
\* only after one that begins with it, though the child clears buf behind its back
\* (sem.c:22, 44-45).
THEOREM SemEndRecognised == SemSpec => []EndRecognised
<1>1. Begins(End)
  BY DEF Begins, IsPrefix
<1>2. SemInv => EndRecognised
  <2>. SUFFICES ASSUME SemInv, ~hasty
                PROVE  /\ pc = "scan" => \A k \in 1..Len(typed) : typed[k] # End
                       /\ pc = "gone" => ~eof /\ IsPrefix(End, Last(typed))
    BY DEF EndRecognised
  <2>1. pc = "scan" => \A k \in 1..Len(typed) : ~Begins(typed[k])
    BY DEF SemInv, AtEof, Calm
  <2>2. pc = "gone" => ~eof /\ Begins(typed[Len(typed)])
    BY DEF SemInv, AtEof, Calm
  <2>3. pc = "scan" => \A k \in 1..Len(typed) : typed[k] # End
    BY <1>1, <2>1
  <2>. QED BY <2>2, <2>3 DEF Begins, Last
<1>. QED BY <1>2, SemInvariant, PTL

-----------------------------------------------------------------------------
(* The GPS reader: StringToArray.                                                          *)

\* One symbol of a line: a comma begins a field, and others lengthen the last one
NextSymbol(list, c) ==
  IF c = "," THEN Append(list, <<>>) ELSE [list EXCEPT ![Len(list)] = Append(@, c)]

\* g gives the fields of the symbols of str at the places in S, for the sets S in D
IsFields(str, g, D) ==
  \A S \in D : g[S] = IF S = {} THEN <<<<>>>> ELSE NextSymbol(g[S \ {Max(S)}], str[Max(S)])

Smaller(n, k) == {S \in SUBSET (1..n) : Cardinality(S) < k}

\* A set of places has a last one.
LEMMA LastPlace ==
  ASSUME NEW n \in Nat, NEW S \in SUBSET (1..n), S # {}
  PROVE  /\ Max(S) \in S /\ \A i \in S : Max(S) >= i
         /\ S \ {Max(S)} \in SUBSET (1..n)
         /\ Cardinality(S) \in Nat /\ Cardinality(S \ {Max(S)}) = Cardinality(S) - 1
<1>. DEFINE T == {j \in 0..n : n - j \in S}
<1>1. T \subseteq Nat /\ T # {}
  <2>1. PICK i \in S : TRUE
    OBVIOUS
  <2>2. n - i \in 0..n /\ n - (n - i) = i
    BY <2>1
  <2>3. n - i \in T
    BY <2>1, <2>2
  <2>4. T # {}
    BY <2>3, Zenon
  <2>. QED BY <2>4
<1>2. PICK j \in T : \A y \in T : j <= y
  BY <1>1, LeastElement
<1>3. n - j \in S /\ \A i \in S : n - j >= i
  <2>1. ASSUME NEW i \in S PROVE n - j >= i
    <3>1. n - i \in T
      BY <2>1
    <3>2. j <= n - i
      BY <1>2, <3>1
    <3>. QED BY <3>2, <1>2
  <2>. QED BY <1>2, <2>1
<1>4. Max(S) \in S /\ \A i \in S : Max(S) >= i
  BY <1>3, Zenon DEF Max
<1>5. IsFiniteSet(1..n)
  BY FS_Interval
<1>6. IsFiniteSet(S) /\ Cardinality(S) \in Nat
  BY <1>5, FS_Subset, FS_CardinalityType
<1>. QED BY <1>4, <1>6, FS_RemoveElement

\* The sets of places are those with at most n of them.
LEMMA PlacesLemma ==
  ASSUME NEW n \in Nat
  PROVE  /\ \A S \in SUBSET (1..n) : Cardinality(S) \in Nat
         /\ SUBSET (1..n) = Smaller(n, n + 1)
<1>1. IsFiniteSet(1..n) /\ Cardinality(1..n) = n
  BY FS_Interval
<1>2. \A S \in SUBSET (1..n) : Cardinality(S) \in Nat /\ Cardinality(S) <= n
  BY <1>1, FS_Subset, FS_CardinalityType
<1>. QED BY <1>2 DEF Smaller

\* There are fields of every line.
LEMMA FieldsExist ==
  ASSUME NEW str, NEW n \in Nat
  PROVE  \E g : g = [S \in SUBSET (1..n) |-> g[S]] /\ IsFields(str, g, SUBSET (1..n))
<1>. DEFINE Has(k) == \E g : g = [S \in Smaller(n, k) |-> g[S]] /\ IsFields(str, g, Smaller(n, k))
            T == {k \in Nat : ~Has(k)}
<1>1. ASSUME T # {} PROVE FALSE
  <2>1. PICK k \in T : \A j \in T : k <= j
    <3>. HIDE DEF Has
    <3>. QED BY <1>1, LeastElement
  <2>2. k # 0
    <3>1. Smaller(n, 0) = {}
      BY PlacesLemma DEF Smaller
    <3>. DEFINE e == [S \in Smaller(n, 0) |-> 0]
    <3>2. e = [S \in Smaller(n, 0) |-> e[S]] /\ IsFields(str, e, Smaller(n, 0))
      BY <3>1 DEF IsFields
    <3>3. Has(0)
      BY <3>2
    <3>. QED BY <3>3
  <2>3. k - 1 \in Nat /\ ~(k - 1 \in T) /\ k \in Nat
    BY <2>1, <2>2
  <2>4. Has(k - 1)
    BY <2>3
  <2>5. PICK g : g = [S \in Smaller(n, k - 1) |-> g[S]] /\ IsFields(str, g, Smaller(n, k - 1))
    BY <2>4
  <2>. DEFINE h == [S \in Smaller(n, k) |->
                      IF S = {} THEN <<<<>>>> ELSE NextSymbol(g[S \ {Max(S)}], str[Max(S)])]
  <2>6. \A S \in Smaller(n, k - 1) : S \in Smaller(n, k) /\ h[S] = g[S]
    <3>1. \A S \in Smaller(n, k - 1) : S \in Smaller(n, k)
      BY <2>3, PlacesLemma DEF Smaller
    <3>. QED BY <3>1, <2>5 DEF IsFields
  <2>7. \A S \in Smaller(n, k) : S # {} => S \ {Max(S)} \in Smaller(n, k - 1)
    BY <2>3, LastPlace DEF Smaller
  <2>8. IsFields(str, h, Smaller(n, k))
    <3>1. SUFFICES ASSUME NEW S \in Smaller(n, k)
                   PROVE  h[S] = IF S = {} THEN <<<<>>>>
                                 ELSE NextSymbol(h[S \ {Max(S)}], str[Max(S)])
      BY DEF IsFields
    <3>2. h[S] = IF S = {} THEN <<<<>>>> ELSE NextSymbol(g[S \ {Max(S)}], str[Max(S)])
      OBVIOUS
    <3>3. S # {} => h[S \ {Max(S)}] = g[S \ {Max(S)}]
      BY <2>6, <2>7
    <3>. HIDE DEF h
    <3>. QED BY <3>2, <3>3
  <2>9. h = [S \in Smaller(n, k) |-> h[S]]
    OBVIOUS
  <2>10. Has(k)
    <3>. HIDE DEF h
    <3>. QED BY <2>8, <2>9
  <2>. QED BY <2>1, <2>10
<1>2. Has(n + 1)
  BY <1>1
<1>. QED BY <1>2, PlacesLemma

\* The fields of ever longer parts of a line, up to all of it.
LEMMA FoldLemma ==
  ASSUME NEW Sym, NEW str \in Seq(Sym)
  PROVE  \E F : /\ F[0] = <<<<>>>> /\ F[Len(str)] = StringToArray(str)
                /\ \A n \in 1..Len(str) : F[n] = NextSymbol(F[n - 1], str[n])
<1>. DEFINE N == Len(str)
            P(g) == g = [S \in SUBSET (DOMAIN str) |->
                           IF S = {} THEN <<<<>>>> ELSE NextSymbol(g[S \ {Max(S)}], str[Max(S)])]
<1>0. N \in Nat /\ DOMAIN str = 1..N
  OBVIOUS
<1>1. StringToArray(str) = (CHOOSE g : P(g))[DOMAIN str]
  BY Zenon DEF StringToArray, FoldLeft, MapThenFoldSet, NextSymbol
<1>2. PICK g : g = [S \in SUBSET (1..N) |-> g[S]] /\ IsFields(str, g, SUBSET (1..N))
  BY <1>0, FieldsExist
<1>3. P(g)
  BY <1>0, <1>2 DEF IsFields
<1>. DEFINE k == CHOOSE j : P(j)
<1>4. P(k)
  BY <1>3, Zenon
<1>5. StringToArray(str) = k[1..N]
  BY <1>0, <1>1
<1>. HIDE DEF k, N
<1>6. IsFields(str, k, SUBSET (1..N))
  BY <1>0, <1>4 DEF IsFields
<1>. DEFINE F == [n \in 0..N |-> k[1..n]]
<1>7. F[0] = <<<<>>>>
  <2>1. 1..0 = {} /\ {} \in SUBSET (1..N)
    OBVIOUS
  <2>2. F[0] = k[1..0]
    BY <1>0
  <2>. QED BY <2>1, <2>2, <1>6 DEF IsFields
<1>8. ASSUME NEW n \in 1..N PROVE F[n] = NextSymbol(F[n - 1], str[n])
  <2>. DEFINE S == 1..n
  <2>1. S \in SUBSET (1..N) /\ S # {} /\ n \in S
    BY <1>0
  <2>2. Max(S) = n
    <3>1. Max(S) \in S /\ Max(S) >= n
      BY <1>0, <2>1, LastPlace
    <3>. QED BY <3>1
  <2>3. S \ {n} = 1..(n - 1)
    OBVIOUS
  <2>4. F[n] = k[S] /\ F[n - 1] = k[1..(n - 1)]
    BY <1>0
  <2>5. k[S] = NextSymbol(k[S \ {Max(S)}], str[Max(S)])
    <3>. HIDE DEF S
    <3>. QED BY <2>1, <1>6 DEF IsFields
  <2>. QED BY <2>2, <2>3, <2>4, <2>5
<1>9. F[N] = StringToArray(str)
  BY <1>0, <1>5
<1>. HIDE DEF F
<1>. QED BY <1>7, <1>8, <1>9 DEF N

Comma(w, i) == w[i] = ","

\* The fields list of the first n symbols of str, whose fields begin at the places in st: each
\* but the first after a comma, each comma before a field.
Cut(str, n, list, st) ==
  /\ st \in Seq(Nat) /\ Len(st) = Len(list) /\ Len(st) >= 1 /\ st[1] = 1
  /\ \A k \in 2..Len(st) : st[k] \in 2..(n + 1) /\ Comma(str, st[k] - 1)
  /\ \A j, k \in 1..Len(st) : j < k => st[j] < st[k]
  /\ \A i \in 1..n : Comma(str, i) => \E k \in 2..Len(st) : st[k] = i + 1
  /\ \A k \in 1..(Len(st) - 1) : list[k] = SubSeq(str, st[k], st[k + 1] - 2)
  /\ list[Len(st)] = SubSeq(str, st[Len(st)], n)

\* A part of a line and the symbol after it.
LEMMA LongerPart ==
  ASSUME NEW Sym, NEW w \in Seq(Sym), NEW n \in 1..Len(w), NEW p \in 1..n
  PROVE  Append(SubSeq(w, p, n - 1), w[n]) = SubSeq(w, p, n)
<1>. DEFINE old == SubSeq(w, p, n - 1)
            now == SubSeq(w, p, n)
            last == Append(old, w[n])
            len == n - p
<1>0. len \in Nat /\ len + 1 \in Nat /\ n \in Nat /\ p \in Nat /\ w[n] \in Sym /\ p + len = n
      /\ Len(w) \in Nat /\ n <= Len(w) /\ p >= 1
  OBVIOUS
<1>3. /\ old \in Seq(Sym) /\ Len(old) = len
      /\ \A i \in 1..len : old[i] = w[p + i - 1]
  BY <1>0
<1>4. /\ now \in Seq(Sym) /\ Len(now) = len + 1
      /\ \A i \in 1..(len + 1) : now[i] = w[p + i - 1]
  BY <1>0
<1>. HIDE DEF old, now, len
<1>5. /\ last \in Seq(Sym) /\ Len(last) = len + 1 /\ last[len + 1] = w[n]
      /\ \A i \in 1..len : last[i] = old[i]
  BY <1>0, <1>3, AppendProperties
<1>. HIDE DEF last
<1>6. \A i \in 1..(len + 1) : last[i] = now[i]
  <2>1. SUFFICES ASSUME NEW i \in 1..(len + 1) PROVE last[i] = now[i]
    OBVIOUS
  <2>2. CASE i = len + 1
    <3>1. p + i - 1 = n
      BY <1>0, <2>2
    <3>2. now[i] = w[n]
      BY <1>4, <3>1, <2>1
    <3>. QED BY <1>5, <2>2, <3>2
  <2>3. CASE i \in 1..len
    BY <1>3, <1>4, <1>5, <2>1, <2>3
  <2>. QED BY <1>0, <2>2, <2>3
<1>7. last = now
  BY <1>4, <1>5, <1>6, SeqEqual
<1>. QED BY <1>7 DEF last, now, old

\* One more symbol: a comma begins a field, and others belong to the last one.
LEMMA CutStep ==
  ASSUME NEW Sym, NEW w \in Seq(Sym), NEW n \in 1..Len(w),
         NEW fs \in Seq(Seq(Sym)), NEW b, Cut(w, n - 1, fs, b)
  PROVE  /\ NextSymbol(fs, w[n]) \in Seq(Seq(Sym))
         /\ \E t : Cut(w, n, NextSymbol(fs, w[n]), t)
<1>. DEFINE new == NextSymbol(fs, w[n])
            m == Len(b)
<1>c1. b \in Seq(Nat) /\ Len(b) = Len(fs) /\ Len(b) >= 1 /\ b[1] = 1
  BY Zenon DEF Cut
<1>c2. \A k \in 2..m : b[k] \in 2..((n - 1) + 1) /\ Comma(w, b[k] - 1)
  BY Zenon DEF Cut
<1>c3. \A j, k \in 1..m : j < k => b[j] < b[k]
  BY Zenon DEF Cut
<1>c4. \A i \in 1..(n - 1) : Comma(w, i) => \E k \in 2..m : b[k] = i + 1
  BY Zenon DEF Cut
<1>c5. \A k \in 1..(m - 1) : fs[k] = SubSeq(w, b[k], b[k + 1] - 2)
  BY Zenon DEF Cut
<1>c6. fs[m] = SubSeq(w, b[m], n - 1)
  BY Zenon DEF Cut
<1>a. n \in Nat /\ n >= 1 /\ w[n] \in Sym
  OBVIOUS
<1>0. m \in Nat /\ m >= 1 /\ Len(fs) = m /\ b \in Seq(Nat) /\ b[1] = 1 /\ w[n] \in Sym
      /\ n \in Nat /\ n >= 1 /\ Len(b) = m
  BY <1>a, <1>c1
<1>. HIDE DEF m
<1>n. (n - 1) + 1 = n
  BY <1>0
<1>st. \A k \in 1..m : b[k] \in Nat /\ b[k] <= n /\ b[k] >= 1
  <2>1. SUFFICES ASSUME NEW k \in 1..m PROVE b[k] \in Nat /\ b[k] <= n /\ b[k] >= 1
    OBVIOUS
  <2>2. CASE k = 1
    BY <1>0, <2>2
  <2>3. CASE k \in 2..m
    BY <1>n, <1>0, <1>c2, <2>3
  <2>. QED BY <1>0, <2>2, <2>3
<1>1. CASE Comma(w, n)
  <2>. DEFINE t == Append(b, n + 1)
  <2>1. new = Append(fs, <<>>)
    BY <1>1 DEF NextSymbol, Comma
  <2>2. /\ new \in Seq(Seq(Sym)) /\ Len(new) = m + 1 /\ new[m + 1] = <<>>
        /\ \A k \in 1..m : new[k] = fs[k]
    BY <1>0, <2>1, AppendProperties, EmptySeq
  <2>3. t \in Seq(Nat) /\ Len(t) = m + 1 /\ t[m + 1] = n + 1 /\ \A k \in 1..m : t[k] = b[k]
    BY <1>0, AppendProperties
  <2>. HIDE DEF new, t
  <2>4. \A k \in 2..(m + 1) : t[k] \in 2..(n + 1) /\ Comma(w, t[k] - 1)
    <3>1. SUFFICES ASSUME NEW k \in 2..(m + 1) PROVE t[k] \in 2..(n + 1) /\ Comma(w, t[k] - 1)
      OBVIOUS
    <3>2. CASE k = m + 1
      BY <1>0, <1>1, <2>3, <3>2
    <3>3. CASE k \in 2..m
      BY <1>0, <1>c2, <2>3, <3>3, SMTT(30)
    <3>. QED BY <1>0, <3>2, <3>3
  <2>5. \A j, k \in 1..(m + 1) : j < k => t[j] < t[k]
    <3>1. SUFFICES ASSUME NEW j \in 1..(m + 1), NEW k \in 1..(m + 1), j < k PROVE t[j] < t[k]
      OBVIOUS
    <3>2. j \in 1..m /\ t[j] = b[j]
      BY <1>0, <2>3, <3>1
    <3>3. CASE k = m + 1
      BY <1>0, <1>st, <2>3, <3>2, <3>3
    <3>4. CASE k \in 1..m
      BY <1>0, <1>c3, <2>3, <3>1, <3>2, <3>4
    <3>. QED BY <1>0, <3>3, <3>4
  <2>6. \A i \in 1..n : Comma(w, i) => \E k \in 2..(m + 1) : t[k] = i + 1
    <3>1. SUFFICES ASSUME NEW i \in 1..n, Comma(w, i) PROVE \E k \in 2..(m + 1) : t[k] = i + 1
      OBVIOUS
    <3>2. CASE i = n
      BY <1>0, <2>3, <3>2
    <3>3. CASE i \in 1..(n - 1)
      <4>1. PICK k \in 2..m : b[k] = i + 1
        BY <1>c4, <3>1, <3>3
      <4>2. k \in 2..(m + 1) /\ t[k] = i + 1
        BY <1>0, <2>3, <4>1
      <4>. QED BY <4>2
    <3>. QED BY <1>0, <3>2, <3>3
  <2>7. \A k \in 1..m : new[k] = SubSeq(w, t[k], t[k + 1] - 2)
    <3>1. SUFFICES ASSUME NEW k \in 1..m PROVE new[k] = SubSeq(w, t[k], t[k + 1] - 2)
      OBVIOUS
    <3>2. CASE k = m
      <4>1. t[k + 1] - 2 = n - 1 /\ t[k] = b[m] /\ new[k] = fs[m]
        BY <1>0, <2>2, <2>3, <3>2
      <4>. QED BY <1>c6, <4>1
    <3>3. CASE k \in 1..(m - 1)
      <4>0. k + 1 \in 1..m /\ k \in 1..m
        BY <1>0, <3>3
      <4>1. t[k + 1] = b[k + 1] /\ t[k] = b[k] /\ new[k] = fs[k]
        BY <2>2, <2>3, <4>0, Zenon
      <4>. QED BY <1>c5, <3>3, <4>1
    <3>. QED BY <1>0, <3>2, <3>3
  <2>8. new[m + 1] = SubSeq(w, t[m + 1], n)
    BY <1>0, <2>2, <2>3
  <2>9. Cut(w, n, new, t)
    <3>1. t[1] = 1
      BY <1>0, <2>3
    <3>2. Len(t) - 1 = m /\ Len(t) >= 1 /\ Len(t) = Len(new)
      BY <1>0, <2>2, <2>3
    <3>. QED BY <2>2, <2>3, <2>4, <2>5, <2>6, <2>7, <2>8, <3>1, <3>2, Zenon DEF Cut
  <2>. QED BY <2>2, <2>9 DEF new
<1>2. CASE ~Comma(w, n)
  <2>0. Len(fs) \in 1..Len(fs) /\ fs[m] \in Seq(Sym)
    BY <1>0
  <2>. DEFINE last == Append(fs[m], w[n])
  <2>1. new = [fs EXCEPT ![m] = last]
    BY <1>0, <1>2 DEF NextSymbol, Comma
  <2>2. last \in Seq(Sym)
    BY <1>0, <2>0, AppendProperties
  <2>3. last = SubSeq(w, b[m], n)
    <3>1. b[m] \in 1..n
      BY <1>0, <1>st
    <3>. QED BY <1>c6, <3>1, LongerPart
  <2>. HIDE DEF last
  <2>4. /\ new \in Seq(Seq(Sym)) /\ Len(new) = m /\ new[m] = last
        /\ \A k \in 1..(m - 1) : new[k] = fs[k]
    <3>. HIDE DEF new
    <3>. QED BY <1>0, <2>0, <2>1, <2>2
  <2>. HIDE DEF new
  <2>5. \A i \in 1..n : Comma(w, i) => \E k \in 2..m : b[k] = i + 1
    BY <1>0, <1>2, <1>c4, SMTT(30)
  <2>6. \A k \in 2..m : b[k] \in 2..(n + 1) /\ Comma(w, b[k] - 1)
    BY <1>0, <1>c2, SMTT(30)
  <2>7. \A j, k \in 1..m : j < k => b[j] < b[k]
    BY <1>c3
  <2>8. \A k \in 1..(m - 1) : new[k] = SubSeq(w, b[k], b[k + 1] - 2)
    BY <1>c5, <2>4
  <2>9. Cut(w, n, new, b)
    BY <1>0, <2>3, <2>4, <2>5, <2>6, <2>7, <2>8 DEF Cut
  <2>. QED BY <2>4, <2>9 DEF new
<1>. QED BY <1>1, <1>2

\* StringToArray cuts a line at its commas.
LEMMA FieldsLemma ==
  ASSUME NEW Sym, NEW w \in Seq(Sym)
  PROVE  \E b : Cut(w, Len(w), StringToArray(w), b)
<1>1. PICK F : /\ F[0] = <<<<>>>> /\ F[Len(w)] = StringToArray(w)
               /\ \A n \in 1..Len(w) : F[n] = NextSymbol(F[n - 1], w[n])
  BY FoldLemma
<1>. DEFINE Good(n) == F[n] \in Seq(Seq(Sym)) /\ \E b : Cut(w, n, F[n], b)
            T == {n \in 0..Len(w) : ~Good(n)}
<1>0. Len(w) \in Nat
  OBVIOUS
<1>2. ASSUME T # {} PROVE FALSE
  <2>1. PICK n \in T : \A k \in T : n <= k
    <3>. HIDE DEF Good
    <3>1. T \subseteq Nat
      OBVIOUS
    <3>. QED BY <1>2, <3>1, LeastElement
  <2>2. n # 0
    <3>1. <<>> \in Seq(Sym) /\ F[0] \in Seq(Seq(Sym)) /\ Len(F[0]) = 1 /\ F[0][1] = <<>>
      BY <1>1
    <3>. DEFINE t == <<1>>
    <3>2. t \in Seq(Nat) /\ Len(t) = 1 /\ t[1] = 1
      OBVIOUS
    <3>3. SubSeq(w, 1, 0) = <<>>
      OBVIOUS
    <3>. HIDE DEF t
    <3>4. Cut(w, 0, F[0], t)
      BY <3>1, <3>2, <3>3 DEF Cut
    <3>5. Good(0)
      BY <3>1, <3>4
    <3>. QED BY <3>5
  <2>3. n \in 1..Len(w) /\ n - 1 \in 0..Len(w) /\ ~(n - 1 \in T)
    <3>. HIDE DEF Good
    <3>. QED BY <1>0, <2>1, <2>2
  <2>4. Good(n - 1)
    BY <2>3
  <2>5. PICK b : Cut(w, n - 1, F[n - 1], b)
    BY <2>4
  <2>6. Good(n)
    <3>1. F[n] = NextSymbol(F[n - 1], w[n])
      BY <1>1, <2>3
    <3>2. /\ NextSymbol(F[n - 1], w[n]) \in Seq(Seq(Sym))
          /\ \E t : Cut(w, n, NextSymbol(F[n - 1], w[n]), t)
      BY <2>3, <2>4, <2>5, CutStep
    <3>. QED BY <3>1, <3>2
  <2>. QED BY <2>1, <2>6
<1>3. Good(Len(w))
  <2>. HIDE DEF Good
  <2>. QED BY <1>0, <1>2
<1>. QED BY <1>1, <1>3

-----------------------------------------------------------------------------
(* What the thread has read of a sentence.                                 *)

Symbols == {"stray"} \cup (UNION {Range(s.text) : s \in Sentences})

\* The stray character is a symbol.
LEMMA StraySymbol == "stray" \in Symbols
BY Zenon DEF Symbols

\* Sentences are not empty, and have no line end within.
LEMMA SentenceLemma ==
  ASSUME NEW s \in Sentences
  PROVE  /\ s.text \in Seq(Symbols) /\ Len(s.text) \in Nat /\ Len(s.text) >= 1
         /\ \A i \in 1..Len(s.text) : s.text[i] \in Symbols /\ s.text[i] # EOL
         /\ s.said \in {"A", "V", "no"}
<1>1. s.text \in Seq(Range(s.text)) /\ EOL \notin Range(s.text)
  BY SentenceAssumption, Zenon
<1>2. Range(s.text) \subseteq Symbols
  BY Zenon DEF Symbols
<1>. DEFINE t == s.text
<1>3. t \in Seq(Range(t)) /\ DOMAIN t = 1..Len(t) /\ Len(t) \in Nat
  BY <1>1
<1>4. \A i \in 1..Len(t) : t[i] \in Range(t)
  BY <1>3 DEF Range
<1>5. t \in Seq(Symbols)
  <2>. HIDE DEF t
  <2>1. \A i \in 1..Len(t) : t[i] \in Symbols
    BY <1>2, <1>4 DEF t
  <2>. QED BY <1>3, <2>1, SeqDef
<1>6. Len(t) >= 1
  <2>1. CASE s.said \in {"A", "V"} /\ RMC(s.said, t)
    <3>1. PICK q \in 3..(Len(t) - 1) : TRUE
      BY <2>1 DEF RMC
    <3>. HIDE DEF t
    <3>. QED BY <1>3, <3>1
  <2>2. CASE s.said = "no" /\ t # <<>> /\ t[1] # "RMC"
    <3>1. t # <<>>
      BY <2>2
    <3>. HIDE DEF t
    <3>. QED BY <1>3, <3>1, EmptySeq
  <2>. QED BY <2>1, <2>2, SentenceAssumption
<1>7. s.said \in {"A", "V", "no"}
  BY SentenceAssumption
<1>. QED BY <1>1, <1>2, <1>3, <1>4, <1>5, <1>6, <1>7

\* What is to come of text when p of its symbols have been read
Rest(text, p) == SubSeq(Append(text, EOL), p + 1, Len(text) + 1)

\* The symbols come one by one, and the line end last.
LEMMA RestLemma ==
  ASSUME NEW Sym, NEW text \in Seq(Sym), NEW p \in 0..Len(text)
  PROVE  /\ Rest(text, p) # <<>>
         /\ p < Len(text) => Head(Rest(text, p)) = text[p + 1] /\ Tail(Rest(text, p)) = Rest(text, p + 1)
         /\ p = Len(text) => Head(Rest(text, p)) = EOL /\ Tail(Rest(text, p)) = <<>>
         /\ Rest(text, 0) = Append(text, EOL)
<1>. DEFINE full == Append(text, EOL)
            n == Len(text)
            All == Sym \cup {EOL}
<1>0. n \in Nat /\ p \in Nat /\ p <= n
  OBVIOUS
<1>1. text \in Seq(All) /\ EOL \in All
  <2>1. Sym \subseteq All
    OBVIOUS
  <2>. HIDE DEF All
  <2>2. \A i \in 1..Len(text) : text[i] \in All
    BY <2>1
  <2>3. text \in Seq(All)
    BY <2>2, SeqDef
  <2>. QED BY <2>3 DEF All
<1>. HIDE DEF All
<1>2. full \in Seq(All) /\ Len(full) = n + 1 /\ full[n + 1] = EOL /\ \A i \in 1..n : full[i] = text[i]
  BY <1>0, <1>1, AppendProperties
<1>. HIDE DEF full, n
<1>3. ASSUME NEW k \in 0..(n + 1)
      PROVE  LET r == SubSeq(full, k + 1, n + 1) IN
             r \in Seq(All) /\ Len(r) = n + 1 - k /\ \A i \in 1..(n + 1 - k) : r[i] = full[k + i]
  <2>1. k + 1 \in Int /\ n + 1 \in Int /\ k \in Nat
    BY <1>0
  <2>2. SubSeq(full, k + 1, n + 1) \in Seq(All) /\ Len(SubSeq(full, k + 1, n + 1)) = n + 1 - k
    BY <1>0, <1>2, <2>1
  <2>3. ASSUME NEW i \in 1..(n + 1 - k) PROVE SubSeq(full, k + 1, n + 1)[i] = full[k + i]
    BY <1>0, <1>2, <2>1
  <2>. QED BY <2>2, <2>3
<1>. DEFINE r == SubSeq(full, p + 1, n + 1)
            u == SubSeq(full, p + 2, n + 1)
<1>4. r \in Seq(All) /\ Len(r) = n + 1 - p /\ \A i \in 1..(n + 1 - p) : r[i] = full[p + i]
  <2>1. p \in 0..(n + 1)
    BY <1>0
  <2>. QED BY <1>3, <2>1
<1>5. u \in Seq(All) /\ Len(u) = n - p /\ \A i \in 1..(n - p) : u[i] = full[p + 1 + i]
  <2>1. p + 1 \in 0..(n + 1) /\ (p + 1) + 1 = p + 2 /\ n + 1 - (p + 1) = n - p
    BY <1>0
  <2>. QED BY <1>3, <2>1
<1>. HIDE DEF r, u
<1>6. r # <<>> /\ Head(r) = full[p + 1]
  BY <1>0, <1>4
<1>7. Tail(r) = u
  <2>1. /\ Tail(r) \in Seq(All) /\ Len(Tail(r)) = n - p
        /\ \A i \in 1..(n - p) : Tail(r)[i] = r[i + 1]
    BY <1>0, <1>4, <1>6
  <2>2. ASSUME NEW i \in 1..(n - p) PROVE Tail(r)[i] = u[i]
    <3>1. i + 1 \in 1..(n + 1 - p) /\ p + (i + 1) = p + 1 + i
      BY <1>0
    <3>2. Tail(r)[i] = r[i + 1] /\ r[i + 1] = full[p + (i + 1)] /\ u[i] = full[p + 1 + i]
      BY <1>4, <1>5, <2>1, <2>2, <3>1, Zenon
    <3>. QED BY <3>1, <3>2
  <2>. QED BY <1>5, <2>1, <2>2, SeqEqual
<1>8. p = n => u = <<>>
  BY <1>0, <1>5, EmptySeq
<1>9. SubSeq(full, 1, n + 1) = full
  BY <1>0, <1>2
<1>10. p + 2 = (p + 1) + 1 /\ 0 + 1 = 1 /\ (p < n => p + 1 \in 1..n)
  BY <1>0
<1>11. Rest(text, p) = r /\ Rest(text, p + 1) = u /\ Rest(text, 0) = full
  BY <1>9, <1>10 DEF Rest, r, u, full, n
<1>12. p < n => full[p + 1] = text[p + 1]
  BY <1>2, <1>10
<1>. QED BY <1>2, <1>6, <1>7, <1>8, <1>11, <1>12 DEF n, full

\* Where a part of a line is one symbol.
LEMMA SubSeqOne ==
  ASSUME NEW Sym, NEW w \in Seq(Sym), NEW a \in Nat, a >= 1, NEW e \in Int, e <= Len(w),
         NEW y, SubSeq(w, a, e) = <<y>>
  PROVE  a \in 1..Len(w) /\ w[a] = y /\ e = a
<1>0. Len(w) \in Nat
  OBVIOUS
<1>1. Len(SubSeq(w, a, e)) = 1 /\ SubSeq(w, a, e)[1] = y
  OBVIOUS
<1>2. Len(SubSeq(w, a, e)) = IF a <= e THEN e - a + 1 ELSE 0
  BY <1>0, SubSeqProperties
<1>3. e = a
  BY <1>1, <1>2
<1>4. SubSeq(w, a, e)[1] = w[a]
  <2>1. SubSeq(w, a, a)[1] = w[a]
    BY <1>0, <1>3
  <2>. QED BY <1>3, <2>1
<1>. QED BY <1>0, <1>1, <1>3, <1>4

\* The symbol at place k of a sentence; the ones at 0 are what ch held before it
Symbol(text, k) == IF k = 0 THEN "stray" ELSE text[k]

\* w is what the thread makes of the first p symbols of text: each symbol once or, after pauses,
\* more than once, in their order; f are their places in text
Reads(w, text, p, f) ==
  /\ f \in Seq(Nat) /\ Len(f) = Len(w)
  /\ \A i \in 1..Len(w) : f[i] \in 0..p /\ w[i] = Symbol(text, f[i])
  /\ \A i, j \in 1..Len(w) : i < j => f[i] <= f[j]
  /\ \A k \in 1..p : \E i \in 1..Len(w) : f[i] = k

\* The commas of a line before its third field are the one before its second and its own.
LEMMA CommasLemma ==
  ASSUME NEW w, NEW n \in Nat, NEW fs, NEW b, Cut(w, n, fs, b), Len(b) >= 3,
         NEW i \in 1..n, Comma(w, i), i < b[3] - 1
  PROVE  i = b[2] - 1
<1>1. b \in Seq(Nat) /\ \A j, k \in 1..Len(b) : j < k => b[j] < b[k]
  BY Zenon DEF Cut
<1>2. PICK k \in 2..Len(b) : b[k] = i + 1
  BY Zenon DEF Cut
<1>3. Len(b) \in Nat /\ b[3] \in Nat /\ b[2] \in Nat /\ b[k] \in Nat /\ 3 \in 1..Len(b) /\ k \in 1..Len(b)
  BY <1>1, SMTT(30)
<1>4. ~(3 < k) /\ k # 3
  <2>1. 3 < k => b[3] < b[k]
    BY <1>1, <1>3
  <2>. QED BY <1>2, <1>3, <2>1
<1>5. k = 2
  BY <1>3, <1>4
<1>. QED BY <1>2, <1>3, <1>5

\* Two commas make three fields.
LEMMA ThreeFields ==
  ASSUME NEW w, NEW n \in Nat, NEW fs, NEW b, Cut(w, n, fs, b),
         NEW i \in 1..n, NEW j \in 1..n, i # j, Comma(w, i), Comma(w, j)
  PROVE  Len(b) >= 3
<1>1. b \in Seq(Nat) /\ Len(b) >= 1
  BY Zenon DEF Cut
<1>2. PICK k \in 2..Len(b) : b[k] = i + 1
  BY Zenon DEF Cut
<1>3. PICK l \in 2..Len(b) : b[l] = j + 1
  BY Zenon DEF Cut
<1>4. k # l
  BY <1>2, <1>3
<1>. QED BY <1>1, <1>2, <1>3, <1>4

\* A status that the thread finds is the one the sentence told: pauses never make one up.
LEMMA NoStatusMadeUp ==
  ASSUME NEW s \in Sentences, NEW w \in Seq(Symbols), NEW f, Reads(w, s.text, Len(s.text), f),
         NEW x \in {"A", "V"}, Status(StringToArray(w)) = <<x>>
  PROVE  s.said = x
<1>. DEFINE t == s.text
            n == Len(s.text)
            m == Len(w)
            fs == StringToArray(w)
<1>0. n \in Nat /\ n >= 1 /\ m \in Nat
  BY SentenceLemma
<1>1. fs[1] = <<"RMC">> /\ fs[3] = <<x>>
  BY DEF Status
<1>2. PICK b : Cut(w, m, fs, b)
  BY FieldsLemma
<1>r1. f \in Seq(Nat) /\ Len(f) = m /\ \A i \in 1..m : f[i] \in Nat /\ f[i] <= n /\ w[i] = Symbol(t, f[i])
  <2>1. f \in Seq(Nat) /\ Len(f) = m /\ \A i \in 1..m : f[i] \in 0..n /\ w[i] = Symbol(t, f[i])
    BY Zenon DEF Reads
  <2>2. \A i \in 1..m : f[i] \in 0..n
    BY <2>1, Zenon
  <2>. HIDE DEF n, m
  <2>3. \A i \in 1..m : f[i] \in Nat /\ f[i] <= n
    BY <2>2, <1>0
  <2>. QED BY <2>1, <2>3, Zenon
<1>r2. \A i, j \in 1..m : i < j => f[i] <= f[j]
  BY Zenon DEF Reads
<1>r3. \A k \in 1..n : \E i \in 1..m : f[i] = k
  BY Zenon DEF Reads
<1>c1. b \in Seq(Nat) /\ Len(b) = Len(fs) /\ Len(b) >= 1 /\ b[1] = 1
  BY <1>2, Zenon DEF Cut
<1>c2. \A k \in 2..Len(b) : b[k] \in 2..(m + 1) /\ Comma(w, b[k] - 1)
  BY <1>2, Zenon DEF Cut
<1>c3. \A j, k \in 1..Len(b) : j < k => b[j] < b[k]
  BY <1>2, Zenon DEF Cut
<1>c4. \A k \in 1..(Len(b) - 1) : fs[k] = SubSeq(w, b[k], b[k + 1] - 2)
  BY <1>2, Zenon DEF Cut
<1>c5. fs[Len(b)] = SubSeq(w, b[Len(b)], m)
  BY <1>2, Zenon DEF Cut
<1>. HIDE DEF n, m, fs, t
\* The first symbol read is the sentence's first, and it is $GNRMC
<1>3. ASSUME NEW k \in 1..Len(b), NEW y, y # EOL, fs[k] = <<y>>
      PROVE  b[k] \in 1..m /\ w[b[k]] = y
  <2>. DEFINE e == IF k = Len(b) THEN m ELSE b[k + 1] - 2
  <2>1. fs[k] = SubSeq(w, b[k], e) /\ e \in Int /\ e <= m
    <3>1. CASE k = Len(b)
      BY <1>0, <1>c5, <3>1
    <3>2. CASE k # Len(b)
      <4>1. k \in 1..(Len(b) - 1) /\ k + 1 \in 2..Len(b) /\ e = b[k + 1] - 2
        BY <1>c1, <1>3, <3>2
      <4>2. b[k + 1] \in 2..(m + 1)
        BY <1>c2, <4>1
      <4>. HIDE DEF e
      <4>. QED BY <1>0, <1>c4, <4>1, <4>2
    <3>. QED BY <3>1, <3>2
  <2>. HIDE DEF e
  <2>2. b[k] \in Nat /\ b[k] >= 1
    <3>1. CASE k = 1
      BY <1>c1, <3>1
    <3>2. CASE k \in 2..Len(b)
      BY <1>0, <1>c2, <3>2
    <3>. QED BY <1>c1, <3>1, <3>2
  <2>3. b[k] \in 1..Len(w) /\ w[b[k]] = y
    <3>1. SubSeq(w, b[k], e) = <<y>> /\ e <= Len(w)
      BY <1>3, <2>1 DEF m
    <3>2. PICK a \in Nat : a = b[k]
      BY <2>2
    <3>3. a >= 1 /\ e \in Int /\ SubSeq(w, a, e) = <<y>> /\ e <= Len(w)
      BY <2>1, <2>2, <3>1, <3>2
    <3>4. a \in 1..Len(w) /\ w[a] = y
      BY <3>3, SubSeqOne
    <3>. QED BY <3>2, <3>4
  <2>. QED BY <2>3 DEF m
<1>4. m >= 1 /\ w[1] = "RMC"
  <2>1. 1 \in 1..Len(b) /\ "RMC" # EOL
    BY <1>c1 DEF EOL
  <2>2. b[1] \in 1..m /\ w[b[1]] = "RMC"
    BY <1>1, <1>3, <2>1, Zenon
  <2>. QED BY <1>0, <1>c1, <2>2
<1>5. f[1] = 1 /\ t[1] = "RMC"
  <2>1. 1 \in 1..m /\ 1 \in 1..n
    BY <1>0, <1>4
  <2>2. f[1] \in Nat /\ Symbol(t, f[1]) = "RMC"
    BY <1>r1, <1>4, <2>1
  <2>3. f[1] # 0
    BY <2>2 DEF Symbol
  <2>4. PICK i \in 1..m : f[i] = 1
    BY <1>r3, <2>1
  <2>5. f[1] <= 1
    <3>1. CASE i = 1
      BY <2>4, <3>1
    <3>2. CASE i # 1
      BY <1>r2, <2>1, <2>4, <3>2
    <3>. QED BY <3>1, <3>2
  <2>6. f[1] = 1
    BY <2>2, <2>3, <2>5
  <2>. QED BY <2>2, <2>6 DEF Symbol
<1>6. s.said \in {"A", "V"} /\ RMC(s.said, t)
  BY <1>5, SentenceAssumption DEF t
<1>7. PICK q \in 3..(n - 1) : /\ t[2] = "," /\ t[q] = "," /\ t[q + 1] = s.said
                              /\ \A i \in 3..(q - 1) : t[i] \notin {",", "A", "V"}
  BY <1>6 DEF RMC, t, n
<1>8. q \in Nat /\ q >= 3 /\ q + 1 <= n /\ q \in 1..n /\ 2 \in 1..n
  <2>1. q \in 3..(n - 1)
    OBVIOUS
  <2>. QED BY <1>0, <2>1
\* Both commas have been read, so there is a third field, and it begins with x
<1>9. PICK i \in 1..m : f[i] = 2
  BY <1>r3, <1>8
<1>10. PICK j \in 1..m : f[j] = q
  BY <1>r3, <1>8
<1>11. i # j /\ Comma(w, i) /\ Comma(w, j)
  <2>1. w[i] = Symbol(t, 2) /\ w[j] = Symbol(t, q) /\ i # j
    BY <1>r1, <1>8, <1>9, <1>10
  <2>2. Symbol(t, 2) = t[2] /\ Symbol(t, q) = t[q]
    BY <1>8 DEF Symbol
  <2>3. Symbol(t, 2) = "," /\ Symbol(t, q) = ","
    BY <1>7, <2>2, Zenon
  <2>. QED BY <2>1, <2>3, Zenon DEF Comma
<1>12. Len(b) \in Nat /\ Len(b) >= 3
  BY <1>0, <1>2, <1>11, <1>c1, ThreeFields
<1>. DEFINE c == b[3] - 1
<1>13. b[3] \in 1..m /\ w[b[3]] = x /\ Comma(w, c) /\ c \in 1..m /\ c + 1 = b[3] /\ c \in Nat
  <2>1. 3 \in 1..Len(b) /\ 3 \in 2..Len(b) /\ x # EOL
    BY <1>12 DEF EOL
  <2>2. b[3] \in 1..m /\ w[b[3]] = x
    BY <1>1, <1>3, <2>1, Zenon
  <2>3. b[3] \in 2..(m + 1) /\ Comma(w, c)
    BY <1>c2, <2>1, Zenon
  <2>4. c \in 1..m /\ c + 1 = b[3] /\ c \in Nat
    BY <1>0, <2>2, <2>3
  <2>. HIDE DEF c
  <2>. QED BY <2>2, <2>3, <2>4
<1>. HIDE DEF c
\* No more than the second comma has been read before the field
<1>14. f[c] \in Nat /\ f[c] <= q
  <2>1. f[c] \in Nat
    BY <1>r1, <1>13
  <2>2. ASSUME f[c] > q PROVE FALSE
    <3>1. j < c /\ i < c
      <4>1. ASSUME NEW k \in 1..m, f[k] \in Nat, f[k] <= q PROVE k < c
        <5>1. CASE k = c
          BY <2>1, <2>2, <4>1, <5>1, <1>8
        <5>2. CASE c < k
          <6>1. f[c] <= f[k]
            BY <1>r2, <1>13, <5>2
          <6>. QED BY <2>1, <2>2, <4>1, <6>1, <1>8
        <5>. QED BY <1>0, <1>13, <5>1, <5>2
      <4>. QED BY <1>8, <1>9, <1>10, <4>1
    <3>2. i < b[3] - 1 /\ j < b[3] - 1
      BY <3>1 DEF c
    <3>3. i = b[2] - 1 /\ j = b[2] - 1
      BY <1>0, <1>2, <1>11, <1>12, <3>2, CommasLemma
    <3>. QED BY <1>11, <3>3
  <2>. QED BY <1>8, <2>1, <2>2
<1>15. f[c + 1] \in Nat /\ f[c + 1] <= q + 1 /\ Symbol(t, f[c + 1]) = x
  <2>1. c + 1 \in 1..m
    BY <1>13
  <2>2. f[c + 1] \in Nat /\ f[c + 1] <= n /\ Symbol(t, f[c + 1]) = x
    BY <1>r1, <1>13, <2>1
  <2>3. ASSUME f[c + 1] > q + 1 PROVE FALSE
    <3>1. q + 1 \in 1..n
      BY <1>0, <1>8
    <3>2. PICK k \in 1..m : f[k] = q + 1
      BY <1>r3, <3>1
    <3>3. CASE k = c
      BY <1>8, <1>14, <3>2, <3>3
    <3>4. CASE k < c
      <4>1. f[k] <= f[c]
        BY <1>r2, <1>13, <3>4
      <4>. QED BY <1>8, <1>14, <3>2, <4>1
    <3>5. CASE k = c + 1
      BY <1>8, <2>3, <3>2, <3>5
    <3>6. CASE c + 1 < k
      <4>1. f[c + 1] <= f[k]
        BY <1>r2, <2>1, <3>6
      <4>. QED BY <1>8, <2>2, <2>3, <3>2, <4>1
    <3>. QED BY <1>0, <1>13, <3>3, <3>4, <3>5, <3>6
  <2>. QED BY <1>8, <2>2, <2>3
\* and x can only be the status
<1>16. f[c + 1] = q + 1
  <2>. DEFINE g == f[c + 1]
  <2>1. g \in Nat /\ g <= q + 1 /\ Symbol(t, g) = x
    BY <1>15
  <2>. HIDE DEF g
  <2>2. g # 0
    BY <2>1 DEF Symbol
  <2>3. t[g] = x
    BY <2>1, <2>2 DEF Symbol
  <2>4. g # 1 /\ g # 2 /\ g # q
    BY <1>5, <1>7, <2>3
  <2>5. g \notin 3..(q - 1)
    BY <1>7, <2>3
  <2>6. g = q + 1
    BY <1>8, <2>1, <2>2, <2>4, <2>5
  <2>. QED BY <2>6 DEF g
<1>17. Symbol(t, q + 1) = s.said
  <2>1. Symbol(t, q + 1) = t[q + 1]
    BY <1>8 DEF Symbol
  <2>. QED BY <1>7, <2>1, Zenon
<1>. QED BY <1>15, <1>16, <1>17

\* A part of one symbol.
LEMMA OnePart ==
  ASSUME NEW Sym, NEW w \in Seq(Sym), NEW a \in 1..Len(w), NEW y, w[a] = y
  PROVE  SubSeq(w, a, a) = <<y>>
<1>1. /\ SubSeq(w, a, a) \in Seq(Sym) /\ Len(SubSeq(w, a, a)) = 1
      /\ SubSeq(w, a, a)[1] = w[a]
  OBVIOUS
<1>2. y \in Sym /\ <<y>> \in Seq(Sym) /\ Len(<<y>>) = 1 /\ <<y>>[1] = y
  OBVIOUS
<1>. DEFINE u == SubSeq(w, a, a)
            v == <<y>>
<1>3. u \in Seq(Sym) /\ v \in Seq(Sym) /\ Len(u) = Len(v) /\ \A i \in 1..Len(u) : u[i] = v[i]
  BY <1>1, <1>2
<1>. HIDE DEF u, v
<1>4. u = v
  BY <1>3, SeqEqual
<1>. QED BY <1>4 DEF u, v

\* Of a sentence without a pause the thread finds the status it told.
LEMMA WholeStatus ==
  ASSUME NEW s \in Sentences, s.said \in {"A", "V"}
  PROVE  Status(StringToArray(s.text)) = <<s.said>>
<1>. DEFINE w == s.text
            m == Len(w)
            fs == StringToArray(w)
<1>0. w \in Seq(Symbols) /\ m \in Nat
  BY SentenceLemma
<1>2. PICK b : Cut(w, m, fs, b)
  BY <1>0, FieldsLemma
<1>c1. b \in Seq(Nat) /\ Len(b) = Len(fs) /\ Len(b) >= 1 /\ b[1] = 1
  BY <1>2, Zenon DEF Cut
<1>c2. \A k \in 2..Len(b) : b[k] \in 2..(m + 1) /\ Comma(w, b[k] - 1)
  BY <1>2, Zenon DEF Cut
<1>c3. \A j, k \in 1..Len(b) : j < k => b[j] < b[k]
  BY <1>2, Zenon DEF Cut
<1>c4. \A k \in 1..(Len(b) - 1) : fs[k] = SubSeq(w, b[k], b[k + 1] - 2)
  BY <1>2, Zenon DEF Cut
<1>c5. fs[Len(b)] = SubSeq(w, b[Len(b)], m)
  BY <1>2, Zenon DEF Cut
<1>c6. \A i \in 1..m : Comma(w, i) => \E k \in 2..Len(b) : b[k] = i + 1
  BY <1>2, Zenon DEF Cut
<1>3. RMC(s.said, w)
  BY SentenceAssumption
<1>4. PICK q \in 3..(m - 1) : /\ w[1] = "RMC" /\ w[2] = "," /\ w[q] = "," /\ w[q + 1] = s.said
                              /\ \A i \in 3..(q - 1) : w[i] \notin {",", "A", "V"}
                              /\ m > q + 1 => w[q + 2] = ","
  BY <1>3 DEF RMC
<1>. HIDE DEF w, m, fs
<1>5. q \in 3..(m - 1)
  OBVIOUS
<1>6. q \in Nat /\ q >= 3 /\ q + 1 <= m /\ q \in 1..m /\ 2 \in 1..m /\ q + 1 \in 1..m /\ 1 \in 1..m
  BY <1>0, <1>5
<1>7. /\ Comma(w, 2) /\ Comma(w, q) /\ ~Comma(w, 1) /\ ~Comma(w, q + 1)
      /\ m > q + 1 => Comma(w, q + 2)
  BY <1>4, Zenon DEF Comma
<1>8. ASSUME NEW i \in 3..(q - 1) PROVE ~Comma(w, i)
  BY <1>4, Zenon DEF Comma
\* The fields begin at 1, 3 and q + 1
<1>9. Len(b) \in Nat /\ Len(b) >= 3
  <2>1. 2 # q
    BY <1>6
  <2>. QED BY <1>0, <1>2, <1>6, <1>7, <1>c1, <2>1, ThreeFields
<1>10. 1 \in 1..Len(b) /\ 2 \in 1..Len(b) /\ 3 \in 1..Len(b) /\ 2 \in 2..Len(b) /\ 3 \in 2..Len(b)
  BY <1>9
<1>11. /\ b[2] \in Nat /\ b[3] \in Nat /\ b[2] >= 2 /\ b[3] <= m + 1 /\ b[2] < b[3]
       /\ Comma(w, b[2] - 1) /\ Comma(w, b[3] - 1)
  BY <1>0, <1>c2, <1>c3, <1>10
<1>12. b[3] = q + 1
  <2>1. b[3] <= q + 1
    <3>1. ASSUME b[3] > q + 1 PROVE FALSE
      <4>1. 2 < b[3] - 1 /\ q < b[3] - 1
        BY <1>6, <1>11, <3>1
      <4>2. 2 = b[2] - 1 /\ q = b[2] - 1
        BY <1>0, <1>2, <1>6, <1>7, <1>9, <4>1, CommasLemma
      <4>. QED BY <1>6, <4>2
    <3>. QED BY <1>6, <1>11, <3>1
  <2>2. PICK i \in Nat : i = b[3] - 1
    BY <1>11
  <2>3. Comma(w, i) /\ i >= 2 /\ i <= q
    BY <1>6, <1>11, <2>1, <2>2
  <2>4. i = 2 \/ i = q
    BY <1>6, <1>8, <2>3
  <2>5. i # 2
    <3>1. ASSUME i = 2 PROVE FALSE
      <4>1. PICK j \in Nat : j = b[2] - 1
        BY <1>11
      <4>2. j = 1 /\ Comma(w, j)
        BY <1>11, <2>2, <3>1, <4>1
      <4>. QED BY <1>7, <4>2
    <3>. QED BY <3>1
  <2>. QED BY <1>11, <2>2, <2>4, <2>5
<1>13. b[2] = 3
  <2>1. 2 < b[3] - 1
    BY <1>6, <1>12
  <2>2. 2 = b[2] - 1
    BY <1>0, <1>2, <1>6, <1>7, <1>9, <2>1, CommasLemma
  <2>. QED BY <1>11, <2>2
<1>14. fs[1] = <<"RMC">>
  <2>1. 1 \in 1..(Len(b) - 1) /\ 1 + 1 = 2 /\ b[2] - 2 = 1
    BY <1>9, <1>13
  <2>2. fs[1] = SubSeq(w, 1, 1)
    BY <1>c1, <1>c4, <2>1
  <2>. QED BY <1>0, <1>4, <1>6, <2>2, OnePart, ZenonT(60) DEF m
<1>15. fs[3] = SubSeq(w, q + 1, q + 1)
  <2>1. CASE Len(b) = 3
    <3>1. m = q + 1
      <4>1. ASSUME m > q + 1 PROVE FALSE
        <5>1. q + 2 \in 1..m /\ Comma(w, q + 2)
          BY <1>0, <1>6, <1>7, <4>1
        <5>2. PICK k \in 2..Len(b) : b[k] = q + 3
          <6>1. (q + 2) + 1 = q + 3
            BY <1>6
          <6>. QED BY <1>c6, <5>1, <6>1
        <5>3. k = 2 \/ k = 3
          BY <2>1, <5>2
        <5>. QED BY <1>6, <1>12, <1>13, <5>2, <5>3
      <4>. QED BY <1>0, <1>6, <4>1
    <3>. QED BY <1>c5, <1>12, <2>1, <3>1
  <2>2. CASE Len(b) # 3
    <3>1. Len(b) >= 4 /\ 4 \in 1..Len(b) /\ 4 \in 2..Len(b) /\ 3 \in 1..(Len(b) - 1) /\ 3 + 1 = 4
      <4>1. PICK len \in Nat : len = Len(b)
        BY <1>9
      <4>2. len >= 4
        BY <1>9, <2>2, <4>1
      <4>3. 4 \in 1..len /\ 4 \in 2..len /\ 3 \in 1..(len - 1) /\ 3 + 1 = 4
        BY <4>2
      <4>. QED BY <4>1, <4>2, <4>3
    <3>2. b[4] \in Nat /\ b[4] <= m + 1 /\ Comma(w, b[4] - 1) /\ b[4] > q + 1
      <4>1. b[4] \in 2..(m + 1) /\ Comma(w, b[4] - 1)
        BY <1>c2, <3>1, Zenon
      <4>2. b[3] < b[4]
        BY <1>c3, <1>10, <3>1
      <4>3. b[4] \in Nat /\ b[4] <= m + 1 /\ b[4] > q + 1
        BY <1>0, <1>6, <1>12, <4>1, <4>2
      <4>. QED BY <4>1, <4>3, Zenon
    <3>3. b[4] # q + 2
      <4>1. ASSUME b[4] = q + 2 PROVE FALSE
        <5>1. b[4] - 1 = q + 1
          BY <1>6, <4>1
        <5>. QED BY <1>7, <3>2, <5>1
      <4>. QED BY <4>1
    <3>4. m > q + 1 /\ q + 2 \in 1..m
      BY <1>0, <1>6, <3>2, <3>3
    <3>5. PICK k \in 2..Len(b) : b[k] = q + 3
      <4>1. (q + 2) + 1 = q + 3
        BY <1>6
      <4>. QED BY <1>c6, <1>7, <3>4, <4>1
    <3>6. ~(4 < k => FALSE) => b[4] < q + 3
      BY <1>c3, <3>1, <3>5
    <3>7. k \in 1..Len(b) /\ k # 2 /\ k # 3
      BY <1>6, <1>9, <1>12, <1>13, <3>5
    <3>8. b[4] = q + 3
      BY <1>6, <1>9, <3>2, <3>3, <3>5, <3>6, <3>7
    <3>9. b[4] - 2 = q + 1
      BY <1>6, <3>8
    <3>. QED BY <1>c4, <1>12, <3>1, <3>9
  <2>. QED BY <2>1, <2>2
<1>16. fs[3] = <<s.said>>
  <2>1. PICK a \in 1..Len(w) : a = q + 1
    BY <1>6 DEF m
  <2>2. w[a] = s.said
    BY <1>4, <2>1
  <2>3. SubSeq(w, a, a) = <<s.said>>
    BY <1>0, <2>2, OnePart
  <2>. QED BY <1>15, <2>1, <2>3
<1>. QED BY <1>14, <1>16 DEF Status, fs, w

\* One more symbol: the next one of the sentence, or the last one again after a pause.
LEMMA ReadsMore ==
  ASSUME NEW text \in Seq(Symbols), NEW w \in Seq(Symbols), NEW p \in 0..Len(text),
         NEW f, Reads(w, text, p, f), NEW j \in 0..Len(text), j = p \/ j = p + 1
  PROVE  Reads(Append(w, Symbol(text, j)), text, j, Append(f, j))
<1>. DEFINE n == Len(w)
            y == Symbol(text, j)
            v == Append(w, y)
            g == Append(f, j)
<1>0. n \in Nat /\ j \in Nat /\ p \in Nat /\ p <= j /\ j <= p + 1
  OBVIOUS
<1>1. y \in Symbols
  <2>1. CASE j = 0
    BY <2>1, StraySymbol DEF Symbol
  <2>2. CASE j # 0
    <3>1. j \in 1..Len(text)
      BY <2>2
    <3>. QED BY <2>2, <3>1 DEF Symbol
  <2>. QED BY <2>1, <2>2
<1>r0. f \in Seq(Nat) /\ Len(f) = n
  BY Zenon DEF Reads
<1>r1. \A i \in 1..n : f[i] \in 0..p /\ w[i] = Symbol(text, f[i])
  BY Zenon DEF Reads
<1>r2. \A i, k \in 1..n : i < k => f[i] <= f[k]
  BY Zenon DEF Reads
<1>r3. \A k \in 1..p : \E i \in 1..n : f[i] = k
  BY Zenon DEF Reads
<1>. HIDE DEF y
<1>2. v \in Seq(Symbols) /\ Len(v) = n + 1 /\ v[n + 1] = y /\ \A i \in 1..n : v[i] = w[i]
  BY <1>1, AppendProperties
<1>. HIDE DEF n, v
<1>3. g \in Seq(Nat) /\ Len(g) = n + 1 /\ g[n + 1] = j /\ \A i \in 1..n : g[i] = f[i]
  BY <1>0, <1>r0, AppendProperties
<1>. HIDE DEF g
<1>4. ASSUME NEW i \in 1..(n + 1) PROVE g[i] \in 0..j /\ v[i] = Symbol(text, g[i])
  <2>1. CASE i = n + 1
    <3>1. v[i] = y /\ g[i] = j
      BY <1>2, <1>3, <2>1
    <3>. QED BY <1>0, <3>1 DEF y
  <2>2. CASE i \in 1..n
    <3>1. v[i] = w[i] /\ g[i] = f[i] /\ f[i] \in 0..p /\ w[i] = Symbol(text, f[i])
      BY <1>2, <1>3, <1>r1, <2>2, Zenon
    <3>2. f[i] \in 0..j
      BY <1>0, <3>1
    <3>. QED BY <3>1, <3>2
  <2>. QED BY <1>0, <2>1, <2>2
<1>5. ASSUME NEW i \in 1..(n + 1), NEW k \in 1..(n + 1), i < k PROVE g[i] <= g[k]
  <2>1. i \in 1..n
    BY <1>0, <1>5
  <2>2. CASE k = n + 1
    <3>1. g[k] = j /\ g[i] \in 0..j
      BY <1>3, <1>4, <2>2
    <3>. QED BY <1>0, <3>1
  <2>3. CASE k \in 1..n
    BY <1>3, <1>r2, <1>5, <2>1, <2>3
  <2>. QED BY <1>0, <2>2, <2>3
<1>6. ASSUME NEW k \in 1..j PROVE \E i \in 1..(n + 1) : g[i] = k
  <2>1. CASE k = j
    <3>1. n + 1 \in 1..(n + 1) /\ g[n + 1] = k
      BY <1>0, <1>3, <2>1
    <3>. QED BY <3>1
  <2>2. CASE k # j
    <3>1. k \in 1..p
      BY <1>0, <2>2
    <3>2. PICK i \in 1..n : f[i] = k
      BY <1>r3, <3>1
    <3>3. i \in 1..(n + 1) /\ g[i] = k
      BY <1>0, <1>3, <3>2
    <3>. QED BY <3>3
  <2>. QED BY <2>1, <2>2
<1>7. Reads(v, text, j, g)
  BY <1>2, <1>3, <1>4, <1>5, <1>6, Zenon DEF Reads
<1>. QED BY <1>7 DEF v, g, y

\* Nothing of the sentence has been read, and stray characters perhaps.
LEMMA ReadsNothing ==
  ASSUME NEW text, NEW w \in Seq(Symbols), \A i \in 1..Len(w) : w[i] = "stray"
  PROVE  \E f : Reads(w, text, 0, f)
<1>. DEFINE f == [i \in 1..Len(w) |-> 0]
<1>1. Len(w) \in Nat
  OBVIOUS
<1>2. f \in Seq(Nat) /\ Len(f) = Len(w) /\ \A i \in 1..Len(w) : f[i] = 0
  BY <1>1
<1>. HIDE DEF f
<1>3. Symbol(text, 0) = "stray"
  BY DEF Symbol
<1>4. \A i \in 1..Len(w) : f[i] \in 0..0 /\ w[i] = Symbol(text, f[i])
  BY <1>2, <1>3
<1>5. \A i, j \in 1..Len(w) : i < j => f[i] <= f[j]
  BY <1>2
<1>6. \A k \in 1..0 : \E i \in 1..Len(w) : f[i] = k
  OBVIOUS
<1>. QED BY <1>2, <1>4, <1>5, <1>6, Zenon DEF Reads

\* Between sentences the line is empty, but for stray characters at the beginning
Quiet(ln, wr, c, hurt) ==
  /\ wr = <<>> /\ \A i \in 1..Len(ln) : ln[i] = "stray"
  /\ c \in {"stray", EOL} /\ (c = EOL => ln = <<>>) /\ (hurt = FALSE => ln = <<>>)

\* p symbols of the sentence s have been read, and c is the last one
Within(s, p, f, ln, wr, c, said, hurt) ==
  /\ said = s.said /\ wr = Rest(s.text, p) /\ Reads(ln, s.text, p, f)
  /\ c = Symbol(s.text, p) \/ (p = 0 /\ c = EOL)
  /\ c = EOL => ln = <<>>
  /\ hurt = FALSE => ln = SubSeq(s.text, 1, p)

Listens(ln, wr, c, said, hurt) ==
  \/ Quiet(ln, wr, c, hurt)
  \/ \E s \in Sentences : \E p \in 0..Len(s.text) : \E f : Within(s, p, f, ln, wr, c, said, hurt)

\* A sentence begins.
LEMMA SendLemma ==
  ASSUME NEW ln \in Seq(Symbols), NEW wr, NEW c, NEW hurt, Quiet(ln, wr, c, hurt), NEW s \in Sentences
  PROVE  Listens(ln, Append(s.text, EOL), c, s.said, hurt)
<1>1. s.text \in Seq(Symbols) /\ Len(s.text) \in Nat
  BY SentenceLemma
<1>2. 0 \in 0..Len(s.text) /\ Rest(s.text, 0) = Append(s.text, EOL)
  BY <1>1, RestLemma
<1>3. PICK f : Reads(ln, s.text, 0, f)
  BY ReadsNothing DEF Quiet
<1>4. SubSeq(s.text, 1, 0) = <<>>
  BY <1>1
<1>5. c = Symbol(s.text, 0) \/ (0 = 0 /\ c = EOL)
  BY DEF Quiet, Symbol
<1>6. Within(s, 0, f, ln, Append(s.text, EOL), c, s.said, hurt)
  BY <1>2, <1>3, <1>4, <1>5, Zenon DEF Within, Quiet
<1>. QED BY <1>2, <1>6, Zenon DEF Listens

\* A symbol comes.
LEMMA SymbolLemma ==
  ASSUME NEW ln \in Seq(Symbols), NEW wr, NEW c, NEW said, NEW hurt, NEW s \in Sentences,
         NEW p \in 0..Len(s.text), NEW f, Within(s, p, f, ln, wr, c, said, hurt), p # Len(s.text)
  PROVE  /\ Head(wr) # EOL /\ Append(ln, Head(wr)) \in Seq(Symbols)
         /\ Listens(Append(ln, Head(wr)), Tail(wr), Head(wr), said, hurt)
<1>. DEFINE t == s.text
<1>0. t \in Seq(Symbols) /\ Len(t) \in Nat /\ \A i \in 1..Len(t) : t[i] \in Symbols /\ t[i] # EOL
  BY SentenceLemma
<1>w. said = s.said /\ wr = Rest(t, p) /\ Reads(ln, t, p, f) /\ (hurt = FALSE => ln = SubSeq(t, 1, p))
  BY Zenon DEF Within
<1>. HIDE DEF t
<1>1. p < Len(t) /\ p + 1 \in 1..Len(t) /\ p + 1 \in 0..Len(t) /\ p \in 0..Len(t) /\ p + 1 # 0
  BY <1>0 DEF t
<1>2. Head(wr) = t[p + 1] /\ Tail(wr) = Rest(t, p + 1)
  BY <1>0, <1>1, <1>w, RestLemma
<1>3. Head(wr) \in Symbols /\ Head(wr) # EOL
  BY <1>0, <1>1, <1>2
<1>4. Symbol(t, p + 1) = Head(wr)
  BY <1>1, <1>2 DEF Symbol
<1>5. PICK j \in 0..Len(t) : j = p + 1
  BY <1>1
<1>6. Reads(Append(ln, Symbol(t, j)), t, j, Append(f, j))
  BY <1>0, <1>1, <1>5, <1>w, ReadsMore
<1>7. hurt = FALSE => Append(ln, Head(wr)) = SubSeq(t, 1, j)
  <2>1. ASSUME hurt = FALSE PROVE Append(ln, Head(wr)) = SubSeq(t, 1, j)
    <3>1. j \in 1..Len(t) /\ 1 \in 1..j /\ j - 1 = p
      BY <1>1, <1>5
    <3>2. Append(SubSeq(t, 1, j - 1), t[j]) = SubSeq(t, 1, j)
      BY <1>0, <3>1, LongerPart
    <3>. QED BY <1>2, <1>5, <1>w, <2>1, <3>1, <3>2
  <2>. QED BY <2>1
<1>8. Within(s, j, Append(f, j), Append(ln, Head(wr)), Tail(wr), Head(wr), said, hurt)
  BY <1>2, <1>3, <1>4, <1>5, <1>6, <1>7, <1>w, Zenon DEF Within, t
<1>9. Listens(Append(ln, Head(wr)), Tail(wr), Head(wr), said, hurt)
  BY <1>8, Zenon DEF Listens, t
<1>10. Append(ln, Head(wr)) \in Seq(Symbols)
  BY <1>3, AppendProperties
<1>. QED BY <1>3, <1>9, <1>10

\* The line end comes.
LEMMA EndLemma ==
  ASSUME NEW ln \in Seq(Symbols), NEW wr, NEW c, NEW said, NEW hurt, NEW s \in Sentences,
         NEW f, Within(s, Len(s.text), f, ln, wr, c, said, hurt)
  PROVE  /\ Head(wr) = EOL /\ Tail(wr) = <<>> /\ ln # <<>> /\ Listens(<<>>, <<>>, EOL, said, FALSE)
         /\ said \in {"A", "V", "no"}
         /\ \A x \in {"A", "V"} : Status(StringToArray(ln)) = <<x>> => said = x
         /\ hurt = FALSE /\ said # "no" => Status(StringToArray(ln)) = <<said>>
<1>. DEFINE t == s.text
            n == Len(s.text)
<1>0. t \in Seq(Symbols) /\ n \in Nat /\ n >= 1 /\ s.said \in {"A", "V", "no"}
  BY SentenceLemma
<1>w. said = s.said /\ wr = Rest(t, n) /\ Reads(ln, t, n, f) /\ (hurt = FALSE => ln = SubSeq(t, 1, n))
  BY Zenon DEF Within
<1>1. Head(wr) = EOL /\ Tail(wr) = <<>>
  BY <1>0, <1>w, RestLemma
<1>2. ln # <<>>
  <2>1. \A k \in 1..n : \E i \in 1..Len(ln) : f[i] = k
    BY <1>w, Zenon DEF Reads
  <2>2. 1 \in 1..n
    BY <1>0
  <2>3. PICK i \in 1..Len(ln) : f[i] = 1
    BY <2>1, <2>2, Zenon
  <2>. QED BY <2>3
<1>3. Listens(<<>>, <<>>, EOL, said, FALSE)
  <2>1. \A i \in 1..Len(<<>>) : <<>>[i] = "stray"
    OBVIOUS
  <2>. QED BY <2>1, Zenon DEF Listens, Quiet
<1>4. ASSUME NEW x \in {"A", "V"}, Status(StringToArray(ln)) = <<x>> PROVE said = x
  BY <1>4, <1>w, NoStatusMadeUp
<1>5. ASSUME hurt = FALSE, said # "no" PROVE Status(StringToArray(ln)) = <<said>>
  <2>1. ln = t
    <3>1. SubSeq(t, 1, n) = t
      BY <1>0
    <3>. QED BY <1>5, <1>w, <3>1
  <2>2. s.said \in {"A", "V"}
    BY <1>0, <1>5, <1>w
  <2>3. Status(StringToArray(t)) = <<s.said>>
    BY <2>2, WholeStatus
  <2>. QED BY <1>w, <2>1, <2>3
<1>. QED BY <1>0, <1>1, <1>2, <1>3, <1>4, <1>5, <1>w

\* Three seconds of silence: ch once more, unless it is a line end, which no line follows.
LEMMA PauseLemma ==
  ASSUME NEW ln \in Seq(Symbols), NEW wr, NEW c, NEW said, NEW hurt, Listens(ln, wr, c, said, hurt)
  PROVE  /\ c = EOL => ln = <<>>
         /\ c # EOL => Append(ln, c) \in Seq(Symbols) /\ Listens(Append(ln, c), wr, c, said, TRUE)
<1>1. CASE Quiet(ln, wr, c, hurt)
  <2>1. c = EOL => ln = <<>>
    BY <1>1 DEF Quiet
  <2>2. ASSUME c # EOL PROVE Append(ln, c) \in Seq(Symbols) /\ Listens(Append(ln, c), wr, c, said, TRUE)
    <3>1. c = "stray" /\ c \in Symbols /\ wr = <<>> /\ \A i \in 1..Len(ln) : ln[i] = "stray"
      BY <1>1, <2>2, StraySymbol DEF Quiet
    <3>. DEFINE v == Append(ln, c)
    <3>2. v \in Seq(Symbols) /\ Len(v) = Len(ln) + 1 /\ v[Len(ln) + 1] = c /\ \A i \in 1..Len(ln) : v[i] = ln[i]
      BY <3>1, AppendProperties
    <3>. HIDE DEF v
    <3>3. \A i \in 1..Len(v) : v[i] = "stray"
      BY <3>1, <3>2
    <3>4. Quiet(v, wr, c, TRUE)
      BY <2>2, <3>1, <3>3, Zenon DEF Quiet
    <3>. QED BY <3>2, <3>4, Zenon DEF Listens, v
  <2>. QED BY <2>1, <2>2
<1>2. ASSUME NEW s \in Sentences, NEW p \in 0..Len(s.text), NEW f, Within(s, p, f, ln, wr, c, said, hurt)
      PROVE  /\ c = EOL => ln = <<>>
             /\ c # EOL => Append(ln, c) \in Seq(Symbols) /\ Listens(Append(ln, c), wr, c, said, TRUE)
  <2>0. s.text \in Seq(Symbols) /\ Len(s.text) \in Nat
    BY SentenceLemma
  <2>1. c = EOL => ln = <<>>
    BY <1>2, Zenon DEF Within
  <2>2. ASSUME c # EOL PROVE Append(ln, c) \in Seq(Symbols) /\ Listens(Append(ln, c), wr, c, said, TRUE)
    <3>1. c = Symbol(s.text, p) /\ Reads(ln, s.text, p, f) /\ said = s.said /\ wr = Rest(s.text, p)
      BY <1>2, <2>2, Zenon DEF Within
    <3>2. Reads(Append(ln, c), s.text, p, Append(f, p))
      BY <2>0, <3>1, ReadsMore
    <3>3. c \in Symbols
      <4>1. CASE p = 0
        BY <3>1, <4>1, StraySymbol DEF Symbol
      <4>2. CASE p # 0
        <5>1. p \in 1..Len(s.text)
          BY <2>0, <4>2
        <5>. QED BY <2>0, <3>1, <4>2, <5>1 DEF Symbol
      <4>. QED BY <4>1, <4>2
    <3>4. Within(s, p, Append(f, p), Append(ln, c), wr, c, said, TRUE)
      BY <2>2, <3>1, <3>2, Zenon DEF Within
    <3>5. Append(ln, c) \in Seq(Symbols)
      BY <3>3, AppendProperties
    <3>. QED BY <1>2, <3>4, <3>5, Zenon DEF Listens
  <2>. QED BY <2>1, <2>2
<1>. QED BY <1>1, <1>2, Zenon DEF Listens

-----------------------------------------------------------------------------
(* The inductive invariant.                                                *)

SkyType == [said : {"A", "V", "no"}, hurt : BOOLEAN, may : SUBSET BOOLEAN, start : BOOLEAN,
            fixes : Nat, damaged : Nat, sent : Nat, pauses : Nat]
CallType == [waits : Nat, fixes : Int, window : BOOLEAN, late : BOOLEAN, unasked : BOOLEAN]

GpsTypes ==
  /\ is_positioning_ \in BOOLEAN /\ line \in Seq(Symbols)
  /\ reader \in {"off", "read", "signal"} /\ waiter \in {"idle", "lock", "wait", "woken"}
  /\ sky \in SkyType /\ call \in CallType

\* A sentence with a fix has been read, perhaps with a pause
Fixed == sky.fixes + sky.damaged > 0

\* Whoever sets the flag, signals or wakes the caller has read a fix, and a caller who waits has
\* missed a fix only in the window, or is about to hear of it
Waiting ==
  /\ is_positioning_ = TRUE => Fixed \/ sky.start = TRUE
  /\ reader = "signal" => Fixed
  /\ waiter = "woken" => Fixed \/ call.unasked = TRUE
  /\ waiter \in {"lock", "wait"} =>
       /\ call.fixes <= sky.fixes
       /\ call.fixes < sky.fixes => call.window = TRUE \/ reader = "signal"

GpsInv ==
  /\ GpsTypes
  /\ Listens(line, wire, ch, sky.said, sky.hurt)
  /\ is_positioning_ \in sky.may
  /\ Waiting
  /\ WaitIsRight

\* It holds at first.
LEMMA GpsInitInv == GpsInit => GpsInv
<1>1. SUFFICES ASSUME GpsInit PROVE GpsInv
  OBVIOUS
<1>2. GpsTypes
  <2>1. is_positioning_ \in BOOLEAN /\ {is_positioning_} \in SUBSET BOOLEAN
    BY <1>1, Zenon DEF GpsInit
  <2>2. sky \in SkyType
    BY <1>1, <2>1 DEF GpsInit, SkyType
  <2>3. call \in CallType
    BY <1>1 DEF GpsInit, CallType
  <2>4. line \in Seq(Symbols) /\ reader \in {"off", "read", "signal"} /\ waiter \in {"idle", "lock", "wait", "woken"}
    BY <1>1 DEF GpsInit
  <2>. QED BY <2>1, <2>2, <2>3, <2>4 DEF GpsTypes
<1>3. Listens(line, wire, ch, sky.said, sky.hurt)
  <2>1. wire = <<>> /\ line = <<>> /\ ch = "stray"
    BY <1>1 DEF GpsInit
  <2>2. \A i \in 1..Len(line) : line[i] = "stray"
    BY <2>1
  <2>3. ch # EOL
    BY <2>1 DEF EOL
  <2>4. Quiet(line, wire, ch, sky.hurt)
    BY <2>1, <2>2, <2>3, Zenon DEF Quiet
  <2>. QED BY <2>4, Zenon DEF Listens
<1>4. sky.start = is_positioning_ /\ sky.may = {is_positioning_} /\ sky.fixes = 0 /\ sky.damaged = 0
  BY <1>1 DEF GpsInit
<1>5. is_positioning_ \in sky.may
  BY <1>4, Zenon
<1>6. Waiting /\ WaitIsRight
  BY <1>1, <1>4 DEF GpsInit, Waiting, WaitIsRight
<1>. QED BY <1>2, <1>3, <1>5, <1>6 DEF GpsInv

\* Fields of a record, under a name
LEMMA SkyFields ==
  ASSUME NEW k \in SkyType
  PROVE  /\ k.said \in {"A", "V", "no"} /\ k.hurt \in BOOLEAN /\ k.may \in SUBSET BOOLEAN
         /\ k.start \in BOOLEAN /\ k.fixes \in Nat /\ k.damaged \in Nat /\ k.sent \in Nat /\ k.pauses \in Nat
BY DEF SkyType

\* The same for a call's history.
LEMMA CallFields ==
  ASSUME NEW k \in CallType
  PROVE  /\ k.waits \in Nat /\ k.fixes \in Int /\ k.window \in BOOLEAN /\ k.late \in BOOLEAN
         /\ k.unasked \in BOOLEAN
BY DEF CallType

\* A step that leaves the reader alone and does not touch the history of the sentences.
LEMMA WaiterKeeps ==
  ASSUME GpsInv, UNCHANGED <<is_positioning_, wire, ch, line, sky>>,
         reader' \in {"off", "read", "signal"}, waiter' \in {"idle", "lock", "wait", "woken"},
         call' \in CallType, Waiting', WaitIsRight'
  PROVE  GpsInv'
<1>1. GpsTypes'
  BY DEF GpsInv, GpsTypes
<1>2. Listens(line, wire, ch, sky.said, sky.hurt)' /\ (is_positioning_ \in sky.may)'
  BY DEF GpsInv
<1>. QED BY <1>1, <1>2 DEF GpsInv

\* A sentence is sent only between sentences.
LEMMA SendInv == ASSUME GpsInv, NEW s \in Sentences, SendSentence(s) PROVE GpsInv'
<1>0. sky \in SkyType /\ line \in Seq(Symbols)
  BY DEF GpsInv, GpsTypes
<1>1. Quiet(line, wire, ch, sky.hurt)
  <2>1. ASSUME NEW z \in Sentences, NEW p \in 0..Len(z.text), NEW f,
               Within(z, p, f, line, wire, ch, sky.said, sky.hurt)
        PROVE  FALSE
    <3>1. wire = Rest(z.text, p) /\ wire = <<>>
      BY <2>1, Zenon DEF Within, SendSentence
    <3>2. z.text \in Seq(Symbols)
      BY SentenceLemma
    <3>. QED BY <2>1, <3>1, <3>2, RestLemma
  <2>. QED BY <2>1, Zenon DEF GpsInv, Listens
<1>2. s.said \in {"A", "V", "no"}
  BY SentenceLemma
<1>3. sky.sent \in Nat /\ sky.sent + 1 \in Nat
  BY <1>0, SkyFields
<1>4. /\ sky' = [sky EXCEPT !.sent = sky.sent + 1, !.said = s.said]
      /\ wire' = Append(s.text, EOL) /\ line' = line /\ ch' = ch
      /\ UNCHANGED <<is_positioning_, reader, waiter, result, call>>
  BY DEF SendSentence
<1>5. sky' \in SkyType
  BY <1>0, <1>2, <1>3, <1>4 DEF SkyType
<1>6. /\ sky'.said = s.said /\ sky'.hurt = sky.hurt /\ sky'.may = sky.may /\ sky'.start = sky.start
      /\ sky'.fixes = sky.fixes /\ sky'.damaged = sky.damaged
  BY <1>0, <1>4 DEF SkyType
<1>7. Listens(line', wire', ch', sky'.said, sky'.hurt)
  <2>1. Listens(line, Append(s.text, EOL), ch, s.said, sky.hurt)
    BY <1>0, <1>1, SendLemma
  <2>. QED BY <1>4, <1>6, <2>1
<1>8. GpsTypes'
  BY <1>4, <1>5 DEF GpsInv, GpsTypes
<1>9. (is_positioning_ \in sky.may)'
  BY <1>4, <1>6 DEF GpsInv
<1>10. Waiting' /\ WaitIsRight'
  BY <1>4, <1>6 DEF GpsInv, Waiting, WaitIsRight, Fixed
<1>. QED BY <1>7, <1>8, <1>9, <1>10 DEF GpsInv

\* The next symbol of a sentence.
LEMMA ReadSymbolInv ==
  ASSUME GpsInv, ReadChar, NEW s \in Sentences, NEW p \in 0..Len(s.text), NEW f,
         Within(s, p, f, line, wire, ch, sky.said, sky.hurt), p # Len(s.text)
  PROVE  GpsInv'
<1>0. line \in Seq(Symbols)
  BY DEF GpsInv, GpsTypes
<1>1. /\ Head(wire) # EOL /\ Append(line, Head(wire)) \in Seq(Symbols)
      /\ Listens(Append(line, Head(wire)), Tail(wire), Head(wire), sky.said, sky.hurt)
  BY <1>0, SymbolLemma
<1>2. /\ line' = Append(line, Head(wire)) /\ wire' = Tail(wire) /\ ch' = Head(wire)
      /\ UNCHANGED <<is_positioning_, reader, sky, waiter, result, call>>
  BY <1>1 DEF ReadChar, Process
<1>3. Listens(line', wire', ch', sky'.said, sky'.hurt)
  BY <1>1, <1>2
<1>4. GpsTypes'
  BY <1>1, <1>2 DEF GpsInv, GpsTypes
<1>5. (is_positioning_ \in sky.may)' /\ Waiting' /\ WaitIsRight'
  BY <1>2 DEF GpsInv, Waiting, WaitIsRight, Fixed
<1>. QED BY <1>3, <1>4, <1>5 DEF GpsInv

\* The line end: the flag follows what the sentence told.
LEMMA ReadEndInv ==
  ASSUME GpsInv, ReadChar, NEW s \in Sentences, NEW f,
         Within(s, Len(s.text), f, line, wire, ch, sky.said, sky.hurt)
  PROVE  GpsInv'
<1>. DEFINE st == Status(StringToArray(line))
            more == IF sky.said = "A" /\ ~sky.hurt THEN 1 ELSE 0
            worse == IF sky.said = "A" /\ sky.hurt THEN 1 ELSE 0
            may == IF sky.said = "no" THEN sky.may
                   ELSE (IF sky.hurt THEN sky.may ELSE {}) \cup {sky.said = "A"}
<1>0. /\ line \in Seq(Symbols) /\ sky \in SkyType /\ call \in CallType
      /\ is_positioning_ \in BOOLEAN /\ is_positioning_ \in sky.may
  BY DEF GpsInv, GpsTypes
<1>f. /\ sky.said \in {"A", "V", "no"} /\ sky.hurt \in BOOLEAN /\ sky.may \in SUBSET BOOLEAN
      /\ sky.fixes \in Nat /\ sky.damaged \in Nat /\ sky.start \in BOOLEAN
  BY <1>0, SkyFields
<1>1. /\ Head(wire) = EOL /\ Tail(wire) = <<>> /\ line # <<>> /\ Listens(<<>>, <<>>, EOL, sky.said, FALSE)
      /\ \A x \in {"A", "V"} : st = <<x>> => sky.said = x
      /\ sky.hurt = FALSE /\ sky.said # "no" => st = <<sky.said>>
  BY <1>0, EndLemma
<1>2. /\ line' = <<>> /\ wire' = <<>> /\ ch' = EOL
      /\ OnGPSReceived(StringToArray(line)) /\ sky' = Ended
      /\ UNCHANGED <<waiter, result, call>>
  BY <1>1 DEF ReadChar, Process
<1>3. /\ is_positioning_' = CASE st = <<"A">> -> TRUE [] st = <<"V">> -> FALSE [] OTHER -> is_positioning_
      /\ reader' = IF st = <<"A">> THEN "signal" ELSE "read"
  BY <1>2 DEF OnGPSReceived
<1>4. sky' = [sky EXCEPT !.hurt = FALSE, !.may = may, !.fixes = sky.fixes + more, !.damaged = sky.damaged + worse]
  BY <1>2, Zenon DEF Ended
<1>. HIDE DEF st
<1>5. more \in Nat /\ worse \in Nat /\ may \in SUBSET BOOLEAN
  <2>1. more \in Nat /\ worse \in Nat
    OBVIOUS
  <2>2. (sky.said = "A") \in BOOLEAN
    BY Zenon
  <2>3. may \in SUBSET BOOLEAN
    BY <1>f, <2>2, Zenon
  <2>. QED BY <2>1, <2>3
<1>6. /\ st = <<"A">> => sky.said = "A"
      /\ st = <<"V">> => sky.said = "V"
      /\ <<"A">> # <<"V">>
  <2>1. <<"A">>[1] = "A" /\ <<"V">>[1] = "V" /\ "A" # "V"
    OBVIOUS
  <2>2. <<"A">> # <<"V">>
    BY <2>1
  <2>. QED BY <1>1, <2>2
<1>7. /\ st = <<"A">> => is_positioning_' = TRUE /\ reader' = "signal"
      /\ st # <<"A">> => reader' = "read"
      /\ st = <<"V">> => is_positioning_' = FALSE
      /\ st # <<"A">> /\ st # <<"V">> => is_positioning_' = is_positioning_
  <2>1. st = <<"A">> => is_positioning_' = TRUE
    BY <1>3, <1>6, Zenon
  <2>2. st = <<"V">> => is_positioning_' = FALSE
    BY <1>3, <1>6, Zenon
  <2>3. st # <<"A">> /\ st # <<"V">> => is_positioning_' = is_positioning_
    BY <1>3, Zenon
  <2>. QED BY <1>3, <2>1, <2>2, <2>3, Zenon
<1>8. is_positioning_' \in BOOLEAN /\ reader' \in {"signal", "read"}
  BY <1>0, <1>7, Zenon
<1>9. is_positioning_' \in may
  <2>1. CASE sky.said = "no"
    <3>1. st # <<"A">> /\ st # <<"V">>
      BY <1>6, <2>1
    <3>2. may = sky.may
      BY <2>1, Zenon
    <3>. QED BY <1>0, <1>7, <3>1, <3>2, Zenon
  <2>2. CASE sky.said # "no" /\ sky.hurt = TRUE
    <3>1. may = sky.may \cup {sky.said = "A"}
      BY <2>2, Zenon
    <3>2. CASE st = <<"A">>
      <4>1. (sky.said = "A") = TRUE /\ is_positioning_' = TRUE
        BY <1>6, <1>7, <3>2, Zenon
      <4>. QED BY <3>1, <4>1, Zenon
    <3>3. CASE st = <<"V">>
      <4>1. sky.said # "A"
        BY <1>6, <3>3
      <4>2. (sky.said = "A") = FALSE /\ is_positioning_' = FALSE
        BY <1>7, <3>3, <4>1, Zenon
      <4>. QED BY <3>1, <4>2, Zenon
    <3>4. CASE st # <<"A">> /\ st # <<"V">>
      BY <1>0, <1>7, <3>1, <3>4, Zenon
    <3>. QED BY <3>2, <3>3, <3>4, Zenon
  <2>3. CASE sky.said # "no" /\ sky.hurt = FALSE
    <3>1. may = {sky.said = "A"}
      BY <2>3, Zenon
    <3>2. st = <<sky.said>>
      BY <1>1, <2>3
    <3>3. CASE sky.said = "A"
      <4>1. (sky.said = "A") = TRUE /\ is_positioning_' = TRUE
        BY <1>7, <3>2, <3>3, Zenon
      <4>. QED BY <3>1, <4>1, Zenon
    <3>4. CASE sky.said = "V"
      <4>1. sky.said # "A"
        BY <3>4
      <4>2. (sky.said = "A") = FALSE /\ is_positioning_' = FALSE
        BY <1>7, <3>2, <3>4, <4>1, Zenon
      <4>. QED BY <3>1, <4>2, Zenon
    <3>. QED BY <1>f, <2>3, <3>3, <3>4
  <2>. QED BY <1>f, <2>1, <2>2, <2>3, Zenon
<1>10. /\ st = <<"A">> => more + worse > 0
       /\ more > 0 => st = <<"A">>
  <2>1. CASE sky.hurt = TRUE
    <3>1. more = 0 /\ (sky.said = "A" => worse = 1)
      BY <2>1, Zenon
    <3>. HIDE DEF more, worse
    <3>. QED BY <1>6, <3>1
  <2>2. CASE sky.hurt = FALSE
    <3>1. worse = 0 /\ (sky.said = "A" => more = 1) /\ (sky.said # "A" => more = 0)
      BY <2>2, Zenon
    <3>2. sky.said = "A" => st = <<"A">>
      BY <1>1, <2>2
    <3>. HIDE DEF more, worse
    <3>. QED BY <1>6, <3>1, <3>2
  <2>. QED BY <1>f, <2>1, <2>2, Zenon
<1>. HIDE DEF more, worse, may
<1>11. sky' \in SkyType
  <2>1. sky.fixes + more \in Nat /\ sky.damaged + worse \in Nat
    BY <1>f, <1>5
  <2>. QED BY <1>0, <1>4, <1>5, <2>1 DEF SkyType
<1>12. /\ sky'.said = sky.said /\ sky'.hurt = FALSE /\ sky'.may = may /\ sky'.start = sky.start
       /\ sky'.fixes = sky.fixes + more /\ sky'.damaged = sky.damaged + worse
  BY <1>0, <1>4 DEF SkyType
<1>13. Listens(line', wire', ch', sky'.said, sky'.hurt)
  BY <1>1, <1>2, <1>12
<1>14. GpsTypes'
  <2>1. line' \in Seq(Symbols) /\ reader' \in {"off", "read", "signal"} /\ waiter' = waiter /\ call' = call
    BY <1>2, <1>8
  <2>. QED BY <1>8, <1>11, <2>1 DEF GpsInv, GpsTypes
<1>15. (is_positioning_ \in sky.may)'
  BY <1>9, <1>12
<1>16. reader = "read"
  BY DEF ReadChar
<1>17. Waiting'
  <2>1. (Fixed)' <=> sky.fixes + more + (sky.damaged + worse) > 0
    BY <1>12 DEF Fixed
  <2>2. Fixed => (Fixed)'
    BY <1>f, <1>5, <2>1 DEF Fixed
  <2>3. st = <<"A">> => (Fixed)'
    BY <1>f, <1>5, <1>10, <2>1
  <2>4. is_positioning_' = TRUE => is_positioning_ = TRUE \/ st = <<"A">>
    BY <1>7, Zenon
  <2>5. (is_positioning_ = TRUE => Fixed \/ sky.start = TRUE)'
    BY <1>12, <2>2, <2>3, <2>4, Zenon DEF GpsInv, Waiting
  <2>6. (reader = "signal" => Fixed)'
    BY <1>7, <2>3
  <2>7. (waiter = "woken" => Fixed \/ call.unasked = TRUE)'
    BY <1>2, <2>2 DEF GpsInv, Waiting
  <2>8. (waiter \in {"lock", "wait"} =>
          /\ call.fixes <= sky.fixes
          /\ call.fixes < sky.fixes => call.window = TRUE \/ reader = "signal")'
    <3>1. SUFFICES ASSUME waiter \in {"lock", "wait"}
                   PROVE  /\ call.fixes <= sky.fixes + more
                          /\ call.fixes < sky.fixes + more => call.window = TRUE \/ reader' = "signal"
      BY <1>2, <1>12
    <3>2. call.fixes \in Int /\ call.fixes <= sky.fixes /\ (call.fixes < sky.fixes => call.window = TRUE)
      BY <1>0, <1>16, <3>1, CallFields DEF GpsInv, Waiting
    <3>3. more > 0 => reader' = "signal"
      BY <1>7, <1>10
    <3>. QED BY <1>f, <1>5, <3>2, <3>3
  <2>. QED BY <2>5, <2>6, <2>7, <2>8 DEF Waiting
<1>18. WaitIsRight'
  <2>1. sky.fixes + sky.damaged > 0 => sky'.fixes + sky'.damaged > 0
    BY <1>f, <1>5, <1>12
  <2>. QED BY <1>2, <1>12, <2>1 DEF GpsInv, WaitIsRight
<1>. QED BY <1>13, <1>14, <1>15, <1>17, <1>18 DEF GpsInv

\* A character is read.
LEMMA ReadInv == ASSUME GpsInv, ReadChar PROVE GpsInv'
<1>1. ~Quiet(line, wire, ch, sky.hurt)
  BY Zenon DEF Quiet, ReadChar
<1>2. PICK s \in Sentences : \E p \in 0..Len(s.text) : \E f : Within(s, p, f, line, wire, ch, sky.said, sky.hurt)
  BY <1>1, Zenon DEF GpsInv, Listens
<1>3. PICK p \in 0..Len(s.text) : \E f : Within(s, p, f, line, wire, ch, sky.said, sky.hurt)
  BY <1>2, Zenon
<1>w. PICK f : Within(s, p, f, line, wire, ch, sky.said, sky.hurt)
  BY <1>3, Zenon
<1>4. CASE p = Len(s.text)
  <2>1. Within(s, Len(s.text), f, line, wire, ch, sky.said, sky.hurt)
    BY <1>w, <1>4, Zenon
  <2>. QED BY <2>1, ReadEndInv
<1>5. CASE p # Len(s.text)
  BY <1>w, <1>5, ReadSymbolInv
<1>. QED BY <1>4, <1>5

\* Silence: a line end changes nothing, and any other character only what has been read.
LEMMA PauseInv == ASSUME GpsInv, ReadNothing PROVE GpsInv'
<1>0. /\ line \in Seq(Symbols) /\ sky \in SkyType /\ Listens(line, wire, ch, sky.said, sky.hurt)
      /\ is_positioning_ \in BOOLEAN /\ is_positioning_ \in sky.may
  BY DEF GpsInv, GpsTypes
<1>f. sky.hurt \in BOOLEAN /\ sky.pauses \in Nat
  BY <1>0, SkyFields
<1>1. /\ ch = EOL => line = <<>>
      /\ ch # EOL => Append(line, ch) \in Seq(Symbols) /\ Listens(Append(line, ch), wire, ch, sky.said, TRUE)
  BY <1>0, PauseLemma
<1>. DEFINE hurt == sky.hurt \/ ch # EOL
<1>2. /\ sky' = [sky EXCEPT !.pauses = sky.pauses + 1, !.hurt = hurt]
      /\ UNCHANGED <<wire, ch, waiter, result, call>>
  BY Zenon DEF ReadNothing
<1>3. UNCHANGED <<is_positioning_, reader>> /\ line' = IF ch # EOL THEN Append(line, ch) ELSE line
  <2>1. Process(ch)
    BY DEF ReadNothing
  <2>2. CASE ch = EOL
    BY <1>1, <2>1, <2>2 DEF Process
  <2>3. CASE ch # EOL
    BY <2>1, <2>3 DEF Process
  <2>. QED BY <2>2, <2>3
<1>4. hurt \in BOOLEAN /\ (ch = EOL => hurt = sky.hurt) /\ (ch # EOL => hurt = TRUE)
  BY <1>f, Zenon
<1>. HIDE DEF hurt
<1>5. sky' \in SkyType
  <2>1. sky.pauses + 1 \in Nat
    BY <1>f
  <2>. QED BY <1>0, <1>2, <1>4, <2>1 DEF SkyType
<1>6. /\ sky'.said = sky.said /\ sky'.hurt = hurt /\ sky'.may = sky.may /\ sky'.start = sky.start
      /\ sky'.fixes = sky.fixes /\ sky'.damaged = sky.damaged
  BY <1>0, <1>2 DEF SkyType
<1>7. Listens(line', wire', ch', sky'.said, sky'.hurt)
  <2>1. CASE ch = EOL
    <3>1. line' = line /\ wire' = wire /\ ch' = ch /\ sky'.said = sky.said /\ sky'.hurt = sky.hurt
      BY <1>2, <1>3, <1>4, <1>6, <2>1
    <3>. QED BY <1>0, <3>1
  <2>2. CASE ch # EOL
    <3>1. line' = Append(line, ch) /\ wire' = wire /\ ch' = ch /\ sky'.said = sky.said /\ sky'.hurt = TRUE
      BY <1>2, <1>3, <1>4, <1>6, <2>2
    <3>. QED BY <1>1, <2>2, <3>1
  <2>. QED BY <2>1, <2>2
<1>8. GpsTypes'
  <2>1. line' \in Seq(Symbols)
    BY <1>0, <1>1, <1>3
  <2>. QED BY <1>2, <1>3, <1>5, <2>1 DEF GpsInv, GpsTypes
<1>9. (is_positioning_ \in sky.may)'
  BY <1>0, <1>3, <1>6
<1>10. Waiting' /\ WaitIsRight'
  BY <1>2, <1>3, <1>6 DEF GpsInv, Waiting, WaitIsRight, Fixed
<1>. QED BY <1>7, <1>8, <1>9, <1>10 DEF GpsInv

\* A signal wakes a caller who waits, and is lost on one who does not yet.
LEMMA SignalInv == ASSUME GpsInv, Signal PROVE GpsInv'
<1>0. /\ call \in CallType /\ sky \in SkyType /\ waiter \in {"idle", "lock", "wait", "woken"}
  BY DEF GpsInv, GpsTypes
<1>. DEFINE window == call.window \/ waiter = "lock"
<1>1. /\ reader = "signal" /\ reader' = "read" /\ waiter' = (IF waiter = "wait" THEN "woken" ELSE waiter)
      /\ call' = [call EXCEPT !.window = window]
      /\ UNCHANGED <<is_positioning_, wire, ch, line, result, sky>>
  BY Zenon DEF Signal
<1>2. /\ window \in BOOLEAN /\ (call.window = TRUE => window = TRUE) /\ (waiter = "lock" => window = TRUE)
  <2>1. call.window \in BOOLEAN
    BY <1>0, CallFields
  <2>. QED BY <2>1, Zenon
<1>. HIDE DEF window
<1>3. call' \in CallType
  BY <1>0, <1>1, <1>2 DEF CallType
<1>4. call'.fixes = call.fixes /\ call'.window = window /\ call'.late = call.late /\ call'.unasked = call.unasked
  BY <1>0, <1>1 DEF CallType
<1>5. Fixed /\ Fixed'
  BY <1>1 DEF GpsInv, Waiting, Fixed
<1>6. Waiting'
  BY <1>0, <1>1, <1>2, <1>4, <1>5 DEF GpsInv, Waiting
<1>7. WaitIsRight'
  <2>1. (result = "true" => sky.fixes + sky.damaged > 0 \/ sky.start \/ call.unasked)'
    BY <1>5 DEF Fixed
  <2>2. (result = "false" => call.fixes = 0 \/ call.window \/ call.late)'
    <3>1. result = "false" => call.fixes = 0 \/ call.window = TRUE \/ call.late = TRUE
      <4>1. call.window \in BOOLEAN /\ call.late \in BOOLEAN
        BY <1>0, CallFields
      <4>. QED BY <4>1, Zenon DEF GpsInv, WaitIsRight
    <3>2. result' = "false" => call'.fixes = 0 \/ call'.window = TRUE \/ call'.late = TRUE
      BY <1>1, <1>2, <1>4, <3>1
    <3>. QED BY <3>2, Zenon
  <2>. QED BY <2>1, <2>2 DEF WaitIsRight
<1>8. reader' \in {"off", "read", "signal"} /\ waiter' \in {"idle", "lock", "wait", "woken"}
  BY <1>0, <1>1
<1>. QED BY <1>1, <1>3, <1>6, <1>7, <1>8, WaiterKeeps

\* The flag, if set, was set by a fix or from the start.
LEMMA TestInv == ASSUME GpsInv, TestFlag PROVE GpsInv'
<1>0. /\ call \in CallType /\ sky \in SkyType /\ reader \in {"off", "read", "signal"}
      /\ is_positioning_ \in BOOLEAN
  BY DEF GpsInv, GpsTypes
<1>f. sky.fixes \in Nat /\ call.waits \in Nat /\ call.waits + 1 \in Nat /\ sky.start \in BOOLEAN
  BY <1>0, SkyFields, CallFields
<1>1. /\ waiter' = (IF is_positioning_ THEN "idle" ELSE "lock")
      /\ result' = (IF is_positioning_ THEN "true" ELSE "none")
      /\ call' = [waits |-> call.waits + 1, fixes |-> sky.fixes,
                  window |-> FALSE, late |-> FALSE, unasked |-> FALSE]
      /\ UNCHANGED <<is_positioning_, wire, ch, line, reader, sky>>
  BY DEF TestFlag
<1>2. call' \in CallType /\ call'.fixes = sky.fixes
  BY <1>f, <1>1 DEF CallType
<1>3. waiter' \in {"idle", "lock"} /\ result' \in {"true", "none"} /\ (result' = "true" => is_positioning_ = TRUE)
  <2>1. CASE is_positioning_ = TRUE
    BY <1>1, <2>1, Zenon
  <2>2. CASE is_positioning_ = FALSE
    <3>1. waiter' = "lock" /\ result' = "none"
      BY <1>1, <2>2, Zenon
    <3>. QED BY <3>1
  <2>. QED BY <1>0, <2>1, <2>2, Zenon
<1>4. Waiting'
  <2>1. Fixed' <=> Fixed
    BY <1>1 DEF Fixed
  <2>. QED BY <1>f, <1>1, <1>2, <1>3, <2>1 DEF GpsInv, Waiting
<1>5. WaitIsRight'
  <2>1. result' = "true" => sky.fixes + sky.damaged > 0 \/ sky.start = TRUE
    BY <1>3 DEF GpsInv, Waiting, Fixed
  <2>2. (result = "true" => sky.fixes + sky.damaged > 0 \/ sky.start \/ call.unasked)'
    BY <1>1, <2>1, Zenon
  <2>3. (result = "false" => call.fixes = 0 \/ call.window \/ call.late)'
    BY <1>3
  <2>. QED BY <2>2, <2>3 DEF WaitIsRight
<1>. QED BY <1>0, <1>1, <1>2, <1>3, <1>4, <1>5, WaiterKeeps

\* The caller begins to wait.
LEMMA WaitInv == ASSUME GpsInv, LockAndWait PROVE GpsInv'
<1>1. /\ waiter = "lock" /\ waiter' = "wait"
      /\ UNCHANGED <<is_positioning_, wire, ch, line, reader, result, sky, call>>
  BY DEF LockAndWait
<1>2. Waiting' /\ WaitIsRight'
  BY <1>1 DEF GpsInv, Waiting, WaitIsRight, Fixed
<1>3. call' \in CallType /\ reader' \in {"off", "read", "signal"}
  BY <1>1 DEF GpsInv, GpsTypes
<1>. QED BY <1>1, <1>2, <1>3, WaiterKeeps

\* A wait that ends unasked is marked.
LEMMA UnaskedInv == ASSUME GpsInv, WakeUnasked PROVE GpsInv'
<1>0. call \in CallType /\ reader \in {"off", "read", "signal"}
  BY DEF GpsInv, GpsTypes
<1>1. /\ waiter' = "woken" /\ call' = [call EXCEPT !.unasked = TRUE]
      /\ UNCHANGED <<is_positioning_, wire, ch, line, reader, result, sky>>
  BY DEF WakeUnasked
<1>2. call' \in CallType
  BY <1>0, <1>1 DEF CallType
<1>3. call'.fixes = call.fixes /\ call'.window = call.window /\ call'.late = call.late /\ call'.unasked = TRUE
  BY <1>0, <1>1 DEF CallType
<1>4. Waiting' /\ WaitIsRight'
  BY <1>1, <1>3 DEF GpsInv, Waiting, WaitIsRight, Fixed
<1>. QED BY <1>0, <1>1, <1>2, <1>4, WaiterKeeps

\* A caller who gives up has missed no fix, but for the window or a signal about to come.
LEMMA TimedOutInv == ASSUME GpsInv, TimedOut PROVE GpsInv'
<1>0. call \in CallType /\ sky \in SkyType /\ reader \in {"off", "read", "signal"}
  BY DEF GpsInv, GpsTypes
<1>f. sky.fixes \in Nat /\ call.fixes \in Int /\ call.window \in BOOLEAN
  BY <1>0, SkyFields, CallFields
<1>. DEFINE late == (reader = "signal")
            fixes == sky.fixes - call.fixes
<1>1. /\ waiter = "wait" /\ waiter' = "idle" /\ result' = "false"
      /\ call' = [call EXCEPT !.late = late, !.fixes = fixes]
      /\ UNCHANGED <<is_positioning_, wire, ch, line, reader, sky>>
  BY Zenon DEF TimedOut
<1>2. late \in BOOLEAN /\ (reader = "signal" => late = TRUE)
  BY Zenon
<1>3. fixes \in Int
  BY <1>f
<1>4. fixes = 0 \/ call.window = TRUE \/ reader = "signal"
  BY <1>f, <1>1 DEF GpsInv, Waiting
<1>. HIDE DEF late, fixes
<1>5. call' \in CallType
  BY <1>0, <1>1, <1>2, <1>3 DEF CallType
<1>6. call'.fixes = fixes /\ call'.window = call.window /\ call'.late = late
  BY <1>0, <1>1 DEF CallType
<1>7. Waiting'
  BY <1>1 DEF GpsInv, Waiting, Fixed
<1>8. WaitIsRight'
  <2>1. call'.fixes = 0 \/ call'.window = TRUE \/ call'.late = TRUE
    BY <1>2, <1>4, <1>6
  <2>2. (result = "false" => call.fixes = 0 \/ call.window \/ call.late)'
    BY <2>1, Zenon
  <2>3. result' # "true"
    BY <1>1
  <2>. QED BY <2>2, <2>3 DEF WaitIsRight
<1>. QED BY <1>0, <1>1, <1>5, <1>7, <1>8, WaiterKeeps

\* A caller who was woken says true.
LEMMA WokenInv == ASSUME GpsInv, Woken PROVE GpsInv'
<1>0. call \in CallType /\ reader \in {"off", "read", "signal"}
  BY DEF GpsInv, GpsTypes
<1>1. /\ waiter = "woken" /\ waiter' = "idle" /\ result' = "true"
      /\ UNCHANGED <<is_positioning_, wire, ch, line, reader, sky, call>>
  BY DEF Woken
<1>2. Waiting'
  BY <1>1 DEF GpsInv, Waiting, Fixed
<1>3. WaitIsRight'
  <2>1. Fixed \/ call.unasked = TRUE
    BY <1>1 DEF GpsInv, Waiting
  <2>2. (result = "true" => sky.fixes + sky.damaged > 0 \/ sky.start \/ call.unasked)'
    BY <1>1, <2>1, Zenon DEF Fixed
  <2>3. result' # "false"
    BY <1>1
  <2>. QED BY <2>2, <2>3 DEF WaitIsRight
<1>. QED BY <1>0, <1>1, <1>2, <1>3, WaiterKeeps

\* Every step preserves the invariant.
LEMMA GpsStepInv == ASSUME GpsInv, [GpsNext]_gpsVars PROVE GpsInv'
<1>1. CASE GpsNext
  BY <1>1, SendInv, ReadInv, PauseInv, SignalInv, TestInv, WaitInv, UnaskedInv, TimedOutInv, WokenInv, Zenon
     DEF GpsNext
<1>2. CASE UNCHANGED gpsVars
  BY <1>2 DEF gpsVars, GpsInv, GpsTypes, Waiting, WaitIsRight, Fixed
<1>. QED BY <1>1, <1>2

\* The line the thread has read is the sentence on its way, with its symbols in order, each at least once
\* (gps.cpp:212-235); who sets the flag or signals has read a fix, and a caller who waits has missed one
\* only before the wait (lines 188-210).
THEOREM GpsInvariant == GpsSpec => []GpsInv
BY GpsInitInv, GpsStepInv, PTL DEF GpsSpec

\* Between sentences the flag is what the last one with a status said, or may still be what it was before
\* where a pause doubled a character (gps.cpp:114-143, 222): for any sentences, pauses and callers.
THEOREM GpsFlagFollows == GpsSpec => []FlagFollows
<1>1. GpsInv => FlagFollows
  BY DEF GpsInv, FlagFollows
<1>. QED BY <1>1, GpsInvariant, PTL

\* What WaitPositioningComplete answers is right but for the flag that is never initialised, an unasked
\* wake-up, and a fix that came before the wait or as the time ran out (gps.cpp:188-210).
THEOREM GpsWaitIsRight == GpsSpec => []WaitIsRight
<1>1. GpsInv => WaitIsRight
  BY DEF GpsInv
<1>. QED BY <1>1, GpsInvariant, PTL

=============================================================================
