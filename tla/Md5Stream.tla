------------------------------ MODULE Md5Stream ------------------------------
(***************************************************************************)
(* How md5/md5.c cuts a message that comes in pieces of any length into    *)
(* the blocks that MD5Transform digests, counts its bits in two words, and *)
(* pads it.  What MD5Transform computes of a block is left out: the digest *)
(* is a function of the blocks.  Md5Block is 64 in the code, Word is 2^32, *)
(* and LenBytes, the bytes of the length at the end, 8.                    *)
(***************************************************************************)
EXTENDS Integers, Sequences

CONSTANTS Md5Block, Word, LenBytes,
          MaxPiece,    \* bytes given to one MD5Update
          MaxMessage   \* bytes of a message

\* Word counts whole blocks, the length fits a block with a byte of padding before it, and a
\* piece is short enough for the i + 64 of the loop (md5.c:41) not to wrap
ASSUME Md5Assumption ==
  /\ Md5Block \in Nat \ {0} /\ Word \in Nat \ {0} /\ Word % (8 * Md5Block) = 0
  /\ LenBytes \in Nat /\ LenBytes < Md5Block
  /\ MaxPiece \in Nat /\ MaxPiece + Md5Block <= Word /\ MaxMessage \in Nat

VARIABLES count0, count1, buffer,   \* MD5_CTX: count[0], count[1], buffer
          fed,                      \* the bytes of the blocks given to MD5Transform
          msg,                      \* history: the message
          final                     \* MD5Final has run

md5Vars == <<count0, count1, buffer, fed, msg, final>>

MD5Init ==
  /\ count0 = 0 /\ count1 = 0
  /\ buffer = [k \in 1..Md5Block |-> <<"old">>]    \* not initialised
  /\ fed = <<>> /\ msg = <<>> /\ final = FALSE

\* The context as a value: MD5Final updates it twice
Context == [c0 |-> count0, c1 |-> count1, buffer |-> buffer, fed |-> fed]

\* buffer with s copied to it from index on (memcpy)
Copied(b, index, s) == [k \in 1..Md5Block |-> IF k - index \in 1..Len(s) THEN s[k - index] ELSE b[k]]

\* Mutant of Counted: the carry into count[1] is left out
CountedNoCarry(c, inputlen) ==
  [c EXCEPT !.c0 = (c.c0 + 8 * inputlen) % Word, !.c1 = (c.c1 + (8 * inputlen) \div Word) % Word]

\* The bits are counted in two words: inputlen << 3 with its carry, and inputlen >> 29
Counted(c, inputlen) ==
  LET low == (8 * inputlen) % Word
      c0  == (c.c0 + low) % Word
      carry == IF c0 < low THEN 1 ELSE 0
  IN [c EXCEPT !.c0 = c0, !.c1 = (c.c1 + carry + (8 * inputlen) \div Word) % Word]

\* MD5Update: what fills the buffer is digested, then the whole blocks of input, and the rest kept
Update(c, input) ==
  LET index   == (c.c0 \div 8) % Md5Block
      partlen == Md5Block - index
      n       == Len(input)
      i       == partlen + ((n - partlen) \div Md5Block) * Md5Block   \* where the loop over i stops
  IN IF n < partlen
     THEN [Counted(c, n) EXCEPT !.buffer = Copied(c.buffer, index, input)]
     ELSE LET full == Copied(c.buffer, index, SubSeq(input, 1, partlen)) IN
          [Counted(c, n) EXCEPT !.fed = c.fed \o full \o SubSeq(input, partlen + 1, i),
                                !.buffer = Copied(full, 0, SubSeq(input, i + 1, n))]

SetContext(c) == /\ count0' = c.c0 /\ count1' = c.c1
                 /\ buffer' = c.buffer /\ fed' = c.fed

\* The bytes of a message are told apart by their place
MD5Update(inputlen) ==
  LET input == [k \in 1..inputlen |-> <<"byte", Len(msg) + k>>] IN
  /\ ~final /\ Len(msg) + inputlen <= MaxMessage
  /\ SetContext(Update(Context, input))
  /\ msg' = msg \o input
  /\ UNCHANGED final

PADDING(n) == [k \in 1..n |-> IF k = 1 THEN <<"80">> ELSE <<"00">>]

\* MD5Encode: the low word, then the high one, LenBytes bytes in all
Bits == [k \in 1..LenBytes |-> <<"length", k, count0, count1>>]

Padlen(index) == IF index < Md5Block - LenBytes THEN Md5Block - LenBytes - index
                 ELSE 2 * Md5Block - LenBytes - index

MD5Final ==
  /\ ~final /\ final' = TRUE
  /\ SetContext(Update(Update(Context, PADDING(Padlen((count0 \div 8) % Md5Block))), Bits))
  /\ UNCHANGED msg

Md5Next == MD5Final \/ \E n \in 0..MaxPiece : MD5Update(n)

Md5Spec == MD5Init /\ [][Md5Next]_md5Vars

-----------------------------------------------------------------------------
\* The padding of RFC 1321, 3.1 and 3.2: one bit, as few zeros as make the length end a block
Padded(m) ==
  LET bits == 8 * Len(m)
      zeros == CHOOSE z \in 0..(Md5Block - 1) : (Len(m) + 1 + z + LenBytes) % Md5Block = 0
  IN m \o <<<<"80">>>> \o [k \in 1..zeros |-> <<"00">>]
       \o [k \in 1..LenBytes |-> <<"length", k, bits % Word, (bits \div Word) % Word>>]

\* In whatever pieces a message comes, across the wrap of count[0] too (md5.c:28-34), the
\* digested blocks and what waits in the buffer are the message so far; and when MD5Final
\* (md5.c:53-64) has run, all of the message with the padding and the length that RFC 1321
\* asks for has been digested: the digest does not depend on the pieces.
DigestsMessage ==
  IF final THEN fed = Padded(msg)
  ELSE fed \o SubSeq(buffer, 1, Len(msg) % Md5Block) = msg
=============================================================================
