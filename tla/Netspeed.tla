------------------------------- MODULE Netspeed ------------------------------
(***************************************************************************)
(* The traffic and speed meter (netspeed/netspeed.c).  get_if_speed takes  *)
(* two samples of an interface's byte counters and subtracts them;         *)
(* get_traffic and my_ipconfig search the text of /proc/net/dev, cut off   *)
(* after 2047 bytes, for the device's name and count tokens from there.    *)
(* Meanwhile traffic flows, and interfaces go down, come up or restart;    *)
(* /proc/net/dev may not open or not be read, and getifaddrs may fail.     *)
(***************************************************************************)
EXTENDS Integers, Sequences, FiniteSets

CONSTANTS IfLists,       \* lists of interfaces in the kernel's order; a name is a sequence of parts
          Dev,           \* the device asked for, a name of one part
          CounterRange,  \* 2^32 where an unsigned long has 32 bits
          Amounts,       \* bytes that pass at a time
          Shown,         \* tokens of interface rows that the 2047 bytes may hold
          MaxEvents      \* events of the network in a behaviour

\* The device is one of the interfaces, and no two have its name
ASSUME NetAssumption ==
  /\ CounterRange \in Nat \ {0} /\ Amounts \subseteq Nat /\ Shown \subseteq Nat
  /\ \A l \in IfLists : /\ Len(l) \in Nat
                        /\ \E i \in 1..Len(l) : \A j \in 1..Len(l) : l[j] = <<Dev>> <=> j = i

VARIABLES ifs,           \* the interfaces: name, up, rx and tx (bytes received and sent)
          shown,
          meter,         \* main: traffic, first, sleep, done
          p1, ispeed, ospeed, traffic,
          rx2_tx10,      \* static in my_ipconfig
          netHist        \* history, see NetInit

netVars == <<ifs, shown, meter, p1, ispeed, ospeed, traffic, rx2_tx10, netHist>>

Ifs == 1..Len(ifs)
RowTokens == 17          \* the name and 16 counters
Unset == -1              \* not initialised

\* found: the samples that found Dev; rx, tx: what passed since the first one; restarted: the
\* counters began again since; failed: a sample failed; asked: what Dev had sent when
\* get_traffic read the text, 0 if it could not; sentThen, recvThen: Dev's counters when
\* my_ipconfig last read it; listed: its last call found a row
NetInit ==
  /\ \E l \in IfLists :
       ifs = [i \in 1..Len(l) |-> [name |-> l[i], up |-> TRUE, rx |-> 0, tx |-> 0]]
  /\ shown \in Shown
  /\ meter = "traffic" /\ p1 = [ibytes |-> 0, obytes |-> 0]
  /\ ispeed = Unset /\ ospeed = Unset /\ traffic = Unset
  /\ rx2_tx10 = <<0, 0>>
  /\ netHist = [events |-> 0, found |-> 0, rx |-> 0, tx |-> 0, restarted |-> FALSE, failed |-> FALSE,
                asked |-> 0, recvThen |-> 0, sentThen |-> 0, listed |-> FALSE]

IsDev(i) == ifs[i].name = <<Dev>>
Passing == {i \in Ifs : ifs[i].up}
TheDev == CHOOSE i \in Ifs : IsDev(i)

-----------------------------------------------------------------------------
(* The network.                                                            *)

Event == /\ netHist.events < MaxEvents /\ meter # "done"
         /\ UNCHANGED <<shown, meter, p1, ispeed, ospeed, traffic, rx2_tx10>>

Pass(i, r, t) ==
  /\ i \in Passing /\ Event
  /\ ifs' = [ifs EXCEPT ![i].rx = (@ + r) % CounterRange, ![i].tx = (@ + t) % CounterRange]
  /\ netHist' = [netHist EXCEPT !.events = @ + 1,
                   !.rx = @ + IF IsDev(i) /\ meter = "sleep" THEN r ELSE 0,
                   !.tx = @ + IF IsDev(i) /\ meter = "sleep" THEN t ELSE 0]

UpDown(i) ==
  /\ Event
  /\ ifs' = [ifs EXCEPT ![i].up = ~@]
  /\ netHist' = [netHist EXCEPT !.events = @ + 1]

\* The driver of i is loaded again: its counters start from zero
Reload(i) ==
  /\ Event
  /\ ifs' = [ifs EXCEPT ![i].up = TRUE, ![i].rx = 0, ![i].tx = 0]
  /\ netHist' = [netHist EXCEPT !.events = @ + 1, !.restarted = @ \/ IsDev(i)]

-----------------------------------------------------------------------------
(* /proc/net/dev.                                                          *)

\* strstr stops at the first name that contains Dev; 0 when there is none in the text
DevRow ==
  LET rows == {i \in Ifs : /\ \E k \in 1..Len(ifs[i].name) : ifs[i].name[k] = Dev
                           /\ shown > (i - 1) * RowTokens}
  IN IF rows = {} THEN 0 ELSE CHOOSE i \in rows : \A j \in rows : i <= j

\* Token n of that row is in the text
HasToken(n) == shown >= (DevRow - 1) * RowTokens + n

\* main asks for what was sent: the tenth token; 0 if the text cannot be opened or read
get_traffic ==
  /\ meter = "traffic" /\ meter' = "first"
  /\ \/ /\ traffic' = IF DevRow = 0 THEN 0 ELSE IF HasToken(10) THEN ifs[DevRow].tx ELSE Unset
        /\ netHist' = [netHist EXCEPT !.asked = ifs[TheDev].tx]
     \/ traffic' = 0 /\ UNCHANGED netHist
  /\ UNCHANGED <<ifs, shown, p1, ispeed, ospeed, rx2_tx10>>

\* What a row that is cut off does not tell stays as the call before left it, and all of it
\* stays when the text cannot be opened or read: the caller gets NULL then
my_ipconfig ==
  /\ meter = "first"
  /\ \/ /\ rx2_tx10' = <<IF DevRow # 0 /\ HasToken(2) THEN ifs[DevRow].rx ELSE rx2_tx10[1],
                         IF DevRow # 0 /\ HasToken(10) THEN ifs[DevRow].tx ELSE rx2_tx10[2]>>
        /\ netHist' = [netHist EXCEPT !.recvThen = ifs[TheDev].rx, !.sentThen = ifs[TheDev].tx,
                                      !.listed = (DevRow # 0)]
     \/ netHist' = [netHist EXCEPT !.listed = FALSE] /\ UNCHANGED rx2_tx10
  /\ UNCHANGED <<ifs, shown, meter, p1, ispeed, ospeed, traffic>>

-----------------------------------------------------------------------------
(* get_if_speed.                                                           *)

NoSample == [ok |-> FALSE, found |-> 0, ibytes |-> 0, obytes |-> 0]

\* Its result is that of the last strcmp: a sample fails when names were compared and none
\* was Dev; when none was compared it succeeds with zeros; it fails when getifaddrs does.
\* if_data lists the sent counters first, the kernel the received ones: obytes is what was
\* received
get_if_dbytes(p) ==
  \/ \E i \in Passing : IsDev(i) /\ p = [ok |-> TRUE, found |-> 1,
                                         ibytes |-> ifs[i].tx, obytes |-> ifs[i].rx]
  \/ Passing = {} /\ p = [ok |-> TRUE, found |-> 0, ibytes |-> 0, obytes |-> 0]
  \/ (\A i \in Passing : ~IsDev(i)) /\ Passing # {} /\ p = NoSample
  \/ p = NoSample

Samples == [ok : BOOLEAN, found : {0, 1}, ibytes : 0..(CounterRange - 1), obytes : 0..(CounterRange - 1)]

FirstSample ==
  /\ meter = "first"
  /\ \E p \in Samples :
       /\ get_if_dbytes(p)
       /\ meter' = IF p.ok THEN "sleep" ELSE "done"
       /\ p1' = [ibytes |-> p.ibytes, obytes |-> p.obytes]
       /\ netHist' = [netHist EXCEPT !.found = p.found, !.rx = 0, !.tx = 0,
                                     !.restarted = FALSE, !.failed = ~p.ok]
  /\ UNCHANGED <<ifs, shown, ispeed, ospeed, traffic, rx2_tx10>>

\* Mutant of Difference: no wrap at the end of the counters' range
DifferenceWide(a, b) == IF a >= b THEN a - b ELSE 0

Difference(a, b) == (a - b) % CounterRange

SecondSample ==
  /\ meter = "sleep" /\ meter' = "done"
  /\ \E p \in Samples :
       /\ get_if_dbytes(p)
       /\ IF p.ok THEN /\ ispeed' = Difference(p.ibytes, p1.ibytes)
                       /\ ospeed' = Difference(p.obytes, p1.obytes)
          ELSE UNCHANGED <<ispeed, ospeed>>
       /\ netHist' = [netHist EXCEPT !.found = @ + p.found, !.failed = ~p.ok]
  /\ UNCHANGED <<ifs, shown, p1, traffic, rx2_tx10>>

NetNext ==
  \/ \E i \in Ifs : (\E r, t \in Amounts : Pass(i, r, t)) \/ UpDown(i) \/ Reload(i)
  \/ get_traffic \/ my_ipconfig \/ FirstSample \/ SecondSample

NetSpec == NetInit /\ [][NetNext]_netVars

-----------------------------------------------------------------------------
OwnRow == /\ \A i \in 1..(TheDev - 1) : \A k \in 1..Len(ifs[i].name) : ifs[i].name[k] # Dev
          /\ shown >= TheDev * RowTokens

Measured == meter = "done" /\ netHist.found = 2 /\ ~netHist.restarted
SentBytes == netHist.tx % CounterRange
ReceivedBytes == netHist.rx % CounterRange

\* get_if_speed (netspeed.c:166-195) gives exact differences, over a wrap of the counters too,
\* when both samples found the device and it was not restarted: one speed is what was sent and
\* the other what was received (DirectionsAsDeclared is about which).  The speeds stay unset,
\* though it returns 0, exactly when a sample failed.  If no interface before the device has
\* its name in its own and its row is not cut off, get_traffic (lines 14-68) gives what it had
\* sent, or 0 if the text could not be read, and what my_ipconfig returns (lines 69-124) holds
\* the counters as that call read them.
MeterExact ==
  /\ Measured => <<ispeed, ospeed>> \in {<<SentBytes, ReceivedBytes>>, <<ReceivedBytes, SentBytes>>}
  /\ meter = "done" => (ispeed = Unset <=> netHist.failed)
  /\ OwnRow /\ meter # "traffic" => traffic = netHist.asked
  /\ OwnRow /\ netHist.listed => rx2_tx10 = <<netHist.recvThen, netHist.sentThen>>

\* netspeed.h:24-25 says "ifi_obytes; total number of octets sent" and "ifi_ibytes; total
\* number of octets received", so ifs_ospeed and ifs_ispeed (netspeed.c:187-188) should be the
\* differences of what was sent and of what was received.
DirectionsAsDeclared == Measured => ospeed = SentBytes /\ ispeed = ReceivedBytes
=============================================================================
