---------------------------- MODULE LibraryProofs ----------------------------
(***************************************************************************)
(* Proofs about the library code.  The persistent upload list: for every   *)
(* set of paths, every size of stdio's buffer and restarts at any point.   *)
(* The one that watches its directory: for any names, arrivals and length  *)
(* of the event queue.  The traffic meter: for any interfaces, amounts and *)
(* range of the counters.  The timers: for any units and width of int.     *)
(* MD5's cutting into blocks: for any pieces, message and size of block.   *)
(***************************************************************************)
EXTENDS FilelistData, FilelistWatch, Netspeed, Timers, Md5Stream, SequenceTheorems,
        FiniteSetTheorems, WellFoundedInduction, TLAPS

ListTypes ==
  /\ Filevect \in Seq(Entry)
  /\ file \in Seq(Paths) /\ unwritten \in Seq(Paths)
  /\ writing \in BOOLEAN /\ short \in BOOLEAN

\* The inductive invariant
ListInv == ListTypes /\ FileIsList /\ HandedFirst

Ordered(v) == \A i, j \in 1..Len(v) : i < j /\ v[j].flag = 1 => v[i].flag = 1

-----------------------------------------------------------------------------
\* The names of a list are a sequence of paths of its length.
LEMMA DataLemma ==
  ASSUME NEW v \in Seq(Entry)
  PROVE  /\ Data(v) \in Seq(Paths) /\ Len(Data(v)) = Len(v)
         /\ \A k \in 1..Len(v) : Data(v)[k] = v[k].data
<1>1. \A k \in 1..Len(v) : v[k].data \in Paths
  <2>1. \A k \in 1..Len(v) : v[k] \in Entry
    BY ElementOfSeq
  <2>. QED BY <2>1 DEF Entry
<1>2. Data(v) \in [1..Len(v) -> Paths]
  BY <1>1 DEF Data
<1>. QED BY <1>2 DEF Data

\* What a restart reads is the records, none of them handed out.
LEMMA ReadLemma ==
  ASSUME file \in Seq(Paths)
  PROVE  readFilevect \in Seq(Entry) /\ Data(readFilevect) = file /\ Ordered(readFilevect)
<1>1. readFilevect \in [1..Len(file) -> Entry]
  BY DEF readFilevect, Entry
<1>2. readFilevect \in Seq(Entry) /\ Len(readFilevect) = Len(file)
  BY <1>1
<1>3. \A k \in 1..Len(file) : readFilevect[k].data = file[k] /\ readFilevect[k].flag = 0
  BY DEF readFilevect
<1>4. Data(readFilevect) = file
  BY <1>2, <1>3, DataLemma, SeqEqual
<1>. QED BY <1>2, <1>3, <1>4 DEF Ordered

\* Appending an entry that was not handed out.
LEMMA AppendLemma ==
  ASSUME NEW v \in Seq(Entry), Ordered(v), NEW data \in Paths
  PROVE  LET w == Append(v, [flag |-> 0, data |-> data]) IN w \in Seq(Entry) /\ Ordered(w)
<1>. DEFINE w == Append(v, [flag |-> 0, data |-> data])
<1>1. w \in Seq(Entry) /\ Len(w) = Len(v) + 1
  BY DEF Entry
<1>2. \A k \in 1..Len(v) : w[k] = v[k]
  OBVIOUS
<1>3. w[Len(v) + 1].flag = 0
  OBVIOUS
<1>. QED BY <1>1, <1>2, <1>3 DEF Ordered

\* What RemoveAt leaves, element by element.
LEMMA RemoveAtLemma ==
  ASSUME NEW S, NEW v \in Seq(S), NEW k \in 1..Len(v)
  PROVE  /\ RemoveAt(v, k) \in Seq(S) /\ Len(RemoveAt(v, k)) = Len(v) - 1
         /\ \A i \in 1..(Len(v) - 1) : RemoveAt(v, k)[i] = IF i < k THEN v[i] ELSE v[i + 1]
<1>. DEFINE a == SubSeq(v, 1, k - 1)
            b == SubSeq(v, k + 1, Len(v))
<1>0. Len(v) \in Nat /\ \A i \in 1..Len(v) : v[i] \in S
  OBVIOUS
<1>1. /\ a \in Seq(S) /\ Len(a) = k - 1
      /\ \A i \in 1..(k - 1) : a[i] = v[i]
  <2>1. \A i \in 1..(k - 1) : v[i] \in S
    BY <1>0
  <2>. QED BY <2>1, SubSeqProperties
<1>2. /\ b \in Seq(S) /\ Len(b) = Len(v) - k
      /\ \A i \in 1..(Len(v) - k) : b[i] = v[k + i]
  <2>1. \A i \in (k + 1)..Len(v) : v[i] \in S
    BY <1>0
  <2>2. /\ b \in Seq(S) /\ Len(b) = (IF k + 1 <= Len(v) THEN Len(v) - (k + 1) + 1 ELSE 0)
        /\ \A i \in 1..(Len(v) - (k + 1) + 1) : b[i] = v[(k + 1) + i - 1]
    BY <1>0, <2>1, SubSeqProperties
  <2>. QED BY <1>0, <2>2
<1>3. /\ a \o b \in Seq(S) /\ Len(a \o b) = Len(v) - 1
      /\ \A i \in 1..(Len(v) - 1) : (a \o b)[i] = IF i < k THEN v[i] ELSE v[i + 1]
  <2>1. /\ a \o b \in Seq(S) /\ Len(a \o b) = Len(a) + Len(b)
        /\ \A i \in 1..(Len(a) + Len(b)) : (a \o b)[i] = IF i <= Len(a) THEN a[i] ELSE b[i - Len(a)]
    BY <1>1, <1>2, ConcatProperties
  <2>. HIDE DEF a, b
  <2>2. Len(a) + Len(b) = Len(v) - 1
    BY <1>0, <1>1, <1>2
  <2>3. ASSUME NEW i \in 1..(Len(v) - 1)
        PROVE  (a \o b)[i] = IF i < k THEN v[i] ELSE v[i + 1]
    <3>1. CASE i < k
      BY <1>0, <1>1, <2>1, <2>2, <3>1
    <3>2. CASE ~(i < k)
      <4>1. (a \o b)[i] = b[i - (k - 1)]
        BY <1>0, <1>1, <2>1, <2>2, <3>2
      <4>2. i - (k - 1) \in 1..(Len(v) - k) /\ k + (i - (k - 1)) = i + 1
        BY <1>0, <3>2
      <4>. QED BY <1>2, <3>2, <4>1, <4>2
    <3>. QED BY <3>1, <3>2
  <2>. QED BY <2>1, <2>2, <2>3
<1>. QED BY <1>3 DEF RemoveAt

\* Erasing an entry keeps the order of the others.
LEMMA EraseLemma ==
  ASSUME NEW v \in Seq(Entry), Ordered(v), NEW k \in 1..Len(v)
  PROVE  RemoveAt(v, k) \in Seq(Entry) /\ Ordered(RemoveAt(v, k))
<1>. DEFINE w == RemoveAt(v, k)
<1>1. /\ w \in Seq(Entry) /\ Len(w) = Len(v) - 1
      /\ \A i \in 1..(Len(v) - 1) : w[i] = IF i < k THEN v[i] ELSE v[i + 1]
  BY RemoveAtLemma
<1>. HIDE DEF w
<1>2. ASSUME NEW i \in 1..Len(w), NEW j \in 1..Len(w), i < j, w[j].flag = 1
      PROVE  w[i].flag = 1
  <2>1. w[i] = (IF i < k THEN v[i] ELSE v[i + 1]) /\ w[j] = (IF j < k THEN v[j] ELSE v[j + 1])
    BY <1>1
  <2>. QED BY <1>1, <1>2, <2>1 DEF Ordered
<1>3. Ordered(w)
  BY <1>2 DEF Ordered
<1>. QED BY <1>1, <1>3 DEF w

\* Handing out the first entry that was not: the names stay, and the ones handed out
\* are still the first.
LEMMA HandOutLemma ==
  ASSUME NEW v \in Seq(Entry), Ordered(v), NEW k \in 1..Len(v),
         \A j \in 1..Len(v) : v[j].flag = 0 => k <= j
  PROVE  LET w == [v EXCEPT ![k].flag = 1] IN
           w \in Seq(Entry) /\ Data(w) = Data(v) /\ Ordered(w)
<1>. DEFINE w == [v EXCEPT ![k].flag = 1]
<1>0. Len(v) \in Nat /\ \A i \in 1..Len(v) : v[i] \in Entry
  OBVIOUS
<1>1. \A i \in 1..Len(v) : w[i] = IF i = k THEN [v[k] EXCEPT !.flag = 1] ELSE v[i]
  OBVIOUS
<1>2. [v[k] EXCEPT !.flag = 1] \in Entry /\ [v[k] EXCEPT !.flag = 1].data = v[k].data
      /\ [v[k] EXCEPT !.flag = 1].flag = 1
  BY <1>0 DEF Entry
<1>3. w \in [1..Len(v) -> Entry]
  BY <1>0, <1>1, <1>2
<1>4. w \in Seq(Entry) /\ Len(w) = Len(v)
  BY <1>0, <1>3
<1>5. Data(w) = Data(v)
  <2>1. \A i \in 1..Len(v) : w[i].data = v[i].data
    BY <1>1, <1>2
  <2>. HIDE DEF w
  <2>. QED BY <1>4, <2>1 DEF Data
<1>6. Ordered(w)
  <2>1. \A i \in 1..Len(v) : v[i].flag \in {0, 1}
    BY <1>0 DEF Entry
  <2>2. \A i \in 1..Len(v) : w[i].flag = IF i = k THEN 1 ELSE v[i].flag
    BY <1>1, <1>2
  <2>. HIDE DEF w
  <2>. SUFFICES ASSUME NEW i \in 1..Len(v), NEW j \in 1..Len(v), i < j, w[j].flag = 1
                PROVE  w[i].flag = 1
    BY <1>4 DEF Ordered
  <2>3. CASE j = k
    BY <2>1, <2>2, <2>3
  <2>4. CASE j # k
    BY <2>2, <2>4 DEF Ordered
  <2>. QED BY <2>3, <2>4
<1>. QED BY <1>4, <1>5, <1>6

\* Writing the next records moves them from what is to be written to the file.
LEMMA FlushLemma ==
  ASSUME NEW f \in Seq(Paths), NEW u \in Seq(Paths), NEW n \in 0..Len(u)
  PROVE  LET a == SubSeq(u, 1, n)
             b == SubSeq(u, n + 1, Len(u)) IN
           /\ a \in Seq(Paths) /\ b \in Seq(Paths)
           /\ (f \o a) \o b = f \o u
           /\ n = Len(u) => b = <<>>
<1>. DEFINE a == SubSeq(u, 1, n)
            b == SubSeq(u, n + 1, Len(u))
<1>0. Len(u) \in Nat /\ \A i \in 1..Len(u) : u[i] \in Paths
  OBVIOUS
<1>1. a \in Seq(Paths) /\ Len(a) = n /\ \A i \in 1..n : a[i] = u[i]
  <2>1. \A i \in 1..n : u[i] \in Paths
    BY <1>0
  <2>. QED BY <1>0, <2>1, SubSeqProperties
<1>2. /\ b \in Seq(Paths) /\ Len(b) = Len(u) - n
      /\ \A i \in 1..(Len(u) - n) : b[i] = u[n + i]
  <2>1. \A i \in (n + 1)..Len(u) : u[i] \in Paths
    BY <1>0
  <2>2. /\ b \in Seq(Paths) /\ Len(b) = (IF n + 1 <= Len(u) THEN Len(u) - (n + 1) + 1 ELSE 0)
        /\ \A i \in 1..(Len(u) - (n + 1) + 1) : b[i] = u[(n + 1) + i - 1]
    BY <1>0, <2>1, SubSeqProperties
  <2>. QED BY <1>0, <2>2
<1>. HIDE DEF a, b
<1>3. a \o b = u
  <2>1. /\ a \o b \in Seq(Paths) /\ Len(a \o b) = Len(a) + Len(b)
        /\ \A i \in 1..(Len(a) + Len(b)) : (a \o b)[i] = IF i <= Len(a) THEN a[i] ELSE b[i - Len(a)]
    BY <1>1, <1>2, ConcatProperties
  <2>2. Len(a \o b) = Len(u)
    BY <1>0, <1>1, <1>2, <2>1
  <2>3. ASSUME NEW i \in 1..Len(u)
        PROVE  (a \o b)[i] = u[i]
    <3>1. CASE i <= n
      BY <1>0, <1>1, <1>2, <2>1, <3>1
    <3>2. CASE ~(i <= n)
      <4>1. (a \o b)[i] = b[i - n]
        BY <1>0, <1>1, <1>2, <2>1, <3>2
      <4>2. i - n \in 1..(Len(u) - n) /\ n + (i - n) = i
        BY <1>0, <3>2
      <4>. QED BY <1>2, <4>1, <4>2
    <3>. QED BY <3>1, <3>2
  <2>. QED BY <2>1, <2>2, <2>3, SeqEqual
<1>4. (f \o a) \o b = f \o (a \o b)
  <2>1. a \in Seq(Paths) /\ b \in Seq(Paths)
    BY <1>1, <1>2, Zenon
  <2>. QED BY <2>1, ConcatAssociative, SMTT(30)
<1>5. n = Len(u) => b = <<>>
  BY <1>2, EmptySeq
<1>. QED BY <1>1, <1>2, <1>3, <1>4, <1>5 DEF a, b

-----------------------------------------------------------------------------
LEMMA ListInitInv == ListInit => ListInv
<1>. SUFFICES ASSUME ListInit PROVE ListInv
  OBVIOUS
<1>1. ListTypes
  <2>1. <<>> \in Seq(Entry) /\ <<>> \in Seq(Paths)
    BY EmptySeq
  <2>. QED BY <2>1 DEF ListInit, ListTypes
<1>2. Data(Filevect) = <<>>
  BY DEF ListInit, Data
<1>3. FileIsList
  BY <1>2 DEF ListInit, FileIsList
<1>. QED BY <1>1, <1>3 DEF ListInit, ListInv, HandedFirst

\* Every operation that ends with write_to_File.
LEMMA RewriteInv ==
  ASSUME Filevect' \in Seq(Entry), Ordered(Filevect'), write_to_File
  PROVE  ListInv'
<1>1. Data(Filevect') \in Seq(Paths)
  BY DataLemma
<1>2. ListTypes'
  <2>1. <<>> \in Seq(Paths)
    BY EmptySeq
  <2>2. file' = <<>> /\ unwritten' = Data(Filevect') /\ writing' = TRUE /\ short' = FALSE
    BY DEF write_to_File, Data
  <2>3. file' \in Seq(Paths) /\ unwritten' \in Seq(Paths)
    BY <1>1, <2>1, <2>2
  <2>4. writing' \in BOOLEAN /\ short' \in BOOLEAN
    BY <2>2
  <2>. QED BY <2>3, <2>4 DEF ListTypes
<1>3. <<>> \o Data(Filevect') = Data(Filevect')
  BY <1>1, ConcatEmptySeq
<1>4. FileIsList'
  BY <1>3 DEF write_to_File, FileIsList, Data
<1>. QED BY <1>2, <1>4 DEF ListInv, HandedFirst, Ordered

LEMMA ListStepInv == ListInv /\ [ListNext]_listVars => ListInv'
<1>. SUFFICES ASSUME ListInv, [ListNext]_listVars PROVE ListInv'
  OBVIOUS
<1>0. Ordered(Filevect) /\ ListTypes /\ FileIsList
  BY DEF ListInv, HandedFirst, Ordered
<1>1. CASE Flush
  <2>. DEFINE n == IF Len(unwritten) < Block THEN Len(unwritten) ELSE Block
  <2>1. n \in 0..Len(unwritten) /\ (~(n < Len(unwritten)) => n = Len(unwritten))
    BY <1>0, BlockAssumption DEF ListTypes
  <2>2. /\ file' = file \o SubSeq(unwritten, 1, n)
        /\ unwritten' = SubSeq(unwritten, n + 1, Len(unwritten))
        /\ writing' = (n < Len(unwritten))
        /\ Filevect' = Filevect /\ short' = short
    BY <1>1 DEF Flush
  <2>. HIDE DEF n
  <2>3. /\ SubSeq(unwritten, 1, n) \in Seq(Paths) /\ unwritten' \in Seq(Paths)
        /\ file' \o unwritten' = file \o unwritten
        /\ n = Len(unwritten) => unwritten' = <<>>
    BY <1>0, <2>1, <2>2, FlushLemma DEF ListTypes
  <2>4. ListTypes'
    <3>1. file' \in Seq(Paths)
      BY <1>0, <2>2, <2>3, ConcatProperties DEF ListTypes
    <3>2. writing' \in BOOLEAN
      BY <2>2
    <3>. QED BY <1>0, <2>2, <2>3, <3>1, <3>2 DEF ListTypes
  <2>5. ~writing' => unwritten' = <<>>
    BY <2>1, <2>2, <2>3
  <2>6. FileIsList'
    BY <1>0, <2>2, <2>3, <2>5 DEF FileIsList, Data
  <2>. QED BY <1>0, <2>2, <2>4, <2>6 DEF ListInv, HandedFirst, Ordered
<1>2. CASE get_data
  <2>1. PICK k \in Fresh : IsFirst(k, Fresh) /\ Filevect' = [Filevect EXCEPT ![k].flag = 1]
    BY <1>2 DEF get_data
  <2>2. k \in 1..Len(Filevect) /\ \A j \in 1..Len(Filevect) : Filevect[j].flag = 0 => k <= j
    BY <2>1 DEF Fresh, IsFirst
  <2>3. Filevect' \in Seq(Entry) /\ Data(Filevect') = Data(Filevect) /\ Ordered(Filevect')
    BY <1>0, <2>1, <2>2, HandOutLemma DEF ListTypes
  <2>4. ListTypes'
    BY <1>0, <1>2, <2>3 DEF get_data, ListTypes
  <2>5. FileIsList'
    BY <1>0, <1>2, <2>3 DEF get_data, FileIsList, Data
  <2>. QED BY <2>3, <2>4, <2>5 DEF ListInv, HandedFirst, Ordered
<1>3. CASE Restart
  <2>1. Filevect' \in Seq(Entry) /\ Data(Filevect') = file /\ Ordered(Filevect')
    BY <1>0, <1>3, ReadLemma DEF Restart, ListTypes
  <2>2. ListTypes'
    <3>1. <<>> \in Seq(Paths)
      BY EmptySeq
    <3>. QED BY <1>0, <1>3, <2>1, <3>1 DEF Restart, ListTypes
  <2>3. file \o <<>> = file
    BY <1>0, ConcatEmptySeq DEF ListTypes
  <2>4. FileIsList'
    BY <1>3, <2>1, <2>3 DEF Restart, FileIsList, Data
  <2>. QED BY <2>1, <2>2, <2>4 DEF ListInv, HandedFirst, Ordered
<1>4. ASSUME NEW data \in Paths, set_data_writefile(data)
      PROVE  ListInv'
  <2>1. Filevect' \in Seq(Entry) /\ Ordered(Filevect')
    BY <1>0, <1>4, AppendLemma DEF set_data_writefile, ListTypes
  <2>. QED BY <1>4, <2>1, RewriteInv DEF set_data_writefile
<1>5. ASSUME NEW data \in Paths, clear_data_writefile(data)
      PROVE  ListInv'
  <2>1. CASE Filevect' = Filevect
    <3>. QED BY <1>0, <1>5, <2>1, RewriteInv DEF clear_data_writefile, ListTypes
  <2>2. CASE \E k \in Matching(data) : Filevect' = RemoveAt(Filevect, k)
    <3>1. PICK k \in 1..Len(Filevect) : Filevect' = RemoveAt(Filevect, k)
      BY <2>2 DEF Matching
    <3>2. Filevect' \in Seq(Entry) /\ Ordered(Filevect')
      BY <1>0, <3>1, EraseLemma DEF ListTypes
    <3>. QED BY <1>5, <3>2, RewriteInv DEF clear_data_writefile
  <2>. QED BY <1>5, <2>1, <2>2 DEF clear_data_writefile, clear_data
<1>6. CASE UNCHANGED listVars
  BY <1>6 DEF listVars, ListInv, ListTypes, FileIsList, HandedFirst, Data
<1>7. CASE FlushFails
  <2>1. ListTypes' /\ Filevect' = Filevect
    BY <1>0, <1>7 DEF FlushFails, ListTypes
  <2>2. FileIsList'
    BY <1>0, <1>7 DEF FlushFails, FileIsList, Data
  <2>. QED BY <1>0, <2>1, <2>2 DEF ListInv, HandedFirst, Ordered
<1>. QED BY <1>1, <1>2, <1>3, <1>4, <1>5, <1>6, <1>7 DEF ListNext

-----------------------------------------------------------------------------
\* The inductive invariant holds in every reachable state, whatever the operations,
\* the buffer and the points at which the program dies.
THEOREM ListInvariant == ListSpec => []ListInv
  BY ListInitInv, ListStepInv, PTL DEF ListSpec

\* During a rewrite (filelist_data.cpp:52-58), and after one that failed, the file is the
\* beginning of the list, and it is the whole list when none is running and none failed.
THEOREM ListFileIsList == ListSpec => []FileIsList
<1>1. ListInv => FileIsList
  BY DEF ListInv
<1>. QED BY <1>1, ListInvariant, PTL

\* The entries that get_data handed out (filelist_data.cpp:76-92) come first.
THEOREM ListHandedFirst == ListSpec => []HandedFirst
<1>1. ListInv => HandedFirst
  BY DEF ListInv
<1>. QED BY <1>1, ListInvariant, PTL

-----------------------------------------------------------------------------
(* The list that watches its directory.                                    *)

Listed == [flag : {0, 1}, filepath : File, out : {0, 1}]
FileEvent == [mask : {"IN_CREATE", "IN_MOVED_TO", "IN_DELETE"}, file : File]

HistType == [missed : SUBSET File, raced : BOOLEAN, twice : BOOLEAN, wild : BOOLEAN]

WatchTypes ==
  /\ fvect \in Seq(Listed)
  /\ dir \subseteq File /\ IsFiniteSet(dir) /\ nested \subseteq {AName}
  /\ inq \in Seq(FileEvent)
  /\ upi \in Nat /\ upf \in File \cup {NoFile}
  /\ watchHist \in HistType

\* What get_filepath relies on between its steps
LoopInv ==
  /\ monitor = "scan" => fvect = <<>> /\ inq = <<>> /\ up = "idle"
  /\ up \in {"size", "flag", "mark", "read"} => upi # 0

\* The marked entries are the ones handed out, but for the one that is about to be
Even == \A k \in 1..Len(fvect) : fvect[k].flag = fvect[k].out \/ (up = "read" /\ k = upi)

\* The entry that get_filepath has looked at is still at its index
Placed ==
  up \in {"flag", "mark", "read"} =>
    /\ upi <= Len(fvect)
    /\ up = "mark" => fvect[upi].flag = 0
    /\ up = "read" => fvect[upi].flag = 1 /\ fvect[upi].out = 0

Marks == ~watchHist.twice /\ ~watchHist.wild /\ Even /\ Placed

HandInv == WatchTypes /\ LoopInv /\ (watchHist.raced \/ Marks)

\* The last event about f in the queue says that it came; none says that it went
LastIsAdd(f) ==
  \E k \in 1..Len(inq) :
    /\ inq[k].file = f /\ inq[k].mask # "IN_DELETE"
    /\ \A j \in 1..Len(inq) : j > k /\ inq[j].file = f => inq[j].mask # "IN_DELETE"
NoDelete(f) == \A j \in 1..Len(inq) : inq[j].file = f => inq[j].mask # "IN_DELETE"

\* A finished file that is not missed is listed, or will be when the events are handled
Told(f) ==
  \/ f.part \/ f \in watchHist.missed
  \/ LastIsAdd(f)
  \/ NoDelete(f) /\ (Entries(f) # {} \/ (up = "half" /\ upf = f))

ListedInv == monitor # "scan" => \A f \in dir : Told(f)

-----------------------------------------------------------------------------
\* A set of naturals that is not empty has a least element.
LEMMA LeastNat == ASSUME NEW T, T \subseteq Nat, T # {} PROVE \E x \in T : \A y \in T : x <= y
<1>1. IsWellFoundedOn(OpToRel(<, Nat), Nat)
  BY NatLessThanWellFounded
<1>2. PICK x \in T : \A y \in T : ~(<<y, x>> \in OpToRel(<, Nat))
  BY <1>1, WFMin
<1>3. \A y \in Nat : <<y, x>> \in OpToRel(<, Nat) <=> y < x
  BY DEF OpToRel
<1>4. \A y \in T : ~(y < x)
  BY <1>2, <1>3
<1>5. \A y \in T : x <= y
  BY <1>4
<1>. QED BY <1>5

\* What the scan reads is a finite set of files.
LEMMA ScanFinite ==
  ASSUME WatchTypes
  PROVE  /\ IsFiniteSet(readFilevect_files)
         /\ \A x \in readFilevect_files : x[1] \in File /\ (x[1].part => x[1] \in dir)
         /\ \A f \in dir : \E x \in readFilevect_files : x[1] = f
<1>0. AName \in Names
  BY NamesAssumption DEF AName
<1>1. IsFiniteSet(dir \X {"top"})
  BY FS_Singleton, FS_Product DEF WatchTypes
<1>2. IsFiniteSet({Whole(AName)} \X {"below"})
  BY FS_Singleton, FS_Product
<1>3. IsFiniteSet((dir \X {"top"}) \cup ({Whole(AName)} \X {"below"}))
  BY <1>1, <1>2, FS_Union
<1>4. readFilevect_files \subseteq (dir \X {"top"}) \cup ({Whole(AName)} \X {"below"})
  BY DEF readFilevect_files, WatchTypes
<1>5. IsFiniteSet(readFilevect_files)
  BY <1>3, <1>4, FS_Subset
<1>6. \A x \in readFilevect_files : x[1] \in File /\ (x[1].part => x[1] \in dir)
  <2>. TAKE x \in readFilevect_files
  <2>1. CASE \E f \in dir : x = <<f, "top">>
    BY <2>1 DEF WatchTypes
  <2>2. CASE \E n \in nested : x = <<Whole(n), "below">>
    <3>1. PICK n \in nested : x = <<Whole(n), "below">>
      BY <2>2
    <3>2. n \in Names
      BY <1>0, <3>1 DEF WatchTypes
    <3>3. Whole(n) \in File /\ ~Whole(n).part
      BY <3>2 DEF Whole, File
    <3>. QED BY <3>1, <3>3
  <2>. QED BY <2>1, <2>2 DEF readFilevect_files
<1>7. \A f \in dir : \E x \in readFilevect_files : x[1] = f
  <2>. TAKE f \in dir
  <2>1. <<f, "top">> \in readFilevect_files /\ <<f, "top">>[1] = f
    BY DEF readFilevect_files
  <2>. QED BY <2>1
<1>. QED BY <1>5, <1>6, <1>7

\* A sequence of the members of a finite set, each once, has all of them.
LEMMA ScanSeq ==
  ASSUME NEW S, IsFiniteSet(S), NEW s \in SetToSeqs(S)
  PROVE  s \in Seq(S) /\ \A x \in S : \E k \in 1..Len(s) : s[k] = x
<1>. DEFINE n == Cardinality(S)
<1>1. n \in Nat
  BY FS_CardinalityType
<1>2. s \in [1..n -> S] /\ \A i, j \in 1..n : i # j => s[i] # s[j]
  BY DEF SetToSeqs
<1>3. s \in Seq(S) /\ Len(s) = n
  BY <1>1, <1>2
<1>4. s \in Injection(1..n, S)
  BY <1>2 DEF Injection, IsInjective
<1>5. Cardinality(1..n) = n
  <2>1. Cardinality(1..n) = IF 1 > n THEN 0 ELSE n - 1 + 1
    BY <1>1, FS_Interval
  <2>. HIDE DEF n
  <2>. QED BY <1>1, <2>1
<1>6. s \in Surjection(1..n, S)
  BY <1>4, <1>5, FS_Injection
<1>7. \A x \in S : \E k \in 1..n : s[k] = x
  BY <1>6 DEF Surjection
<1>. QED BY <1>3, <1>7

\* clear_filepath and an IN_DELETE take the first entry of the file out, or find none.
LEMMA EraseEffect ==
  ASSUME fvect \in Seq(Listed), NEW f, Erase(f)
  PROVE  /\ fvect' \in Seq(Listed)
         /\ \/ Entries(f) = {} /\ fvect' = fvect
            \/ \E k \in Entries(f) :
                 /\ \A j \in Entries(f) : k <= j
                 /\ Len(fvect') = Len(fvect) - 1
                 /\ \A i \in 1..(Len(fvect) - 1) :
                      fvect'[i] = IF i < k THEN fvect[i] ELSE fvect[i + 1]
<1>1. CASE Entries(f) = {}
  BY <1>1 DEF Erase
<1>2. CASE Entries(f) # {}
  <2>1. Entries(f) \subseteq Nat /\ Entries(f) \subseteq 1..Len(fvect)
    BY DEF Entries
  <2>. DEFINE k == CHOOSE k \in Entries(f) : \A j \in Entries(f) : k <= j
  <2>2. \E x \in Entries(f) : \A j \in Entries(f) : x <= j
    BY <1>2, <2>1, LeastNat
  <2>3. k \in Entries(f) /\ \A j \in Entries(f) : k <= j
    BY <2>2
  <2>4. fvect' = RemoveAt(fvect, k)
    BY <1>2 DEF Erase
  <2>. HIDE DEF k
  <2>5. k \in 1..Len(fvect)
    BY <2>1, <2>3
  <2>6. /\ fvect' \in Seq(Listed) /\ Len(fvect') = Len(fvect) - 1
        /\ \A i \in 1..(Len(fvect) - 1) : fvect'[i] = IF i < k THEN fvect[i] ELSE fvect[i + 1]
    BY <2>4, <2>5, RemoveAtLemma
  <2>. QED BY <2>3, <2>6
<1>. QED BY <1>1, <1>2

\* It takes away no entry of another file.
LEMMA EraseKeepsOthers ==
  ASSUME fvect \in Seq(Listed), NEW f, Erase(f), NEW g, g # f, Entries(g) # {}
  PROVE  Entries(g)' # {}
<1>1. PICK j \in 1..Len(fvect) : fvect[j].filepath = g
  BY DEF Entries
<1>2. CASE Entries(f) = {} /\ fvect' = fvect
  BY <1>1, <1>2 DEF Entries
<1>3. CASE \E k \in Entries(f) :
             /\ \A i \in Entries(f) : k <= i
             /\ Len(fvect') = Len(fvect) - 1
             /\ \A i \in 1..(Len(fvect) - 1) :
                  fvect'[i] = IF i < k THEN fvect[i] ELSE fvect[i + 1]
  <2>1. PICK k \in 1..Len(fvect) :
             /\ fvect[k].filepath = f
             /\ Len(fvect') = Len(fvect) - 1
             /\ \A i \in 1..(Len(fvect) - 1) :
                  fvect'[i] = IF i < k THEN fvect[i] ELSE fvect[i + 1]
    BY <1>3 DEF Entries
  <2>2. CASE j < k
    <3>1. j \in 1..(Len(fvect) - 1) /\ fvect'[j] = fvect[j]
      BY <2>1, <2>2
    <3>. QED BY <1>1, <2>1, <3>1 DEF Entries
  <2>3. CASE j > k
    <3>1. j - 1 \in 1..(Len(fvect) - 1) /\ ~(j - 1 < k) /\ (j - 1) + 1 = j
      BY <2>1, <2>3
    <3>2. fvect'[j - 1] = fvect[j]
      BY <2>1, <3>1
    <3>. QED BY <1>1, <2>1, <3>1, <3>2 DEF Entries
  <2>4. j # k
    BY <1>1, <2>1
  <2>. QED BY <2>2, <2>3, <2>4
<1>. QED BY <1>2, <1>3, EraseEffect

\* An entry added at the end leaves the others.
LEMMA AppendKeeps ==
  ASSUME fvect \in Seq(Listed), NEW f \in File, fvect' = Append(fvect, Fresh0(f))
  PROVE  /\ fvect' \in Seq(Listed) /\ Len(fvect') = Len(fvect) + 1
         /\ \A i \in 1..Len(fvect) : fvect'[i] = fvect[i]
         /\ fvect'[Len(fvect) + 1].flag = fvect'[Len(fvect) + 1].out
         /\ Entries(f)' # {}
         /\ \A g : Entries(g) # {} => Entries(g)' # {}
<1>1. Fresh0(f) \in Listed /\ Fresh0(f).flag = Fresh0(f).out /\ Fresh0(f).filepath = f
  BY DEF Fresh0, Listed
<1>2. /\ fvect' \in Seq(Listed) /\ Len(fvect') = Len(fvect) + 1
      /\ \A i \in 1..Len(fvect) : fvect'[i] = fvect[i]
      /\ fvect'[Len(fvect) + 1] = Fresh0(f)
  BY <1>1, AppendProperties
<1>3. Len(fvect) + 1 \in 1..Len(fvect') /\ fvect'[Len(fvect) + 1].filepath = f
  BY <1>1, <1>2
<1>4. Entries(f)' # {}
  BY <1>3 DEF Entries
<1>5. ASSUME NEW g, Entries(g) # {}
      PROVE  Entries(g)' # {}
  <2>1. PICK j \in 1..Len(fvect) : fvect[j].filepath = g
    BY <1>5 DEF Entries
  <2>2. j \in 1..Len(fvect') /\ fvect'[j].filepath = g
    BY <1>2, <2>1
  <2>. QED BY <2>2 DEF Entries
<1>. QED BY <1>1, <1>2, <1>4, <1>5

-----------------------------------------------------------------------------
(* Marked and handed out.                                                  *)

\* While neither the list nor the uploader moves, what is said of them stays.
LEMMA MarksStay ==
  ASSUME Marks, UNCHANGED <<fvect, up, upi>>,
         watchHist'.twice = watchHist.twice, watchHist'.wild = watchHist.wild
  PROVE  Marks'
<1>1. Even'
  BY DEF Marks, Even
<1>2. Placed'
  BY DEF Marks, Placed
<1>. QED BY <1>1, <1>2 DEF Marks

\* So it does when the uploader moves outside of get_filepath's accesses.
LEMMA MarksOutside ==
  ASSUME Marks, UNCHANGED <<fvect, watchHist>>,
         up \notin {"flag", "mark", "read"}, up' \notin {"flag", "mark", "read"}
  PROVE  Marks'
<1>1. Even'
  BY DEF Marks, Even
<1>2. Placed'
  BY DEF Placed
<1>. QED BY <1>1, <1>2 DEF Marks

\* An entry that is added is neither marked nor handed out, and moves no other.
LEMMA MarksAdd ==
  ASSUME Marks, WatchTypes, LoopInv, NEW f \in File, fvect' = Append(fvect, Fresh0(f)),
         UNCHANGED <<up, upi>>,
         watchHist'.twice = watchHist.twice, watchHist'.wild = watchHist.wild
  PROVE  Marks'
<1>1. fvect \in Seq(Listed) /\ upi \in Nat
  BY DEF WatchTypes
<1>2. /\ Len(fvect') = Len(fvect) + 1 /\ Len(fvect) \in Nat
      /\ \A i \in 1..Len(fvect) : fvect'[i] = fvect[i]
      /\ fvect'[Len(fvect) + 1].flag = fvect'[Len(fvect) + 1].out
  BY <1>1, AppendKeeps
<1>3. \A i \in 1..Len(fvect') : i \in 1..Len(fvect) \/ i = Len(fvect) + 1
  BY <1>2
<1>4. Even'
  BY <1>2, <1>3 DEF Marks, Even
<1>5. Placed'
  <2>1. ASSUME up \in {"flag", "mark", "read"}
        PROVE  upi <= Len(fvect') /\ fvect'[upi] = fvect[upi]
    <3>1. upi <= Len(fvect) /\ upi # 0
      BY <2>1 DEF Marks, Placed, LoopInv
    <3>. QED BY <1>1, <1>2, <3>1
  <2>. QED BY <2>1 DEF Marks, Placed
<1>. QED BY <1>4, <1>5 DEF Marks

\* An entry that goes moves the later ones, not those up to get_filepath's index.
LEMMA MarksErase ==
  ASSUME Marks, WatchTypes, LoopInv, NEW f, Erase(f), ~Undercut(f),
         UNCHANGED <<up, upi>> \/ (/\ up \notin {"flag", "mark", "read"}
                                  /\ up' \notin {"flag", "mark", "read"}),
         watchHist'.twice = watchHist.twice, watchHist'.wild = watchHist.wild
  PROVE  Marks'
<1>1. fvect \in Seq(Listed) /\ upi \in Nat
  BY DEF WatchTypes
<1>2. CASE Entries(f) = {} /\ fvect' = fvect
  <2>1. Even'
    BY <1>2 DEF Marks, Even
  <2>2. Placed'
    BY <1>2 DEF Marks, Placed
  <2>. QED BY <2>1, <2>2 DEF Marks
<1>3. CASE \E k \in Entries(f) :
             /\ \A j \in Entries(f) : k <= j
             /\ Len(fvect') = Len(fvect) - 1
             /\ \A i \in 1..(Len(fvect) - 1) :
                  fvect'[i] = IF i < k THEN fvect[i] ELSE fvect[i + 1]
  <2>1. PICK k \in 1..Len(fvect) :
             /\ fvect[k].filepath = f /\ k \in Entries(f)
             /\ Len(fvect') = Len(fvect) - 1
             /\ \A i \in 1..(Len(fvect) - 1) :
                  fvect'[i] = IF i < k THEN fvect[i] ELSE fvect[i + 1]
    BY <1>3 DEF Entries
  <2>2. Len(fvect) \in Nat
    BY <1>1
  <2>3. \A i \in 1..Len(fvect') :
          (i < k /\ i \in 1..Len(fvect) /\ fvect'[i] = fvect[i])
            \/ (i >= k /\ i + 1 \in 1..Len(fvect) /\ fvect'[i] = fvect[i + 1])
    BY <2>1, <2>2
  <2>4. up \in {"flag", "mark", "read"} => upi < k /\ upi # 0
    <3>1. up \in {"flag", "mark", "read"} => ~(k <= upi)
      BY <2>1 DEF Undercut
    <3>2. up \in {"flag", "mark", "read"} => upi # 0
      BY DEF LoopInv
    <3>. QED BY <1>1, <2>1, <3>1, <3>2
  <2>5. \A i \in 1..Len(fvect) :
          fvect[i].flag = fvect[i].out \/ (up = "read" /\ i = upi)
    BY DEF Marks, Even
  <2>6. Even'
    <3>. SUFFICES ASSUME NEW i \in 1..Len(fvect')
                  PROVE  fvect'[i].flag = fvect'[i].out \/ (up' = "read" /\ i = upi')
      BY DEF Even
    <3>1. CASE i < k /\ i \in 1..Len(fvect) /\ fvect'[i] = fvect[i]
      BY <2>5, <3>1
    <3>2. CASE i >= k /\ i + 1 \in 1..Len(fvect) /\ fvect'[i] = fvect[i + 1]
      <4>1. up = "read" => i + 1 # upi
        BY <1>1, <2>1, <2>4, <3>2
      <4>. QED BY <2>5, <3>2, <4>1
    <3>. QED BY <2>3, <3>1, <3>2
  <2>7. Placed'
    <3>1. ASSUME up \in {"flag", "mark", "read"}
          PROVE  upi <= Len(fvect') /\ fvect'[upi] = fvect[upi]
      <4>1. upi < k /\ upi # 0
        BY <2>4, <3>1
      <4>2. upi \in 1..(Len(fvect) - 1)
        BY <1>1, <2>1, <2>2, <4>1
      <4>. QED BY <2>1, <2>2, <4>1, <4>2
    <3>. QED BY <3>1 DEF Marks, Placed
  <2>. QED BY <2>6, <2>7 DEF Marks
<1>. QED BY <1>1, <1>2, <1>3, EraseEffect

LEMMA WatchInitInv == WatchInit => HandInv
<1>. SUFFICES ASSUME WatchInit PROVE HandInv
  OBVIOUS
<1>1. WatchTypes
  <2>0. AName \in Names
    BY NamesAssumption DEF AName
  <2>1. <<>> \in Seq(Listed) /\ <<>> \in Seq(FileEvent)
    BY EmptySeq
  <2>2. Whole(AName) \in File /\ Part(AName) \in File
    BY <2>0 DEF Whole, Part, File
  <2>3. dir \subseteq {Whole(AName), Part(AName)}
    BY DEF WatchInit
  <2>4. IsFiniteSet({Whole(AName)} \cup {Part(AName)})
    BY FS_Singleton, FS_Union
  <2>5. IsFiniteSet(dir)
    <3>1. dir \in SUBSET ({Whole(AName)} \cup {Part(AName)})
      BY <2>3
    <3>. QED BY <2>4, <3>1, FS_Subset
  <2>6. nested \subseteq {AName}
    BY DEF WatchInit
  <2>7. watchHist \in HistType
    BY DEF WatchInit, HistType
  <2>. QED BY <2>1, <2>2, <2>3, <2>5, <2>6, <2>7 DEF WatchInit, WatchTypes
<1>2. Even
  <2>1. Len(fvect) = 0
    BY EmptySeq DEF WatchInit
  <2>. QED BY <2>1 DEF Even
<1>3. Placed /\ LoopInv /\ ~watchHist.twice /\ ~watchHist.wild
  BY DEF WatchInit, LoopInv, Placed
<1>. QED BY <1>1, <1>2, <1>3 DEF HandInv, Marks

\* The queue keeps its type.
LEMMA PostType ==
  ASSUME inq \in Seq(FileEvent), NEW f \in File,
         NEW mask \in {"IN_CREATE", "IN_MOVED_TO", "IN_DELETE"}, Post(mask, f)
  PROVE  inq' \in Seq(FileEvent) /\ (monitor = "scan" => inq' = inq)
<1>1. [mask |-> mask, file |-> f] \in FileEvent
  BY DEF FileEvent
<1>2. Append(inq, [mask |-> mask, file |-> f]) \in Seq(FileEvent)
  BY <1>1, AppendProperties
<1>. QED BY <1>2 DEF Post

\* A file that appears touches neither the list nor the uploader.
LEMMA AppearsInv ==
  ASSUME HandInv, NEW f \in File, NEW mask \in {"IN_CREATE", "IN_MOVED_TO"}, Appears(mask, f),
         dir' \subseteq File, IsFiniteSet(dir')
  PROVE  HandInv'
<1>1. inq' \in Seq(FileEvent) /\ (monitor = "scan" => inq' = inq)
  BY PostType DEF HandInv, WatchTypes, Appears
<1>2. PICK m : m \in SUBSET File /\ watchHist' = [watchHist EXCEPT !.missed = m]
  <2>1. PICK m : /\ m = (IF monitor = "scan" \/ inq' # inq
                         THEN watchHist.missed \ {f} ELSE watchHist.missed \cup {f})
                 /\ watchHist' = [watchHist EXCEPT !.missed = m]
    BY DEF Appears
  <2>2. m \in SUBSET File
    BY <2>1 DEF HandInv, WatchTypes, HistType
  <2>. QED BY <2>1, <2>2
<1>3. watchHist \in HistType
  BY DEF HandInv, WatchTypes
<1>4. /\ watchHist' \in HistType /\ watchHist'.raced = watchHist.raced
      /\ watchHist'.twice = watchHist.twice /\ watchHist'.wild = watchHist.wild
  BY <1>2, <1>3 DEF HistType
<1>5. UNCHANGED <<fvect, nested, monitor, up, upi, upf>>
  BY DEF Appears
<1>6. WatchTypes'
  BY <1>1, <1>4, <1>5 DEF HandInv, WatchTypes
<1>7. Marks => Marks'
  BY <1>4, <1>5, MarksStay
<1>8. LoopInv'
  BY <1>1, <1>5 DEF HandInv, LoopInv
<1>. QED BY <1>4, <1>6, <1>7, <1>8 DEF HandInv

\* An event that is handled.
LEMMA EventInv == ASSUME HandInv, watch_inotify_events PROVE HandInv'
<1>. DEFINE e == Head(inq)
            raced == e.mask = "IN_DELETE" /\ Undercut(e.file)
<1>1. WatchTypes /\ LoopInv /\ fvect \in Seq(Listed) /\ inq \in Seq(FileEvent)
  BY DEF HandInv, WatchTypes
<1>2. inq # <<>> /\ e \in FileEvent /\ inq' \in Seq(FileEvent)
  BY <1>1, HeadTailProperties DEF watch_inotify_events
<1>3. e.file \in File
  BY <1>2 DEF FileEvent
<1>4. watchHist \in HistType
  BY <1>1 DEF WatchTypes, HistType
<1>5. /\ watchHist' = [watchHist EXCEPT !.raced = watchHist.raced \/ raced]
      /\ UNCHANGED <<dir, nested, monitor, up, upi, upf, arrivals>>
  BY DEF watch_inotify_events
<1>6. /\ watchHist' \in HistType
      /\ watchHist'.twice = watchHist.twice /\ watchHist'.wild = watchHist.wild
      /\ watchHist'.raced = (watchHist.raced \/ raced)
  <2>1. (watchHist.raced \/ raced) \in BOOLEAN
    OBVIOUS
  <2>. HIDE DEF raced
  <2>. DEFINE b == watchHist.raced \/ raced
  <2>2. b \in BOOLEAN /\ watchHist' = [watchHist EXCEPT !.raced = b]
    BY <1>5, <2>1
  <2>. HIDE DEF b
  <2>3. /\ watchHist' \in HistType
        /\ watchHist'.twice = watchHist.twice /\ watchHist'.wild = watchHist.wild
        /\ watchHist'.raced = b
    BY <1>4, <2>2 DEF HistType
  <2>. QED BY <2>3 DEF b
<1>7. fvect' \in Seq(Listed) /\ (Marks => watchHist'.raced \/ Marks')
  <2>1. CASE e.mask = "IN_DELETE"
    <3>1. Erase(e.file)
      BY <2>1 DEF watch_inotify_events
    <3>2. fvect' \in Seq(Listed)
      BY <1>1, <3>1, EraseEffect
    <3>3. CASE Undercut(e.file)
      <4>1. raced
        BY <2>1, <3>3
      <4>. QED BY <1>6, <3>2, <4>1
    <3>4. CASE ~Undercut(e.file)
      <4>1. Marks => Marks'
        BY <1>1, <1>5, <1>6, <3>1, <3>4, MarksErase
      <4>. QED BY <3>2, <4>1
    <3>. QED BY <3>3, <3>4
  <2>2. CASE e.mask # "IN_DELETE" /\ ~e.file.part
    <3>1. fvect' = Append(fvect, Fresh0(e.file))
      BY <2>2 DEF watch_inotify_events
    <3>2. fvect' \in Seq(Listed)
      BY <1>1, <1>3, <3>1, AppendKeeps
    <3>3. Marks => Marks'
      BY <1>1, <1>3, <1>5, <1>6, <3>1, MarksAdd
    <3>. QED BY <3>2, <3>3
  <2>3. CASE e.mask # "IN_DELETE" /\ e.file.part
    <3>1. fvect' = fvect
      BY <2>3 DEF watch_inotify_events
    <3>2. Marks => Marks'
      BY <1>5, <1>6, <3>1, MarksStay
    <3>. QED BY <1>1, <3>1, <3>2
  <2>. QED BY <2>1, <2>2, <2>3
<1>8. WatchTypes'
  BY <1>1, <1>2, <1>5, <1>6, <1>7 DEF WatchTypes, HistType
<1>9. LoopInv'
  BY <1>1, <1>2, <1>5 DEF LoopInv
<1>10. watchHist.raced => watchHist'.raced
  BY <1>6
<1>. QED BY <1>7, <1>8, <1>9, <1>10 DEF HandInv

\* The scan: what it lists is neither marked nor handed out.
LEMMA ScanInv ==
  ASSUME HandInv, Filelist
  PROVE  HandInv' /\ \A f \in dir : Entries(f)' # {}
<1>1. WatchTypes /\ LoopInv /\ monitor = "scan" /\ up = "idle" /\ inq = <<>>
  BY DEF HandInv, Filelist, LoopInv
<1>2. PICK s \in SetToSeqs(readFilevect_files) :
             fvect' = [k \in 1..Len(s) |-> Fresh0(s[k][1])]
  BY DEF Filelist
<1>3. /\ s \in Seq(readFilevect_files)
      /\ \A x \in readFilevect_files : \E k \in 1..Len(s) : s[k] = x
  BY <1>1, <1>2, ScanFinite, ScanSeq
<1>4. Len(s) \in Nat /\ \A k \in 1..Len(s) : s[k] \in readFilevect_files
  BY <1>3
<1>5. \A k \in 1..Len(s) : s[k][1] \in File
  BY <1>1, <1>4, ScanFinite
<1>6. \A f \in File : /\ Fresh0(f) \in Listed /\ Fresh0(f).filepath = f
                      /\ Fresh0(f).flag = Fresh0(f).out
  BY DEF Fresh0, Listed
<1>7. \A k \in 1..Len(s) : fvect'[k].flag = fvect'[k].out /\ fvect'[k].filepath = s[k][1]
  BY <1>2, <1>5, <1>6
<1>8. fvect' \in [1..Len(s) -> Listed]
  BY <1>2, <1>5, <1>6
<1>9. fvect' \in Seq(Listed) /\ Len(fvect') = Len(s)
  BY <1>4, <1>8
<1>10. monitor' = "start" /\ UNCHANGED <<dir, nested, inq, up, upi, upf, arrivals, watchHist>>
  BY DEF Filelist
<1>11. WatchTypes'
  BY <1>1, <1>9, <1>10 DEF WatchTypes
<1>12. Even'
  BY <1>7, <1>9 DEF Even
<1>13. Placed' /\ LoopInv'
  BY <1>1, <1>10 DEF LoopInv, Placed
<1>14. Marks => Marks'
  BY <1>10, <1>12, <1>13 DEF Marks
<1>15. ASSUME NEW f \in dir PROVE Entries(f)' # {}
  <2>1. PICK x \in readFilevect_files : x[1] = f
    BY <1>1, ScanFinite
  <2>2. PICK k \in 1..Len(s) : s[k] = x
    BY <1>3
  <2>. QED BY <1>7, <1>9, <2>1, <2>2 DEF Entries
<1>. QED BY <1>10, <1>11, <1>13, <1>14, <1>15 DEF HandInv

\* One field of the entry at get_filepath's index is written: the list keeps its length, its
\* paths and its other entries.
LEMMA EntryWritten ==
  ASSUME fvect \in Seq(Listed), NEW i \in 1..Len(fvect), NEW r \in Listed,
         r.filepath = fvect[i].filepath, fvect' = [fvect EXCEPT ![i] = r]
  PROVE  /\ fvect' \in Seq(Listed) /\ Len(fvect') = Len(fvect)
         /\ fvect'[i] = r
         /\ \A k \in 1..Len(fvect) : k # i => fvect'[k] = fvect[k]
         /\ \A f : Entries(f)' = Entries(f)
<1>1. DOMAIN fvect = 1..Len(fvect) /\ \A k \in 1..Len(fvect) : fvect[k] \in Listed
  OBVIOUS
<1>2. fvect' \in [1..Len(fvect) -> Listed]
  BY <1>1
<1>3. fvect' \in Seq(Listed) /\ Len(fvect') = Len(fvect)
  BY <1>2
<1>4. fvect'[i] = r /\ \A k \in 1..Len(fvect) : k # i => fvect'[k] = fvect[k]
  BY <1>1
<1>5. \A k \in 1..Len(fvect) : fvect'[k].filepath = fvect[k].filepath
  BY <1>4
<1>6. \A f : Entries(f)' = Entries(f)
  BY <1>3, <1>5 DEF Entries
<1>. QED BY <1>3, <1>4, <1>6

\* get_filepath marks the entry at its index: the one it saw unmarked, if nothing raced.
LEMMA MarkInv ==
  ASSUME HandInv, GetMark
  PROVE  HandInv' /\ \A f : Entries(f)' = Entries(f)
<1>1. /\ WatchTypes /\ LoopInv /\ up = "mark" /\ up' = "read"
      /\ fvect \in Seq(Listed) /\ upi \in Nat /\ upi <= Len(fvect)
      /\ UNCHANGED <<dir, nested, monitor, inq, upi, upf, arrivals, watchHist>>
  BY DEF HandInv, WatchTypes, GetMark
<1>2. upi \in 1..Len(fvect) /\ monitor # "scan" /\ upi # 0
  BY <1>1 DEF LoopInv
<1>3. PICK r : r = [fvect[upi] EXCEPT !.flag = 1]
  OBVIOUS
<1>4. fvect[upi] \in Listed
  BY <1>1, <1>2
<1>5. /\ r \in Listed /\ r.filepath = fvect[upi].filepath
      /\ r.flag = 1 /\ r.out = fvect[upi].out
  BY <1>3, <1>4 DEF Listed
<1>6. fvect' = [fvect EXCEPT ![upi] = r]
  BY <1>3 DEF GetMark
<1>7. /\ fvect' \in Seq(Listed) /\ Len(fvect') = Len(fvect)
      /\ fvect'[upi] = r
      /\ \A k \in 1..Len(fvect) : k # upi => fvect'[k] = fvect[k]
      /\ \A f : Entries(f)' = Entries(f)
  BY <1>1, <1>2, <1>5, <1>6, EntryWritten
<1>8. WatchTypes'
  BY <1>1, <1>7 DEF WatchTypes
<1>9. LoopInv'
  BY <1>1, <1>2 DEF LoopInv
<1>10. ASSUME Marks PROVE Marks'
  <2>1. Even'
    BY <1>1, <1>7, <1>10 DEF Marks, Even
  <2>2. fvect[upi].flag = 0 /\ fvect[upi].flag = fvect[upi].out
    BY <1>1, <1>2, <1>10 DEF Marks, Even, Placed
  <2>3. Placed'
    BY <1>1, <1>5, <1>7, <2>2 DEF Placed
  <2>. QED BY <1>1, <1>10, <2>1, <2>3 DEF Marks
<1>. QED BY <1>1, <1>7, <1>8, <1>9, <1>10 DEF HandInv

\* It hands the path at its index out: of the entry it marked, if nothing raced.
LEMMA PathInv ==
  ASSUME HandInv, GetPath
  PROVE  /\ HandInv' /\ \A f : Entries(f)' = Entries(f)
         /\ watchHist'.missed = watchHist.missed
<1>1. /\ WatchTypes /\ LoopInv /\ up = "read" /\ up' = "have" /\ upi' = 0
      /\ fvect \in Seq(Listed) /\ upi \in Nat /\ upi <= Len(fvect)
      /\ UNCHANGED <<dir, nested, monitor, inq, arrivals>> /\ watchHist \in HistType
  BY DEF HandInv, WatchTypes, GetPath
<1>2. upi \in 1..Len(fvect) /\ monitor # "scan"
  BY <1>1 DEF LoopInv
<1>3. PICK r : r = [fvect[upi] EXCEPT !.out = 1]
  OBVIOUS
<1>4. fvect[upi] \in Listed /\ fvect[upi].filepath \in File
  <2>1. fvect[upi] \in Listed
    BY <1>1, <1>2
  <2>. QED BY <2>1 DEF Listed
<1>5. /\ r \in Listed /\ r.filepath = fvect[upi].filepath
      /\ r.out = 1 /\ r.flag = fvect[upi].flag
  BY <1>3, <1>4 DEF Listed
<1>6. fvect' = [fvect EXCEPT ![upi] = r] /\ upf' \in File
  BY <1>3, <1>4 DEF GetPath
<1>7. /\ fvect' \in Seq(Listed) /\ Len(fvect') = Len(fvect)
      /\ fvect'[upi] = r
      /\ \A k \in 1..Len(fvect) : k # upi => fvect'[k] = fvect[k]
      /\ \A f : Entries(f)' = Entries(f)
  BY <1>1, <1>2, <1>5, <1>6, EntryWritten
<1>8. PICK b \in BOOLEAN : /\ b = (watchHist.twice \/ fvect[upi].out = 1)
                           /\ watchHist' = [watchHist EXCEPT !.twice = b]
  BY DEF GetPath
<1>9. /\ watchHist' \in HistType /\ watchHist'.raced = watchHist.raced
      /\ watchHist'.twice = b /\ watchHist'.wild = watchHist.wild
      /\ watchHist'.missed = watchHist.missed
  BY <1>1, <1>8 DEF HistType
<1>10. WatchTypes'
  BY <1>1, <1>6, <1>7, <1>9 DEF WatchTypes
<1>11. LoopInv'
  BY <1>1, <1>2 DEF LoopInv
<1>12. ASSUME Marks PROVE Marks'
  <2>1. fvect[upi].flag = 1 /\ fvect[upi].out = 0
    BY <1>1, <1>12 DEF Marks, Placed
  <2>2. ~b
    <3>1. ~(fvect[upi].out = 1)
      BY <2>1
    <3>. QED BY <1>8, <1>12, <3>1 DEF Marks
  <2>3. \A k \in 1..Len(fvect) : k # upi => fvect[k].flag = fvect[k].out
    BY <1>12 DEF Marks, Even
  <2>4. \A k \in 1..Len(fvect) : fvect'[k].flag = fvect'[k].out
    BY <1>5, <1>7, <2>1, <2>3
  <2>5. Even'
    BY <1>7, <2>4 DEF Even
  <2>6. Placed'
    BY <1>1 DEF Placed
  <2>. QED BY <1>9, <1>12, <2>2, <2>5, <2>6 DEF Marks
<1>. QED BY <1>7, <1>9, <1>10, <1>11, <1>12 DEF HandInv

\* The index is past the end only after a race.
LEMMA WildInv ==
  ASSUME HandInv, Wild PROVE HandInv' /\ watchHist'.missed = watchHist.missed
<1>1. /\ WatchTypes /\ LoopInv /\ up \in {"flag", "mark", "read"} /\ up' = "lost"
      /\ fvect \in Seq(Listed) /\ upi \in Nat /\ ~(upi <= Len(fvect))
      /\ UNCHANGED <<fvect, dir, nested, monitor, inq, upi, upf, arrivals>>
      /\ watchHist \in HistType /\ watchHist' = [watchHist EXCEPT !.wild = TRUE]
  BY DEF HandInv, WatchTypes, Wild
<1>2. watchHist.raced
  BY <1>1 DEF HandInv, Marks, Placed
<1>3. /\ watchHist' \in HistType /\ watchHist'.raced = watchHist.raced
      /\ watchHist'.missed = watchHist.missed
  BY <1>1 DEF HistType
<1>4. WatchTypes'
  BY <1>1, <1>3 DEF WatchTypes
<1>5. LoopInv'
  BY <1>1 DEF LoopInv
<1>. QED BY <1>2, <1>3, <1>4, <1>5 DEF HandInv

\* The flag is looked at, and then either the next entry or the mark follows.
LEMMA FlagInv == ASSUME HandInv, GetFlag PROVE HandInv'
<1>1. /\ WatchTypes /\ LoopInv /\ up = "flag" /\ upi \in Nat /\ upi <= Len(fvect)
      /\ UNCHANGED <<fvect, dir, nested, monitor, inq, upf, arrivals, watchHist>>
  BY DEF HandInv, WatchTypes, GetFlag
<1>2. \/ fvect[upi].flag = 0 /\ up' = "mark" /\ upi' = upi
      \/ up' = "size" /\ upi' = upi + 1
  BY DEF GetFlag
<1>3. upi' \in Nat /\ upi' # 0
  BY <1>1, <1>2 DEF LoopInv
<1>4. WatchTypes'
  BY <1>1, <1>3 DEF WatchTypes
<1>5. LoopInv'
  BY <1>1, <1>2, <1>3 DEF LoopInv
<1>6. ASSUME Marks PROVE Marks'
  <2>1. Even'
    BY <1>1, <1>6 DEF Marks, Even
  <2>2. Placed'
    BY <1>1, <1>2 DEF Placed
  <2>. QED BY <1>1, <1>6, <2>1, <2>2 DEF Marks
<1>. QED BY <1>1, <1>4, <1>5, <1>6 DEF HandInv

\* The size is looked at.
LEMMA SizeInv == ASSUME HandInv, GetSize PROVE HandInv'
<1>1. /\ WatchTypes /\ LoopInv /\ up = "size" /\ upi \in Nat
      /\ UNCHANGED <<fvect, dir, nested, monitor, inq, upf, arrivals, watchHist>>
  BY DEF HandInv, WatchTypes, GetSize
<1>2. (upi <= Len(fvect) /\ up' = "flag" /\ upi' = upi) \/ (up' = "idle" /\ upi' = 0)
  BY DEF GetSize
<1>3. WatchTypes'
  BY <1>1, <1>2 DEF WatchTypes
<1>4. LoopInv'
  BY <1>1, <1>2 DEF LoopInv
<1>5. ASSUME Marks PROVE Marks'
  <2>1. Even'
    BY <1>1, <1>5 DEF Marks, Even
  <2>2. Placed'
    BY <1>1, <1>2 DEF Placed
  <2>. QED BY <1>1, <1>5, <2>1, <2>2 DEF Marks
<1>. QED BY <1>1, <1>3, <1>4, <1>5 DEF HandInv

\* The uploader clears the file it has.
LEMMA ClearInv == ASSUME HandInv, clear_filepath PROVE HandInv'
<1>1. WatchTypes /\ LoopInv /\ Erase(upf) /\ fvect \in Seq(Listed)
  BY DEF HandInv, WatchTypes, clear_filepath
<1>2. UNCHANGED <<dir, nested, monitor, inq, upi, upf, arrivals, watchHist>>
  BY DEF clear_filepath
<1>3. up \in {"have", "half"} /\ up' \in {"half", "idle"}
  BY DEF clear_filepath
<1>4. fvect' \in Seq(Listed)
  BY <1>1, EraseEffect
<1>5. ~Undercut(upf)
  BY <1>3 DEF Undercut
<1>6. up \notin {"flag", "mark", "read"} /\ up' \notin {"flag", "mark", "read"}
  BY <1>3
<1>7. Marks => Marks'
  BY <1>1, <1>2, <1>5, <1>6, MarksErase
<1>8. WatchTypes'
  BY <1>1, <1>2, <1>4 DEF WatchTypes
<1>9. LoopInv'
  BY <1>1, <1>2, <1>3 DEF LoopInv
<1>. QED BY <1>2, <1>7, <1>8, <1>9 DEF HandInv

\* The uploader deletes the file it has.
LEMMA UnlinkInv == ASSUME HandInv, Unlink PROVE HandInv'
<1>1. WatchTypes /\ LoopInv
  BY DEF HandInv
<1>2. dir' = dir \ {upf} /\ UNCHANGED <<fvect, nested, monitor, upi, upf, arrivals, watchHist>>
  BY DEF Unlink
<1>3. inq' \in Seq(FileEvent)
  <2>1. CASE upf \in dir
    <3>1. Post("IN_DELETE", upf) /\ upf \in File
      BY <1>1, <2>1 DEF Unlink, WatchTypes
    <3>. QED BY <1>1, <3>1, PostType DEF WatchTypes
  <2>2. CASE upf \notin dir
    BY <1>1, <2>2 DEF Unlink, WatchTypes
  <2>. QED BY <2>1, <2>2
<1>4. IsFiniteSet(dir')
  BY <1>1, <1>2, FS_RemoveElement DEF WatchTypes
<1>5. WatchTypes'
  BY <1>1, <1>2, <1>3, <1>4 DEF WatchTypes
<1>6. up \in {"have", "half"} /\ up' \in {"half", "idle"}
  BY DEF Unlink
<1>7. up \notin {"flag", "mark", "read"} /\ up' \notin {"flag", "mark", "read"}
  BY <1>6
<1>8. Marks => Marks'
  BY <1>2, <1>7, MarksOutside
<1>9. LoopInv'
  BY <1>1, <1>2, <1>6 DEF LoopInv
<1>. QED BY <1>2, <1>5, <1>8, <1>9 DEF HandInv

LEMMA WatchStepInv == HandInv /\ [WatchNext]_watchVars => HandInv'
<1>. SUFFICES ASSUME HandInv, [WatchNext]_watchVars PROVE HandInv'
  OBVIOUS
<1>0. WatchTypes /\ LoopInv
  BY DEF HandInv
<1>1. ASSUME NEW f \in File, Create(f) PROVE HandInv'
  <2>1. dir' = dir \cup {f} /\ Appears("IN_CREATE", f)
    BY <1>1 DEF Create
  <2>2. dir' \subseteq File /\ IsFiniteSet(dir')
    BY <1>0, <2>1, FS_AddElement DEF WatchTypes
  <2>. QED BY <2>1, <2>2, AppearsInv
<1>2. ASSUME NEW n \in Names, Rename(n) PROVE HandInv'
  <2>1. dir' = (dir \ {Part(n)}) \cup {Whole(n)} /\ Appears("IN_MOVED_TO", Whole(n))
    BY <1>2 DEF Rename
  <2>2. Whole(n) \in File
    BY DEF Whole, File
  <2>3. IsFiniteSet(dir \ {Part(n)})
    BY <1>0, FS_RemoveElement DEF WatchTypes
  <2>4. dir' \subseteq File /\ IsFiniteSet(dir')
    BY <1>0, <2>1, <2>2, <2>3, FS_AddElement DEF WatchTypes
  <2>. QED BY <2>1, <2>2, <2>4, AppearsInv
<1>3. ASSUME NEW n \in Names, set_filepath(Whole(n)) PROVE HandInv'
  <2>1. Whole(n) \in File
    BY DEF Whole, File
  <2>2. /\ monitor # "scan" /\ up = "idle" /\ fvect' = Append(fvect, Fresh0(Whole(n)))
        /\ UNCHANGED <<dir, nested, monitor, inq, up, upi, upf, watchHist>>
    BY <1>3 DEF set_filepath
  <2>3. fvect' \in Seq(Listed)
    BY <1>0, <2>1, <2>2, AppendKeeps DEF WatchTypes
  <2>4. Marks => Marks'
    BY <1>0, <2>1, <2>2, MarksAdd
  <2>5. WatchTypes'
    BY <1>0, <2>2, <2>3 DEF WatchTypes
  <2>6. LoopInv'
    BY <2>2 DEF LoopInv
  <2>. QED BY <2>2, <2>4, <2>5, <2>6 DEF HandInv
<1>4. CASE Filelist
  BY <1>4, ScanInv
<1>5. CASE file_monitor_thread
  <2>1. /\ monitor = "start" /\ monitor' \in {"watch", "blind"}
        /\ UNCHANGED <<fvect, dir, nested, inq, up, upi, upf, arrivals, watchHist>>
    BY <1>5 DEF file_monitor_thread
  <2>2. WatchTypes'
    BY <1>0, <2>1 DEF WatchTypes
  <2>3. LoopInv'
    BY <1>0, <2>1 DEF LoopInv
  <2>4. Marks => Marks'
    BY <2>1, MarksStay
  <2>. QED BY <2>1, <2>2, <2>3, <2>4 DEF HandInv
<1>6. CASE watch_inotify_events
  BY <1>6, EventInv
<1>7. CASE get_filepath \/ GiveUp
  <2>1. /\ UNCHANGED <<fvect, dir, nested, monitor, inq, upf, arrivals, watchHist>>
        /\ up \in {"idle", "have"} /\ up' \in {"size", "idle"} /\ upi' \in {1, upi}
        /\ up' = "size" => monitor # "scan" /\ upi' = 1
    BY <1>7 DEF get_filepath, GiveUp
  <2>2. WatchTypes'
    BY <1>0, <2>1 DEF WatchTypes
  <2>3. LoopInv'
    BY <1>0, <2>1 DEF LoopInv
  <2>4. up \notin {"flag", "mark", "read"} /\ up' \notin {"flag", "mark", "read"}
    BY <2>1
  <2>5. Marks => Marks'
    BY <2>1, <2>4, MarksOutside
  <2>. QED BY <2>1, <2>2, <2>3, <2>5 DEF HandInv
<1>8. CASE GetSize \/ GetFlag \/ Wild
  BY <1>8, SizeInv, FlagInv, WildInv
<1>9. CASE GetMark \/ GetPath
  BY <1>9, MarkInv, PathInv
<1>10. CASE clear_filepath \/ Unlink
  BY <1>10, ClearInv, UnlinkInv
<1>11. CASE UNCHANGED watchVars
  <2>1. UNCHANGED <<fvect, dir, nested, monitor, inq, up, upi, upf, arrivals, watchHist>>
    BY <1>11 DEF watchVars
  <2>2. WatchTypes'
    BY <1>0, <2>1 DEF WatchTypes
  <2>3. LoopInv'
    BY <1>0, <2>1 DEF LoopInv
  <2>4. Marks => Marks'
    BY <2>1, MarksStay
  <2>. QED BY <2>1, <2>2, <2>3, <2>4 DEF HandInv
<1>. QED BY <1>1, <1>2, <1>3, <1>4, <1>5, <1>6, <1>7, <1>8, <1>9, <1>10, <1>11 DEF WatchNext

\* The inductive invariant of the watching list holds in every reachable state: unless an
\* entry was erased under get_filepath (filelist_inotify.cpp:81-97, 174-187), the entry it
\* has looked at is still at its index and every other one is marked exactly when it was
\* handed out; for any number of files, events and calls, and files that could not be sent.
THEOREM WatchInvariant == WatchSpec => []HandInv
  BY WatchInitInv, WatchStepInv, PTL DEF WatchSpec

\* The marked entries are the ones handed out, none twice, and no index past the end is used
\* by get_filepath (filelist_inotify.cpp:81-97), for any number of files, events and uploads
\* that succeed or fail; except after an entry was erased between two of its accesses.
THEOREM WatchHandOutSound == WatchSpec => []HandOutSound
<1>1. HandInv => HandOutSound
  BY DEF HandInv, Marks, Even, HandOutSound
<1>. QED BY <1>1, WatchInvariant, PTL

-----------------------------------------------------------------------------
(* Every finished file is listed.                                          *)

\* A new event hides nothing that an older one says of another file, and one that says
\* that a file came leaves no doubt about it.
LEMMA PostTells ==
  ASSUME inq \in Seq(FileEvent), NEW f \in File,
         NEW mask \in {"IN_CREATE", "IN_MOVED_TO", "IN_DELETE"}, Post(mask, f)
  PROVE  /\ \A g : (g # f \/ mask # "IN_DELETE") =>
               (LastIsAdd(g) => LastIsAdd(g)') /\ (NoDelete(g) => NoDelete(g)')
         /\ inq' # inq /\ mask # "IN_DELETE" => LastIsAdd(f)'
<1>. DEFINE e == [mask |-> mask, file |-> f]
<1>1. CASE inq' = inq
  BY <1>1 DEF LastIsAdd, NoDelete
<1>2. CASE inq' # inq
  <2>0. e \in FileEvent /\ e.mask = mask /\ e.file = f
    BY DEF FileEvent
  <2>1. inq' = Append(inq, e)
    BY <1>2 DEF Post
  <2>. HIDE DEF e
  <2>2. /\ inq' \in Seq(FileEvent) /\ Len(inq') = Len(inq) + 1
        /\ \A i \in 1..Len(inq) : inq'[i] = inq[i]
        /\ inq'[Len(inq) + 1] = e /\ Len(inq) \in Nat
    BY <2>0, <2>1, AppendProperties
  <2>3. \A i \in 1..Len(inq') : i \in 1..Len(inq) \/ i = Len(inq) + 1
    BY <2>2
  <2>4. ASSUME NEW g, g # f \/ mask # "IN_DELETE", NoDelete(g) PROVE NoDelete(g)'
    BY <2>0, <2>2, <2>3, <2>4 DEF NoDelete
  <2>5. ASSUME NEW g, g # f \/ mask # "IN_DELETE", LastIsAdd(g) PROVE LastIsAdd(g)'
    <3>1. PICK k \in 1..Len(inq) :
             /\ inq[k].file = g /\ inq[k].mask # "IN_DELETE"
             /\ \A j \in 1..Len(inq) : j > k /\ inq[j].file = g => inq[j].mask # "IN_DELETE"
      BY <2>5 DEF LastIsAdd
    <3>2. k \in 1..Len(inq') /\ inq'[k].file = g /\ inq'[k].mask # "IN_DELETE"
      BY <2>2, <3>1
    <3>3. \A j \in 1..Len(inq') : j > k /\ inq'[j].file = g => inq'[j].mask # "IN_DELETE"
      BY <2>0, <2>2, <2>3, <2>5, <3>1
    <3>. QED BY <3>2, <3>3 DEF LastIsAdd
  <2>6. ASSUME mask # "IN_DELETE" PROVE LastIsAdd(f)'
    <3>1. Len(inq) + 1 \in 1..Len(inq') /\ inq'[Len(inq) + 1].file = f
          /\ inq'[Len(inq) + 1].mask # "IN_DELETE"
      BY <2>0, <2>2, <2>6
    <3>2. \A j \in 1..Len(inq') : ~(j > Len(inq) + 1)
      BY <2>2
    <3>. QED BY <3>1, <3>2 DEF LastIsAdd
  <2>. QED BY <2>4, <2>5, <2>6
<1>. QED BY <1>1, <1>2

\* Handling the first event: what the later ones say stays.
LEMMA HandledTells ==
  ASSUME inq \in Seq(FileEvent), inq # <<>>, inq' = Tail(inq), NEW g
  PROVE  /\ NoDelete(g) => NoDelete(g)' /\ ~(Head(inq).file = g /\ Head(inq).mask = "IN_DELETE")
         /\ LastIsAdd(g) => \/ LastIsAdd(g)'
                            \/ /\ Head(inq).file = g /\ Head(inq).mask # "IN_DELETE"
                               /\ NoDelete(g)'
<1>1. /\ inq' \in Seq(FileEvent) /\ Len(inq') = Len(inq) - 1 /\ Len(inq) \in Nat \ {0}
      /\ \A i \in 1..(Len(inq) - 1) : inq'[i] = inq[i + 1]
      /\ Head(inq) = inq[1] /\ 1 \in 1..Len(inq)
  <2>1. Len(inq) \in Nat \ {0}
    BY EmptySeq
  <2>. QED BY <2>1, HeadTailProperties
<1>2. \A i \in 1..Len(inq') : i + 1 \in 1..Len(inq) /\ inq'[i] = inq[i + 1]
  BY <1>1
<1>3. ASSUME NoDelete(g)
      PROVE  NoDelete(g)' /\ ~(Head(inq).file = g /\ Head(inq).mask = "IN_DELETE")
  <2>1. NoDelete(g)'
    BY <1>2, <1>3 DEF NoDelete
  <2>2. ~(Head(inq).file = g /\ Head(inq).mask = "IN_DELETE")
    BY <1>1, <1>3 DEF NoDelete
  <2>. QED BY <2>1, <2>2
<1>4. ASSUME LastIsAdd(g)
      PROVE  \/ LastIsAdd(g)'
             \/ Head(inq).file = g /\ Head(inq).mask # "IN_DELETE" /\ NoDelete(g)'
  <2>1. PICK k \in 1..Len(inq) :
             /\ inq[k].file = g /\ inq[k].mask # "IN_DELETE"
             /\ \A j \in 1..Len(inq) : j > k /\ inq[j].file = g => inq[j].mask # "IN_DELETE"
    BY <1>4 DEF LastIsAdd
  <2>2. CASE k = 1
    <3>1. Head(inq).file = g /\ Head(inq).mask # "IN_DELETE"
      BY <1>1, <2>1, <2>2
    <3>2. \A i \in 1..Len(inq') : inq'[i].file = g => inq'[i].mask # "IN_DELETE"
      <4>. TAKE i \in 1..Len(inq')
      <4>1. i + 1 \in 1..Len(inq) /\ inq'[i] = inq[i + 1] /\ i + 1 > k
        BY <1>1, <1>2, <2>2
      <4>. QED BY <2>1, <4>1
    <3>. QED BY <3>1, <3>2 DEF NoDelete
  <2>3. CASE k # 1
    <3>1. k - 1 \in 1..Len(inq') /\ inq'[k - 1] = inq[k]
      <4>1. k - 1 \in 1..Len(inq') /\ (k - 1) + 1 = k
        BY <1>1, <2>1, <2>3
      <4>. QED BY <1>2, <4>1
    <3>2. \A j \in 1..Len(inq') : j > k - 1 /\ inq'[j].file = g => inq'[j].mask # "IN_DELETE"
      <4>. TAKE j \in 1..Len(inq')
      <4>1. j + 1 \in 1..Len(inq) /\ inq'[j] = inq[j + 1] /\ (j > k - 1 => j + 1 > k)
        BY <1>1, <1>2, <2>1
      <4>. QED BY <2>1, <4>1
    <3>. QED BY <2>1, <3>1, <3>2 DEF LastIsAdd
  <2>. QED BY <2>2, <2>3
<1>. QED BY <1>3, <1>4

\* A file that appears is told of by an event, or counted as missed.
LEMMA AppearsTold ==
  ASSUME HandInv, NEW f \in File, NEW mask \in {"IN_CREATE", "IN_MOVED_TO"}, Appears(mask, f),
         monitor # "scan", NEW g, Told(g) \/ g = f
  PROVE  Told(g)'
<1>1. inq \in Seq(FileEvent) /\ watchHist \in HistType
  BY DEF HandInv, WatchTypes, HistType
<1>2. Post(mask, f) /\ UNCHANGED <<fvect, nested, monitor, up, upi, upf>>
  BY DEF Appears
<1>3. /\ (LastIsAdd(g) => LastIsAdd(g)') /\ (NoDelete(g) => NoDelete(g)')
      /\ inq' # inq => LastIsAdd(f)'
  BY <1>1, <1>2, PostTells
<1>4. Entries(g)' = Entries(g)
  BY <1>2 DEF Entries
<1>5. watchHist'.missed = IF inq' # inq THEN watchHist.missed \ {f} ELSE watchHist.missed \cup {f}
  BY <1>1 DEF Appears, HistType
<1>6. CASE g = f
  BY <1>3, <1>5, <1>6 DEF Told
<1>7. CASE g # f /\ Told(g)
  <2>1. g \in watchHist.missed => g \in watchHist'.missed
    BY <1>5, <1>7
  <2>. QED BY <1>2, <1>3, <1>4, <1>7, <2>1 DEF Told
<1>. QED BY <1>6, <1>7

\* An event is handled: a file that came is listed, and only the entry of a file that went
\* is erased.
LEMMA EventTold ==
  ASSUME HandInv, watch_inotify_events, NEW g \in File, Told(g)
  PROVE  Told(g)'
<1>. DEFINE e == Head(inq)
<1>1. /\ fvect \in Seq(Listed) /\ inq \in Seq(FileEvent) /\ watchHist \in HistType
      /\ inq # <<>> /\ inq' = Tail(inq)
  BY DEF HandInv, WatchTypes, HistType, watch_inotify_events
<1>2. e \in FileEvent /\ e.file \in File
  <2>1. e \in FileEvent
    BY <1>1, HeadTailProperties
  <2>. QED BY <2>1 DEF FileEvent
<1>3. UNCHANGED <<up, upf>> /\ watchHist'.missed = watchHist.missed
  <2>1. PICK b : watchHist' = [watchHist EXCEPT !.raced = b]
    BY DEF watch_inotify_events
  <2>. QED BY <1>1, <2>1 DEF watch_inotify_events, HistType
<1>4. CASE g.part \/ g \in watchHist.missed
  BY <1>3, <1>4 DEF Told
<1>5. CASE ~g.part /\ LastIsAdd(g)
  <2>1. CASE LastIsAdd(g)'
    BY <2>1 DEF Told
  <2>2. CASE e.file = g /\ e.mask # "IN_DELETE" /\ NoDelete(g)'
    <3>1. fvect' = Append(fvect, Fresh0(g))
      BY <1>5, <2>2 DEF watch_inotify_events
    <3>2. Entries(g)' # {}
      BY <1>1, <3>1, AppendKeeps
    <3>. QED BY <2>2, <3>2 DEF Told
  <2>. QED BY <1>1, <1>5, <2>1, <2>2, HandledTells
<1>6. CASE NoDelete(g) /\ (Entries(g) # {} \/ (up = "half" /\ upf = g))
  <2>1. NoDelete(g)' /\ ~(e.file = g /\ e.mask = "IN_DELETE")
    BY <1>1, <1>6, HandledTells
  <2>2. CASE up = "half" /\ upf = g
    BY <1>3, <2>1, <2>2 DEF Told
  <2>3. CASE Entries(g) # {}
    <3>1. CASE e.mask = "IN_DELETE"
      <4>1. Erase(e.file) /\ g # e.file
        BY <2>1, <3>1 DEF watch_inotify_events
      <4>2. Entries(g)' # {}
        BY <1>1, <2>3, <4>1, EraseKeepsOthers
      <4>. QED BY <2>1, <4>2 DEF Told
    <3>2. CASE e.mask # "IN_DELETE" /\ ~e.file.part
      <4>1. fvect' = Append(fvect, Fresh0(e.file))
        BY <3>2 DEF watch_inotify_events
      <4>2. Entries(g)' # {}
        BY <1>1, <1>2, <2>3, <4>1, AppendKeeps
      <4>. QED BY <2>1, <4>2 DEF Told
    <3>3. CASE e.mask # "IN_DELETE" /\ e.file.part
      <4>1. fvect' = fvect
        BY <3>3 DEF watch_inotify_events
      <4>2. Entries(g)' # {}
        BY <2>3, <4>1 DEF Entries
      <4>. QED BY <2>1, <4>2 DEF Told
    <3>. QED BY <3>1, <3>2, <3>3
  <2>. QED BY <1>6, <2>2, <2>3
<1>. QED BY <1>4, <1>5, <1>6 DEF Told

\* What is told of a file does not change while the queue, the missed files and its
\* entries stay, and the uploader is not between clearing and deleting.
LEMMA ToldStays ==
  ASSUME NEW g, Told(g), UNCHANGED <<inq, watchHist>>, Entries(g) # {} => Entries(g)' # {},
         up = "half" /\ upf = g => up' = "half" /\ upf' = g
  PROVE  Told(g)'
<1>1. (LastIsAdd(g) => LastIsAdd(g)') /\ (NoDelete(g) => NoDelete(g)')
  BY DEF LastIsAdd, NoDelete
<1>. QED BY <1>1 DEF Told

\* Every step keeps ListedInv, if the uploader clears before it deletes.
LEMMA ListedStepInv ==
  ASSUME ClearFirst, HandInv, ListedInv, [WatchNext]_watchVars
  PROVE  ListedInv'
<1>0. WatchTypes /\ LoopInv /\ fvect \in Seq(Listed) /\ inq \in Seq(FileEvent) /\ dir \subseteq File
  BY DEF HandInv, WatchTypes
<1>1. ASSUME NEW f \in File, Create(f) PROVE ListedInv'
  <2>1. dir' = dir \cup {f} /\ Appears("IN_CREATE", f) /\ monitor' = monitor
    BY <1>1 DEF Create, Appears
  <2>2. ASSUME monitor # "scan", NEW g \in dir' PROVE Told(g)'
    <3>1. Told(g) \/ g = f
      BY <2>1, <2>2 DEF ListedInv
    <3>. QED BY <2>1, <2>2, <3>1, AppearsTold
  <2>. QED BY <2>1, <2>2 DEF ListedInv
<1>2. ASSUME NEW n \in Names, Rename(n) PROVE ListedInv'
  <2>1. /\ dir' = (dir \ {Part(n)}) \cup {Whole(n)} /\ Appears("IN_MOVED_TO", Whole(n))
        /\ monitor' = monitor
    BY <1>2 DEF Rename, Appears
  <2>2. Whole(n) \in File
    BY DEF Whole, File
  <2>3. ASSUME monitor # "scan", NEW g \in dir' PROVE Told(g)'
    <3>1. Told(g) \/ g = Whole(n)
      BY <2>1, <2>3 DEF ListedInv
    <3>. QED BY <2>1, <2>2, <2>3, <3>1, AppearsTold
  <2>. QED BY <2>1, <2>3 DEF ListedInv
<1>3. ASSUME NEW n \in Names, set_filepath(Whole(n)) PROVE ListedInv'
  <2>1. Whole(n) \in File
    BY DEF Whole, File
  <2>2. /\ fvect' = Append(fvect, Fresh0(Whole(n)))
        /\ UNCHANGED <<dir, monitor, inq, up, upf, watchHist>>
    BY <1>3 DEF set_filepath
  <2>3. ASSUME monitor # "scan", NEW g \in dir PROVE Told(g)'
    <3>1. Told(g)
      BY <2>3 DEF ListedInv
    <3>2. Entries(g) # {} => Entries(g)' # {}
      BY <1>0, <2>1, <2>2, AppendKeeps
    <3>. QED BY <2>2, <3>1, <3>2, ToldStays
  <2>. QED BY <2>2, <2>3 DEF ListedInv
<1>4. CASE Filelist
  <2>1. dir' = dir /\ inq' = <<>>
    BY <1>0, <1>4 DEF Filelist, LoopInv
  <2>2. ASSUME NEW g \in dir PROVE Told(g)'
    <3>1. Entries(g)' # {}
      BY <1>4, ScanInv
    <3>2. NoDelete(g)'
      BY <2>1, EmptySeq DEF NoDelete
    <3>. QED BY <3>1, <3>2 DEF Told
  <2>. QED BY <2>1, <2>2 DEF ListedInv
<1>5. CASE file_monitor_thread \/ get_filepath \/ GetSize \/ GetFlag \/ GiveUp
  <2>1. UNCHANGED <<fvect, dir, inq, upf, watchHist>> /\ monitor # "scan"
    BY <1>0, <1>5 DEF file_monitor_thread, get_filepath, GetSize, GetFlag, GiveUp, LoopInv
  <2>2. up = "half" => up' = "half"
    BY <1>5 DEF file_monitor_thread, get_filepath, GetSize, GetFlag, GiveUp
  <2>3. ASSUME NEW g \in dir PROVE Told(g)'
    <3>1. Told(g)
      BY <2>1, <2>3 DEF ListedInv
    <3>2. Entries(g)' = Entries(g)
      BY <2>1 DEF Entries
    <3>. QED BY <2>1, <2>2, <3>1, <3>2, ToldStays
  <2>. QED BY <2>1, <2>3 DEF ListedInv
<1>6. CASE watch_inotify_events
  <2>1. UNCHANGED <<dir, monitor>>
    BY <1>6 DEF watch_inotify_events
  <2>2. ASSUME monitor # "scan", NEW g \in dir PROVE Told(g)'
    <3>1. Told(g) /\ g \in File
      BY <1>0, <2>2 DEF ListedInv
    <3>. QED BY <1>6, <3>1, EventTold
  <2>. QED BY <2>1, <2>2 DEF ListedInv
<1>7. CASE Wild \/ GetMark \/ GetPath
  <2>1. UNCHANGED <<dir, monitor, inq>> /\ up # "half" /\ monitor # "scan"
    BY <1>0, <1>7 DEF Wild, GetMark, GetPath, LoopInv
  <2>2. watchHist'.missed = watchHist.missed
    <3>1. CASE GetMark
      BY <3>1 DEF GetMark
    <3>. QED BY <1>7, <3>1, WildInv, PathInv
  <2>3. ASSUME NEW g \in dir PROVE Told(g)'
    <3>1. Told(g)
      BY <2>1, <2>3 DEF ListedInv
    <3>2. Entries(g)' = Entries(g)
      <4>1. CASE Wild
        BY <4>1 DEF Wild, Entries
      <4>. QED BY <1>7, <4>1, MarkInv, PathInv
    <3>3. (LastIsAdd(g) => LastIsAdd(g)') /\ (NoDelete(g) => NoDelete(g)')
      BY <2>1 DEF LastIsAdd, NoDelete
    <3>. QED BY <2>1, <2>2, <3>1, <3>2, <3>3 DEF Told
  <2>. QED BY <2>1, <2>3 DEF ListedInv
<1>8. CASE clear_filepath
  <2>1. /\ UNCHANGED <<dir, monitor, inq, upf, watchHist>> /\ Erase(upf)
        /\ up = "have" /\ up' = "half"
    BY <1>8 DEF clear_filepath
  <2>2. ASSUME monitor # "scan", NEW g \in dir PROVE Told(g)'
    <3>1. Told(g)
      BY <2>2 DEF ListedInv
    <3>2. CASE g = upf
      <4>1. (LastIsAdd(g) => LastIsAdd(g)') /\ (NoDelete(g) => NoDelete(g)')
        BY <2>1 DEF LastIsAdd, NoDelete
      <4>. QED BY <2>1, <3>1, <3>2, <4>1 DEF Told
    <3>3. CASE g # upf
      <4>1. Entries(g) # {} => Entries(g)' # {}
        BY <1>0, <2>1, <3>3, EraseKeepsOthers
      <4>. QED BY <2>1, <3>1, <4>1, ToldStays
    <3>. QED BY <3>2, <3>3
  <2>. QED BY <2>1, <2>2 DEF ListedInv
<1>9. CASE Unlink
  <2>1. /\ UNCHANGED <<fvect, monitor, upf, watchHist>> /\ dir' = dir \ {upf}
        /\ up = "half" /\ up' = "idle"
    BY <1>9 DEF Unlink
  <2>2. ASSUME monitor # "scan", NEW g \in dir' PROVE Told(g)'
    <3>1. Told(g) /\ g # upf
      BY <2>1, <2>2 DEF ListedInv
    <3>2. Entries(g)' = Entries(g)
      BY <2>1 DEF Entries
    <3>3. (LastIsAdd(g) => LastIsAdd(g)') /\ (NoDelete(g) => NoDelete(g)')
      <4>1. CASE upf \in dir
        <5>1. Post("IN_DELETE", upf) /\ upf \in File
          BY <1>0, <1>9, <4>1 DEF Unlink
        <5>. QED BY <1>0, <3>1, <5>1, PostTells
      <4>2. CASE upf \notin dir
        <5>1. inq' = inq
          BY <1>9, <4>2 DEF Unlink
        <5>. QED BY <5>1 DEF LastIsAdd, NoDelete
      <4>. QED BY <4>1, <4>2
    <3>. QED BY <2>1, <3>1, <3>2, <3>3 DEF Told
  <2>. QED BY <2>1, <2>2 DEF ListedInv
<1>10. CASE UNCHANGED watchVars
  <2>1. UNCHANGED <<fvect, dir, monitor, inq, up, upf, watchHist>>
    BY <1>10 DEF watchVars
  <2>2. ASSUME monitor # "scan", NEW g \in dir PROVE Told(g)'
    <3>1. Told(g)
      BY <2>2 DEF ListedInv
    <3>2. Entries(g)' = Entries(g)
      BY <2>1 DEF Entries
    <3>. QED BY <2>1, <3>1, <3>2, ToldStays
  <2>. QED BY <2>1, <2>2 DEF ListedInv
<1>. QED BY <1>1, <1>2, <1>3, <1>4, <1>5, <1>6, <1>7, <1>8, <1>9, <1>10 DEF WatchNext

\* With an uploader that clears a file before it deletes it (filelist_inotify.cpp:99-115), every
\* finished file is listed once the events are handled, unless it came before the watch
\* (line 216) or found the queue full: for any number of files, and any length of the queue.
THEOREM WatchSettledList == ASSUME ClearFirst PROVE WatchSpec => []SettledList
<1>1. WatchInit => ListedInv
  BY DEF WatchInit, ListedInv
<1>2. HandInv /\ ListedInv /\ [WatchNext]_watchVars => ListedInv'
  BY ListedStepInv
<1>3. ListedInv => SettledList
  <2>. SUFFICES ASSUME ListedInv, monitor # "scan", inq = <<>>, NEW f \in dir
                PROVE  f.part \/ f \in watchHist.missed \/ Entries(f) # {} \/ (up = "half" /\ upf = f)
    BY DEF SettledList
  <2>1. ~LastIsAdd(f)
    BY EmptySeq DEF LastIsAdd
  <2>. QED BY <2>1 DEF ListedInv, Told
<1>. QED BY <1>1, <1>2, <1>3, WatchInvariant, PTL DEF WatchSpec

-----------------------------------------------------------------------------
(* Quotients and remainders.                                               *)

\* A positive multiple of c is at least c.
LEMMA MulStep ==
  ASSUME NEW c \in Nat \ {0}, NEW k \in Int, k >= 1
  PROVE  c * k >= c /\ c * k \in Int
  OBVIOUS

\* Quotient and remainder make up the number.
LEMMA DivMod ==
  ASSUME NEW c \in Nat \ {0}, NEW a \in Int
  PROVE  /\ a = c * (a \div c) + (a % c)
         /\ a \div c \in Int
         /\ a % c \in 0..(c - 1)
  OBVIOUS

\* There is one quotient and one remainder.
LEMMA DivUnique ==
  ASSUME NEW c \in Nat \ {0}, NEW a \in Int, NEW q \in Int, NEW r \in 0..(c - 1), a = c * q + r
  PROVE  a % c = r /\ a \div c = q
<1> DEFINE q2 == a \div c
           r2 == a % c
<1>1. a = c * q2 + r2 /\ q2 \in Int /\ r2 \in 0..(c - 1)
  BY DivMod
<1> HIDE DEF q2, r2
<1>2. c * (q - q2) = r2 - r
  BY <1>1
<1>3. c * (q2 - q) = r - r2
  BY <1>1
<1>4. ~(q - q2 >= 1)
  BY <1>1, <1>2, MulStep
<1>5. ~(q2 - q >= 1)
  BY <1>1, <1>3, MulStep
<1>6. q = q2
  BY <1>1, <1>4, <1>5
<1> QED
  BY <1>1, <1>6 DEF q2, r2

\* A remainder taken early changes no remainder taken late.
LEMMA ModAdd ==
  ASSUME NEW c \in Nat \ {0}, NEW a \in Int, NEW b \in Int
  PROVE  ((a % c) + b) % c = (a + b) % c
<1> DEFINE q == a \div c
           r == a % c
<1>1. a = c * q + r /\ q \in Int /\ r \in 0..(c - 1)
  BY DivMod
<1> HIDE DEF q, r
<1> DEFINE n == r + b
           k == n \div c
           s == n % c
<1>n. n \in Int
  BY <1>1
<1> HIDE DEF n
<1>2. n = c * k + s /\ k \in Int /\ s \in 0..(c - 1)
  BY <1>n, DivMod
<1> HIDE DEF k, s
<1>3. a + b = c * (q + k) + s
  BY <1>1, <1>2 DEF n
<1>4. a + b \in Int /\ q + k \in Int
  BY <1>1, <1>2
<1>5. (a + b) % c = s
  BY <1>2, <1>3, <1>4, DivUnique, Zenon
<1> QED
  BY <1>5 DEF r, s, n

\* The difference of two readings of a counter that wraps
LEMMA ModDifference ==
  ASSUME NEW c \in Nat \ {0}, NEW a \in 0..(c - 1), NEW n \in Int
  PROVE  (((a + n) % c) - a) % c = n % c
<1>1. (a + n) + (-a) = n
  OBVIOUS
<1>2. (((a + n) % c) + (-a)) % c = ((a + n) + (-a)) % c
  <2>1. a + n \in Int /\ -a \in Int
    OBVIOUS
  <2> QED
    BY <2>1, ModAdd, Zenon
<1>3. (a + n) % c \in Int
  OBVIOUS
<1> QED
  BY <1>1, <1>2, <1>3

-----------------------------------------------------------------------------
(* The traffic meter.                                                      *)

Bytes == 0..(CounterRange - 1)
NameSet == UNION {{l[i] : i \in 1..Len(l)} : l \in IfLists}
Iface == [name : NameSet, up : BOOLEAN, rx : Bytes, tx : Bytes]

NetHist == [events : Nat, found : Nat, rx : Nat, tx : Nat, restarted : BOOLEAN,
            failed : BOOLEAN, asked : Bytes, recvThen : Bytes, sentThen : Bytes, listed : BOOLEAN]

NetTypes ==
  /\ ifs \in Seq(Iface) /\ shown \in Nat
  /\ meter \in {"traffic", "first", "sleep", "done"}
  /\ p1 \in [ibytes : Bytes, obytes : Bytes]
  /\ netHist \in NetHist

\* The device is there once
OneDev == \E i \in Ifs : \A j \in Ifs : IsDev(j) <=> j = i

\* Between the samples the device's counters are those of the first and what passed since
Accounted ==
  /\ meter # "done" => ispeed = Unset
  /\ meter = "traffic" => netHist.asked = 0
  /\ meter = "sleep" => netHist.found \in {0, 1}
  /\ meter = "sleep" /\ netHist.found = 1 /\ ~netHist.restarted
       => /\ ifs[TheDev].tx = (p1.ibytes + netHist.tx) % CounterRange
          /\ ifs[TheDev].rx = (p1.obytes + netHist.rx) % CounterRange

\* The inductive invariant
NetInv == NetTypes /\ OneDev /\ Accounted /\ MeterExact

-----------------------------------------------------------------------------
\* The device's index.
LEMMA TheDevLemma ==
  ASSUME NetTypes, OneDev
  PROVE  TheDev \in Ifs /\ TheDev \in Nat \ {0} /\ IsDev(TheDev) /\ \A j \in Ifs : IsDev(j) => j = TheDev
<1>1. PICK i \in Ifs : \A j \in Ifs : IsDev(j) <=> j = i
  BY DEF OneDev
<1>2. TheDev \in Ifs /\ IsDev(TheDev)
  <2>1. \E j \in Ifs : IsDev(j)
    BY <1>1
  <2>. QED BY <2>1, Zenon DEF TheDev
<1>3. TheDev = i
  BY <1>1, <1>2
<1>4. Ifs \subseteq Nat \ {0}
  BY DEF Ifs, NetTypes
<1>. QED BY <1>1, <1>2, <1>3, <1>4

\* Interfaces keep their names and places: the device is found where it was.
LEMMA SameNames ==
  ASSUME NetTypes, OneDev, NetTypes', Len(ifs') = Len(ifs), shown' = shown,
         \A j \in Ifs : ifs'[j].name = ifs[j].name
  PROVE  OneDev' /\ TheDev' = TheDev /\ (OwnRow' <=> OwnRow)
<1>1. Ifs' = Ifs
  BY DEF Ifs
<1>2. \A j \in Ifs : IsDev(j)' <=> IsDev(j)
  BY DEF IsDev
<1>3. OneDev'
  BY <1>1, <1>2 DEF OneDev
<1>4. TheDev' \in Ifs /\ ifs'[TheDev'].name = <<Dev>>
  <2>1. \E j \in Ifs' : ifs'[j].name = <<Dev>>
    BY <1>3 DEF OneDev, IsDev
  <2>2. TheDev' = CHOOSE j \in Ifs' : ifs'[j].name = <<Dev>>
    BY DEF TheDev, IsDev
  <2>. QED BY <2>1, <2>2, <1>1, Zenon
<1>5. TheDev' = TheDev
  BY <1>4, TheDevLemma DEF IsDev
<1>6. \A j \in 1..(TheDev - 1) : j \in Ifs
  BY TheDevLemma DEF Ifs, NetTypes
<1>7. OwnRow' <=> OwnRow
  BY <1>5, <1>6, <1>1 DEF OwnRow
<1>. QED BY <1>3, <1>5, <1>7

\* With a row of its own the device's row is the one the text is searched for, to its end.
LEMMA OwnRowLemma ==
  ASSUME NetTypes, OneDev, OwnRow
  PROVE  DevRow = TheDev /\ HasToken(2) /\ HasToken(10)
<1>. DEFINE rows == {i \in Ifs : /\ \E k \in 1..Len(ifs[i].name) : ifs[i].name[k] = Dev
                                /\ shown > (i - 1) * RowTokens}
<1>1. TheDev \in Ifs /\ TheDev \in Nat \ {0} /\ ifs[TheDev].name = <<Dev>>
  BY TheDevLemma DEF IsDev
<1>2. \E k \in 1..Len(ifs[TheDev].name) : ifs[TheDev].name[k] = Dev
  BY <1>1
<1>3. shown > (TheDev - 1) * RowTokens /\ shown >= (TheDev - 1) * RowTokens + 17
  BY <1>1 DEF OwnRow, RowTokens, NetTypes
<1>4. TheDev \in rows
  BY <1>1, <1>2, <1>3
<1>5. \A j \in rows : TheDev <= j
  <2>1. SUFFICES ASSUME NEW j \in rows, j < TheDev PROVE FALSE
    BY <1>1 DEF Ifs, NetTypes
  <2>2. j \in 1..(TheDev - 1)
    BY <2>1, <1>1 DEF Ifs, NetTypes
  <2>. QED BY <2>1, <2>2 DEF OwnRow
<1>6. rows \subseteq Nat
  BY DEF Ifs, NetTypes
<1>7. DevRow = IF rows = {} THEN 0 ELSE CHOOSE i \in rows : \A j \in rows : i <= j
  BY DEF DevRow
<1>. HIDE DEF rows
<1>8. \A i \in rows : (\A j \in rows : i <= j) => i = TheDev
  BY <1>4, <1>5, <1>6, <1>1
<1>9. DevRow = TheDev
  <2>1. (CHOOSE i \in rows : \A j \in rows : i <= j) = TheDev
    BY <1>4, <1>5, <1>8, Zenon
  <2>. QED BY <2>1, <1>4, <1>7
<1>. QED BY <1>1, <1>3, <1>9 DEF HasToken, RowTokens, NetTypes

\* A sample: the counters of the device, where it was found.
LEMMA SampleLemma ==
  ASSUME NetTypes, OneDev, NEW p \in Samples, get_if_dbytes(p)
  PROVE  /\ p.found = 1 => p.ok /\ p.ibytes = ifs[TheDev].tx /\ p.obytes = ifs[TheDev].rx
         /\ p.found \in {0, 1} /\ p.ibytes \in Bytes /\ p.obytes \in Bytes /\ p.ok \in BOOLEAN
<1>1. p.found \in {0, 1} /\ p.ibytes \in Bytes /\ p.obytes \in Bytes /\ p.ok \in BOOLEAN
  BY DEF Samples, Bytes
<1>2. ASSUME p.found = 1
      PROVE  p.ok /\ p.ibytes = ifs[TheDev].tx /\ p.obytes = ifs[TheDev].rx
  <2>1. PICK i \in Passing : IsDev(i) /\ p = [ok |-> TRUE, found |-> 1,
                                              ibytes |-> ifs[i].tx, obytes |-> ifs[i].rx]
    BY <1>2 DEF get_if_dbytes, NoSample
  <2>2. i = TheDev
    BY <2>1, TheDevLemma DEF Passing
  <2>. QED BY <2>1, <2>2
<1>. QED BY <1>1, <1>2

\* It holds at first.
LEMMA NetInitInv == NetInit => NetInv
<1>. SUFFICES ASSUME NetInit PROVE NetInv
  OBVIOUS
<1>1. PICK l \in IfLists :
        ifs = [i \in 1..Len(l) |-> [name |-> l[i], up |-> TRUE, rx |-> 0, tx |-> 0]]
  BY DEF NetInit
<1>2. Len(l) \in Nat /\ CounterRange \in Nat \ {0}
  BY NetAssumption
<1>3. 0 \in Bytes
  BY <1>2 DEF Bytes
<1>4. ifs \in [1..Len(l) -> Iface]
  <2>1. \A i \in 1..Len(l) : l[i] \in NameSet
    BY DEF NameSet
  <2>. QED BY <1>1, <1>3, <2>1 DEF Iface
<1>5. ifs \in Seq(Iface) /\ Len(ifs) = Len(l)
  BY <1>2, <1>4
<1>6. NetTypes
  BY <1>3, <1>5, NetAssumption DEF NetInit, NetTypes, NetHist
<1>7. OneDev
  <2>1. PICK i \in 1..Len(l) : \A j \in 1..Len(l) : l[j] = <<Dev>> <=> j = i
    BY NetAssumption
  <2>2. \A j \in 1..Len(l) : ifs[j].name = l[j]
    BY <1>1
  <2>3. \A j \in Ifs : IsDev(j) <=> j = i
    BY <1>5, <2>1, <2>2 DEF Ifs, IsDev
  <2>4. i \in Ifs
    BY <1>5, <2>1 DEF Ifs
  <2>. QED BY <2>3, <2>4 DEF OneDev
<1>8. Accounted
  BY DEF NetInit, Accounted
<1>9. MeterExact
  BY DEF NetInit, MeterExact, Measured
<1>. QED BY <1>6, <1>7, <1>8, <1>9 DEF NetInv

-----------------------------------------------------------------------------
\* The changes to the history.
LEMMA HistExcept ==
  ASSUME NEW h \in NetHist, NEW e \in Nat
  PROVE  /\ \A r, t \in Nat : [h EXCEPT !.events = e, !.rx = r, !.tx = t] \in NetHist
         /\ \A b \in BOOLEAN : [h EXCEPT !.events = e, !.restarted = b] \in NetHist
  BY DEF NetHist

\* The changes to an interface leave its name alone.
LEMMA IfaceUp ==
  ASSUME NEW f \in Iface, NEW u \in BOOLEAN
  PROVE  LET z == [f EXCEPT !.up = u]
         IN  z \in Iface /\ z.name = f.name /\ z.rx = f.rx /\ z.tx = f.tx
  BY DEF Iface

\* A driver that is reloaded begins at zero.
LEMMA IfaceReload ==
  ASSUME NEW f \in Iface, 0 \in Bytes
  PROVE  LET z == [f EXCEPT !.up = TRUE, !.rx = 0, !.tx = 0] IN z \in Iface /\ z.name = f.name
  BY DEF Iface

\* A change to one interface leaves the others alone.
LEMMA ChangeOne ==
  ASSUME NetTypes, NEW i \in Ifs, NEW z \in Iface, z.name = ifs[i].name, ifs' = [ifs EXCEPT ![i] = z]
  PROVE  /\ ifs' \in Seq(Iface) /\ Len(ifs') = Len(ifs)
         /\ \A j \in Ifs : /\ ifs'[j].name = ifs[j].name
                           /\ j # i => ifs'[j] = ifs[j]
         /\ ifs'[i] = z
  BY DEF NetTypes, Ifs

\* An event of the network preserves the invariant if it keeps the account.
LEMMA NetEventInv ==
  ASSUME NetInv, Event, NetTypes', Len(ifs') = Len(ifs),
         \A j \in Ifs : ifs'[j].name = ifs[j].name,
         netHist'.found = netHist.found, netHist'.listed = netHist.listed,
         netHist'.asked = netHist.asked,
         netHist'.sentThen = netHist.sentThen, netHist'.recvThen = netHist.recvThen,
         meter = "sleep" /\ netHist.found = 1 /\ ~netHist'.restarted
           => /\ ifs'[TheDev].tx = (p1.ibytes + netHist'.tx) % CounterRange
              /\ ifs'[TheDev].rx = (p1.obytes + netHist'.rx) % CounterRange
  PROVE  NetInv'
<1>1. shown' = shown /\ meter' = meter /\ meter # "done" /\ p1' = p1 /\ ispeed' = ispeed
      /\ traffic' = traffic /\ rx2_tx10' = rx2_tx10
  BY DEF Event
<1>2. OneDev' /\ TheDev' = TheDev /\ (OwnRow' <=> OwnRow)
  BY <1>1, SameNames DEF NetInv
<1>3. Accounted'
  BY <1>1, <1>2 DEF NetInv, Accounted
<1>4. MeterExact'
  BY <1>1, <1>2 DEF NetInv, MeterExact, Measured
<1>. QED BY <1>2, <1>3, <1>4 DEF NetInv

\* Traffic: the counters of the device go on from the first sample, over a wrap too.
LEMMA PassInv == ASSUME NetInv, NEW i \in Ifs, NEW r \in Amounts, NEW t \in Amounts, Pass(i, r, t)
                 PROVE  NetInv'
<1>. DEFINE rx == (ifs[i].rx + r) % CounterRange
            tx == (ifs[i].tx + t) % CounterRange
            dr == IF IsDev(i) /\ meter = "sleep" THEN r ELSE 0
            dt == IF IsDev(i) /\ meter = "sleep" THEN t ELSE 0
<1>0. NetTypes /\ OneDev /\ CounterRange \in Nat \ {0} /\ r \in Nat /\ t \in Nat
  BY NetAssumption DEF NetInv
<1>1. ifs[i] \in Iface
  BY <1>0, ElementOfSeq DEF NetTypes, Ifs
<1>2. ifs[i].rx \in Bytes /\ ifs[i].tx \in Bytes /\ ifs[i].up \in BOOLEAN
  BY <1>1 DEF Iface
<1>3. rx \in Bytes /\ tx \in Bytes
  <2>1. ifs[i].rx + r \in Int /\ ifs[i].tx + t \in Int
    BY <1>0, <1>2 DEF Bytes
  <2>. QED BY <1>0, <2>1, DivMod, Zenon DEF Bytes
<1>. DEFINE z == [ifs[i] EXCEPT !.rx = rx, !.tx = tx]
<1>4. ifs' = [ifs EXCEPT ![i] = z] /\ z \in Iface /\ z.name = ifs[i].name /\ z.rx = rx /\ z.tx = tx
  <2>1. ifs' = [ifs EXCEPT ![i] = z]
    BY <1>0, <1>1 DEF Pass, NetTypes, Ifs, Iface
  <2>2. z \in Iface /\ z.name = ifs[i].name /\ z.rx = rx /\ z.tx = tx
    <3>. DEFINE f == ifs[i]
    <3>1. z = [f EXCEPT !.rx = rx, !.tx = tx] /\ f \in Iface
      BY <1>1
    <3>. HIDE DEF rx, tx, z, f
    <3>2. z \in Iface /\ z.name = f.name /\ z.rx = rx /\ z.tx = tx
      BY <3>1, <1>3 DEF Iface
    <3>. QED BY <3>2 DEF f
  <2>. QED BY <2>1, <2>2
<1>5. dr \in Nat /\ dt \in Nat
  BY <1>0
<1>6. netHist' = [netHist EXCEPT !.events = @ + 1, !.rx = @ + dr, !.tx = @ + dt]
  BY DEF Pass
<1>7. /\ ifs' \in Seq(Iface) /\ Len(ifs') = Len(ifs)
      /\ \A j \in Ifs : /\ ifs'[j].name = ifs[j].name
                        /\ j # i => ifs'[j] = ifs[j]
      /\ ifs'[i].rx = rx /\ ifs'[i].tx = tx
  <2>. HIDE DEF rx, tx, z
  <2>. QED BY <1>0, <1>4, ChangeOne
<1>8. /\ netHist'.found = netHist.found /\ netHist'.listed = netHist.listed /\ netHist'.asked = netHist.asked
      /\ netHist'.sentThen = netHist.sentThen /\ netHist'.recvThen = netHist.recvThen
      /\ netHist'.restarted = netHist.restarted
      /\ netHist'.rx = netHist.rx + dr /\ netHist'.tx = netHist.tx + dt
  <2>. HIDE DEF dr, dt
  <2>. QED BY <1>0, <1>6 DEF NetTypes, NetHist
<1>9. Event
  BY DEF Pass
<1>10. NetTypes'
  <2>1. netHist' \in NetHist
    <3>1. netHist \in NetHist
      BY <1>0 DEF NetTypes
    <3>2. netHist.events + 1 \in Nat /\ netHist.rx + dr \in Nat /\ netHist.tx + dt \in Nat
      BY <3>1, <1>5 DEF NetHist
    <3>. DEFINE e == netHist.events + 1
                hr == netHist.rx + dr
                ht == netHist.tx + dt
    <3>3. netHist' = [netHist EXCEPT !.events = e, !.rx = hr, !.tx = ht]
      BY <1>6
    <3>. HIDE DEF e, hr, ht
    <3>4. e \in Nat /\ hr \in Nat /\ ht \in Nat
      BY <3>2 DEF e, hr, ht
    <3>. QED BY <3>1, <3>3, <3>4, HistExcept
  <2>. QED BY <2>1, <1>0, <1>7, <1>9 DEF NetTypes, Event
<1>11. ASSUME meter = "sleep", netHist.found = 1, ~netHist'.restarted
       PROVE  /\ ifs'[TheDev].tx = (p1.ibytes + netHist'.tx) % CounterRange
              /\ ifs'[TheDev].rx = (p1.obytes + netHist'.rx) % CounterRange
  <2>1. /\ ifs[TheDev].tx = (p1.ibytes + netHist.tx) % CounterRange
        /\ ifs[TheDev].rx = (p1.obytes + netHist.rx) % CounterRange
    BY <1>8, <1>11 DEF NetInv, Accounted
  <2>2. TheDev \in Ifs /\ IsDev(TheDev) /\ (IsDev(i) => i = TheDev)
    BY <1>0, TheDevLemma
  <2>3. CASE i # TheDev
    <3>1. dr = 0 /\ dt = 0
      BY <2>2, <2>3
    <3>2. netHist.rx \in Nat /\ netHist.tx \in Nat
      BY <1>0 DEF NetTypes, NetHist
    <3>3. netHist'.rx = netHist.rx /\ netHist'.tx = netHist.tx
      <4>. HIDE DEF dr, dt
      <4>. QED BY <3>1, <3>2, <1>8
    <3>. QED BY <3>3, <2>1, <2>2, <2>3, <1>7
  <2>4. CASE i = TheDev
    <3>1. dr = r /\ dt = t
      BY <2>2, <2>4, <1>11
    <3>2. p1.ibytes \in Int /\ p1.obytes \in Int /\ netHist.tx \in Int /\ netHist.rx \in Int
      BY <1>0 DEF NetTypes, Bytes, NetHist
    <3>3. tx = ((p1.ibytes + netHist.tx) + t) % CounterRange
      <4>1. p1.ibytes + netHist.tx \in Int /\ t \in Int
        BY <3>2, <1>0
      <4>2. (((p1.ibytes + netHist.tx) % CounterRange) + t) % CounterRange
              = ((p1.ibytes + netHist.tx) + t) % CounterRange
        BY <4>1, <1>0, ModAdd, Zenon
      <4>. QED BY <4>2, <2>1, <2>4
    <3>4. rx = ((p1.obytes + netHist.rx) + r) % CounterRange
      <4>1. p1.obytes + netHist.rx \in Int /\ r \in Int
        BY <3>2, <1>0
      <4>2. (((p1.obytes + netHist.rx) % CounterRange) + r) % CounterRange
              = ((p1.obytes + netHist.rx) + r) % CounterRange
        BY <4>1, <1>0, ModAdd, Zenon
      <4>. QED BY <4>2, <2>1, <2>4
    <3>5. /\ (p1.ibytes + netHist.tx) + t = p1.ibytes + netHist'.tx
          /\ (p1.obytes + netHist.rx) + r = p1.obytes + netHist'.rx
      <4>. HIDE DEF dr, dt
      <4>. QED BY <3>1, <3>2, <1>8, <1>0
    <3>. HIDE DEF tx, rx
    <3>. QED BY <3>3, <3>4, <3>5, <2>4, <1>7
  <2>. QED BY <2>3, <2>4
<1>. HIDE DEF dr, dt, rx, tx
<1>. QED BY <1>7, <1>8, <1>9, <1>10, <1>11, NetEventInv

\* An interface that goes down or up keeps its counters.
LEMMA UpDownInv == ASSUME NetInv, NEW i \in Ifs, UpDown(i) PROVE NetInv'
<1>0. NetTypes /\ OneDev
  BY DEF NetInv
<1>1. ifs[i] \in Iface
  BY <1>0, ElementOfSeq DEF NetTypes, Ifs
<1>. DEFINE u == ~ifs[i].up
            z == [ifs[i] EXCEPT !.up = u]
<1>2. u \in BOOLEAN
  OBVIOUS
<1>3. ifs' = [ifs EXCEPT ![i] = z] /\ z \in Iface /\ z.name = ifs[i].name
      /\ z.rx = ifs[i].rx /\ z.tx = ifs[i].tx
  <2>1. ifs' = [ifs EXCEPT ![i] = z]
    BY <1>0, <1>1 DEF UpDown, NetTypes, Ifs, Iface
  <2>2. z \in Iface /\ z.name = ifs[i].name /\ z.rx = ifs[i].rx /\ z.tx = ifs[i].tx
    <3>. HIDE DEF u
    <3>. QED BY <1>1, <1>2, IfaceUp
  <2>. QED BY <2>1, <2>2
<1>4. /\ ifs' \in Seq(Iface) /\ Len(ifs') = Len(ifs)
      /\ \A j \in Ifs : /\ ifs'[j].name = ifs[j].name
                        /\ j # i => ifs'[j] = ifs[j]
      /\ ifs'[i].rx = ifs[i].rx /\ ifs'[i].tx = ifs[i].tx
  <2>. HIDE DEF z
  <2>. QED BY <1>0, <1>3, ChangeOne
<1>5. Event /\ netHist' = [netHist EXCEPT !.events = @ + 1]
  BY DEF UpDown
<1>6. NetTypes'
  <2>1. netHist' \in NetHist
    BY <1>0, <1>5 DEF NetTypes, NetHist
  <2>. QED BY <1>0, <1>4, <1>5, <2>1 DEF NetTypes, Event
<1>7. /\ netHist'.found = netHist.found /\ netHist'.listed = netHist.listed /\ netHist'.asked = netHist.asked
      /\ netHist'.sentThen = netHist.sentThen /\ netHist'.recvThen = netHist.recvThen
      /\ netHist'.restarted = netHist.restarted
      /\ netHist'.rx = netHist.rx /\ netHist'.tx = netHist.tx
  BY <1>0, <1>5 DEF NetTypes, NetHist
<1>8. ifs'[TheDev].tx = ifs[TheDev].tx /\ ifs'[TheDev].rx = ifs[TheDev].rx
  BY <1>0, <1>4, TheDevLemma
<1>9. ASSUME meter = "sleep", netHist.found = 1, ~netHist'.restarted
      PROVE  /\ ifs'[TheDev].tx = (p1.ibytes + netHist'.tx) % CounterRange
             /\ ifs'[TheDev].rx = (p1.obytes + netHist'.rx) % CounterRange
  BY <1>7, <1>8, <1>9 DEF NetInv, Accounted
<1>. QED BY <1>4, <1>5, <1>6, <1>7, <1>9, NetEventInv

\* A reload sets the counters to zero, which the account calls restarted.
LEMMA ReloadInv == ASSUME NetInv, NEW i \in Ifs, Reload(i) PROVE NetInv'
<1>0. NetTypes /\ OneDev /\ 0 \in Bytes
  BY NetAssumption DEF NetInv, Bytes
<1>1. ifs[i] \in Iface
  BY <1>0, ElementOfSeq DEF NetTypes, Ifs
<1>. DEFINE z == [ifs[i] EXCEPT !.up = TRUE, !.rx = 0, !.tx = 0]
<1>3. ifs' = [ifs EXCEPT ![i] = z] /\ z \in Iface /\ z.name = ifs[i].name
  <2>1. ifs' = [ifs EXCEPT ![i] = z]
    BY <1>0, <1>1 DEF Reload, NetTypes, Ifs, Iface
  <2>2. z \in Iface /\ z.name = ifs[i].name
    BY <1>0, <1>1, IfaceReload
  <2>. QED BY <2>1, <2>2
<1>4. /\ ifs' \in Seq(Iface) /\ Len(ifs') = Len(ifs)
      /\ \A j \in Ifs : /\ ifs'[j].name = ifs[j].name
                        /\ j # i => ifs'[j] = ifs[j]
  <2>. HIDE DEF z
  <2>. QED BY <1>0, <1>3, ChangeOne
<1>. DEFINE b == netHist.restarted \/ IsDev(i)
<1>5. Event /\ netHist' = [netHist EXCEPT !.events = @ + 1, !.restarted = b]
  BY DEF Reload
<1>b. b \in BOOLEAN
  OBVIOUS
<1>7. /\ netHist'.found = netHist.found /\ netHist'.listed = netHist.listed /\ netHist'.asked = netHist.asked
      /\ netHist'.sentThen = netHist.sentThen /\ netHist'.recvThen = netHist.recvThen
      /\ netHist'.restarted = b
      /\ netHist'.rx = netHist.rx /\ netHist'.tx = netHist.tx
  <2>. HIDE DEF b
  <2>. QED BY <1>0, <1>5 DEF NetTypes, NetHist
<1>6. NetTypes'
  <2>. HIDE DEF b
  <2>1. netHist' \in NetHist
    <3>1. netHist \in NetHist
      BY <1>0 DEF NetTypes
    <3>2. netHist.events + 1 \in Nat
      BY <3>1 DEF NetHist
    <3>. DEFINE e == netHist.events + 1
    <3>3. netHist' = [netHist EXCEPT !.events = e, !.restarted = b]
      BY <1>5
    <3>. HIDE DEF e
    <3>4. e \in Nat
      BY <3>2 DEF e
    <3>. QED BY <3>1, <3>3, <3>4, <1>b, HistExcept
  <2>. QED BY <1>0, <1>4, <1>5, <2>1 DEF NetTypes, Event
<1>9. ASSUME meter = "sleep", netHist.found = 1, ~netHist'.restarted
      PROVE  /\ ifs'[TheDev].tx = (p1.ibytes + netHist'.tx) % CounterRange
             /\ ifs'[TheDev].rx = (p1.obytes + netHist'.rx) % CounterRange
  <2>1. ~IsDev(i) /\ ~netHist.restarted
    BY <1>7, <1>9
  <2>2. ifs'[TheDev] = ifs[TheDev]
    BY <2>1, <1>0, <1>4, TheDevLemma
  <2>. HIDE DEF b
  <2>. QED BY <2>1, <2>2, <1>7, <1>9 DEF NetInv, Accounted
<1>. HIDE DEF b
<1>. QED BY <1>4, <1>5, <1>6, <1>7, <1>9, NetEventInv


-----------------------------------------------------------------------------
\* The steps of the meter leave the interfaces alone.
LEMMA MeterKeeps ==
  ASSUME NetTypes, OneDev, NetTypes', ifs' = ifs, shown' = shown
  PROVE  OneDev' /\ TheDev' = TheDev /\ (OwnRow' <=> OwnRow)
  BY SameNames

\* The device's counters.
LEMMA DevCounters ==
  ASSUME NetTypes, OneDev PROVE ifs[TheDev].rx \in Bytes /\ ifs[TheDev].tx \in Bytes
<1>1. TheDev \in Ifs
  BY TheDevLemma
<1>2. ifs[TheDev] \in Iface
  BY <1>1, ElementOfSeq DEF NetTypes, Ifs
<1>. QED BY <1>2 DEF Iface

\* get_traffic reads the row of the device, or nothing.
LEMMA TrafficInv == ASSUME NetInv, get_traffic PROVE NetInv'
<1>0. NetTypes /\ OneDev /\ netHist \in NetHist
  BY DEF NetInv, NetTypes
<1>1. meter = "traffic" /\ meter' = "first" /\ ifs' = ifs /\ shown' = shown /\ p1' = p1
      /\ ispeed' = ispeed /\ rx2_tx10' = rx2_tx10
  BY DEF get_traffic
<1>2. PICK a \in Bytes : /\ netHist' = [netHist EXCEPT !.asked = a]
                         /\ OwnRow => traffic' = a
  <2>1. CASE traffic' = 0 /\ netHist' = netHist
    <3>1. netHist.asked = 0 /\ netHist.asked \in Bytes
      BY <1>0, <1>1 DEF NetInv, Accounted, NetHist
    <3>2. netHist' = [netHist EXCEPT !.asked = netHist.asked]
      BY <1>0, <2>1 DEF NetHist
    <3>. QED BY <2>1, <3>1, <3>2
  <2>2. CASE /\ traffic' = IF DevRow = 0 THEN 0 ELSE IF HasToken(10) THEN ifs[DevRow].tx ELSE Unset
             /\ netHist' = [netHist EXCEPT !.asked = ifs[TheDev].tx]
    <3>1. ASSUME OwnRow PROVE traffic' = ifs[TheDev].tx
      <4>1. DevRow = TheDev /\ HasToken(10)
        BY <1>0, <3>1, OwnRowLemma
      <4>2. TheDev # 0
        BY <1>0, TheDevLemma
      <4>. QED BY <2>2, <4>1, <4>2
    <3>. QED BY <1>0, <2>2, <3>1, DevCounters
  <2>. QED BY <2>1, <2>2 DEF get_traffic
<1>3. /\ netHist' \in NetHist /\ netHist'.asked = a /\ netHist'.listed = netHist.listed
      /\ netHist'.recvThen = netHist.recvThen /\ netHist'.sentThen = netHist.sentThen
  BY <1>0, <1>2 DEF NetHist
<1>4. NetTypes'
  BY <1>0, <1>1, <1>3 DEF NetTypes
<1>5. OneDev' /\ TheDev' = TheDev /\ (OwnRow' <=> OwnRow)
  BY <1>0, <1>1, <1>4, MeterKeeps
<1>6. Accounted'
  BY <1>1 DEF NetInv, Accounted
<1>7. MeterExact'
  BY <1>1, <1>2, <1>3, <1>5 DEF NetInv, MeterExact, Measured
<1>. QED BY <1>4, <1>5, <1>6, <1>7 DEF NetInv

\* my_ipconfig reads the tokens of the device, or nothing.
LEMMA IpconfigInv == ASSUME NetInv, my_ipconfig PROVE NetInv'
<1>0. NetTypes /\ OneDev /\ netHist \in NetHist
  BY DEF NetInv, NetTypes
<1>1. meter = "first" /\ meter' = meter /\ ifs' = ifs /\ shown' = shown /\ p1' = p1
      /\ ispeed' = ispeed /\ traffic' = traffic
  BY DEF my_ipconfig
<1>2. /\ netHist' \in NetHist /\ netHist'.asked = netHist.asked
      /\ OwnRow /\ netHist'.listed => rx2_tx10' = <<netHist'.recvThen, netHist'.sentThen>>
  <2>1. CASE netHist' = [netHist EXCEPT !.listed = FALSE] /\ UNCHANGED rx2_tx10
    BY <1>0, <2>1 DEF NetHist
  <2>2. CASE /\ rx2_tx10' = <<IF DevRow # 0 /\ HasToken(2) THEN ifs[DevRow].rx ELSE rx2_tx10[1],
                              IF DevRow # 0 /\ HasToken(10) THEN ifs[DevRow].tx ELSE rx2_tx10[2]>>
             /\ netHist' = [netHist EXCEPT !.recvThen = ifs[TheDev].rx, !.sentThen = ifs[TheDev].tx,
                                           !.listed = (DevRow # 0)]
    <3>1. PICK x \in Bytes, y \in Bytes, b \in BOOLEAN :
             /\ x = ifs[TheDev].rx /\ y = ifs[TheDev].tx
             /\ netHist' = [netHist EXCEPT !.recvThen = x, !.sentThen = y, !.listed = b]
      BY <1>0, <2>2, DevCounters
    <3>2. /\ netHist' \in NetHist /\ netHist'.asked = netHist.asked
          /\ netHist'.recvThen = x /\ netHist'.sentThen = y
      BY <1>0, <3>1 DEF NetHist
    <3>3. ASSUME OwnRow PROVE rx2_tx10' = <<x, y>>
      <4>1. DevRow = TheDev /\ HasToken(2) /\ HasToken(10)
        BY <1>0, <3>3, OwnRowLemma
      <4>2. TheDev # 0
        BY <1>0, TheDevLemma
      <4>. QED BY <2>2, <3>1, <4>1, <4>2
    <3>. QED BY <3>2, <3>3
  <2>. QED BY <2>1, <2>2 DEF my_ipconfig
<1>3. NetTypes'
  BY <1>0, <1>1, <1>2 DEF NetTypes
<1>4. OneDev' /\ TheDev' = TheDev /\ (OwnRow' <=> OwnRow)
  BY <1>0, <1>1, <1>3, MeterKeeps
<1>5. Accounted'
  BY <1>1 DEF NetInv, Accounted
<1>6. MeterExact'
  BY <1>1, <1>2, <1>4 DEF NetInv, MeterExact, Measured
<1>. QED BY <1>3, <1>4, <1>5, <1>6 DEF NetInv

\* The first sample opens the account.
LEMMA FirstInv == ASSUME NetInv, FirstSample PROVE NetInv'
<1>0. NetTypes /\ OneDev /\ CounterRange \in Nat \ {0} /\ netHist \in NetHist
  BY NetAssumption DEF NetInv, NetTypes
<1>1. PICK p \in Samples :
        /\ get_if_dbytes(p)
        /\ meter' = IF p.ok THEN "sleep" ELSE "done"
        /\ p1' = [ibytes |-> p.ibytes, obytes |-> p.obytes]
        /\ netHist' = [netHist EXCEPT !.found = p.found, !.rx = 0, !.tx = 0,
                                      !.restarted = FALSE, !.failed = ~p.ok]
  BY DEF FirstSample
<1>2. /\ p.found = 1 => p.ok /\ p.ibytes = ifs[TheDev].tx /\ p.obytes = ifs[TheDev].rx
      /\ p.found \in {0, 1} /\ p.ibytes \in Bytes /\ p.obytes \in Bytes /\ p.ok \in BOOLEAN
  BY <1>0, <1>1, SampleLemma
<1>. DEFINE n == p.found
            b == ~p.ok
<1>3. netHist' = [netHist EXCEPT !.found = n, !.rx = 0, !.tx = 0, !.restarted = FALSE, !.failed = b]
  BY <1>1
<1>4. n \in {0, 1} /\ b \in BOOLEAN
  BY <1>2
<1>5. /\ netHist' \in NetHist /\ netHist'.found = n /\ netHist'.rx = 0 /\ netHist'.tx = 0
      /\ netHist'.failed = b /\ netHist'.listed = netHist.listed /\ netHist'.asked = netHist.asked
      /\ netHist'.sentThen = netHist.sentThen /\ netHist'.recvThen = netHist.recvThen
  <2>1. n \in Nat
    BY <1>4
  <2>. HIDE DEF n, b
  <2>. QED BY <2>1, <1>0, <1>3, <1>4 DEF NetHist
<1>6. ifs' = ifs /\ shown' = shown /\ ispeed' = ispeed /\ traffic' = traffic
      /\ rx2_tx10' = rx2_tx10 /\ meter = "first"
  BY DEF FirstSample
<1>7. NetTypes'
  BY <1>0, <1>1, <1>2, <1>5, <1>6 DEF NetTypes
<1>8. OneDev' /\ TheDev' = TheDev /\ (OwnRow' <=> OwnRow)
  BY <1>0, <1>6, <1>7, MeterKeeps
<1>9. ispeed = Unset
  BY <1>6 DEF NetInv, Accounted
<1>10. \A a \in Bytes : (a + 0) % CounterRange = a
  <2>1. SUFFICES ASSUME NEW a \in Bytes PROVE a % CounterRange = a
    BY DEF Bytes
  <2>2. a = CounterRange * 0 + a /\ a \in Int /\ a \in 0..(CounterRange - 1)
    BY <1>0 DEF Bytes
  <2>. QED BY <1>0, <2>2, DivUnique
<1>11. Accounted'
  <2>1. CASE p.ok
    <3>1. meter' = "sleep" /\ p1'.ibytes = p.ibytes /\ p1'.obytes = p.obytes
      BY <1>1, <2>1
    <3>. QED BY <3>1, <1>2, <1>5, <1>6, <1>8, <1>9, <1>10 DEF Accounted
  <2>2. CASE ~p.ok
    <3>1. meter' = "done"
      BY <1>1, <2>2
    <3>. QED BY <3>1 DEF Accounted
  <2>. QED BY <2>1, <2>2
<1>12. MeterExact'
  <2>1. CASE p.ok
    <3>1. meter' = "sleep"
      BY <1>1, <2>1
    <3>. QED BY <3>1, <1>5, <1>6, <1>8 DEF MeterExact, Measured, NetInv
  <2>2. CASE ~p.ok
    <3>0. netHist'.failed
      BY <1>5, <2>2, Zenon
    <3>1. meter' = "done" /\ netHist'.failed /\ netHist'.found # 2
      BY <3>0, <1>1, <1>2, <1>5, <2>2
    <3>. QED BY <3>1, <1>5, <1>6, <1>8, <1>9 DEF MeterExact, Measured, NetInv
  <2>. QED BY <2>1, <2>2
<1>. QED BY <1>7, <1>8, <1>11, <1>12 DEF NetInv

\* The second sample closes it: the difference is what passed in between.
LEMMA SecondInv == ASSUME NetInv, SecondSample PROVE NetInv'
<1>0. NetTypes /\ OneDev /\ CounterRange \in Nat \ {0} /\ netHist \in NetHist
      /\ p1.ibytes \in Bytes /\ p1.obytes \in Bytes
  BY NetAssumption DEF NetInv, NetTypes
<1>1. PICK p \in Samples :
        /\ get_if_dbytes(p)
        /\ IF p.ok THEN /\ ispeed' = Difference(p.ibytes, p1.ibytes)
                        /\ ospeed' = Difference(p.obytes, p1.obytes)
           ELSE UNCHANGED <<ispeed, ospeed>>
        /\ netHist' = [netHist EXCEPT !.found = @ + p.found, !.failed = ~p.ok]
  BY DEF SecondSample
<1>2. /\ p.found = 1 => p.ok /\ p.ibytes = ifs[TheDev].tx /\ p.obytes = ifs[TheDev].rx
      /\ p.found \in {0, 1} /\ p.ibytes \in Bytes /\ p.obytes \in Bytes /\ p.ok \in BOOLEAN
  BY <1>0, <1>1, SampleLemma
<1>. DEFINE n == netHist.found + p.found
            b == ~p.ok
<1>3. netHist' = [netHist EXCEPT !.found = n, !.failed = b]
  BY <1>1
<1>4. n \in Nat /\ b \in BOOLEAN
  BY <1>0, <1>2 DEF NetHist
<1>5. /\ netHist' \in NetHist /\ netHist'.found = n /\ netHist'.rx = netHist.rx
      /\ netHist'.tx = netHist.tx /\ netHist'.restarted = netHist.restarted
      /\ netHist'.failed = b /\ netHist'.listed = netHist.listed /\ netHist'.asked = netHist.asked
      /\ netHist'.sentThen = netHist.sentThen /\ netHist'.recvThen = netHist.recvThen
      /\ netHist.tx \in Nat /\ netHist.rx \in Nat
  <2>. HIDE DEF n, b
  <2>. QED BY <1>0, <1>3, <1>4 DEF NetHist
<1>6. ifs' = ifs /\ shown' = shown /\ p1' = p1 /\ traffic' = traffic
      /\ rx2_tx10' = rx2_tx10 /\ meter = "sleep" /\ meter' = "done"
  BY DEF SecondSample
<1>7. NetTypes'
  BY <1>0, <1>5, <1>6 DEF NetTypes
<1>8. OneDev' /\ TheDev' = TheDev /\ (OwnRow' <=> OwnRow)
  BY <1>0, <1>6, <1>7, MeterKeeps
<1>9. ispeed = Unset
  BY <1>6 DEF NetInv, Accounted
<1>10. Accounted'
  BY <1>6 DEF Accounted
<1>11. ASSUME netHist'.found = 2, ~netHist'.restarted
       PROVE  ispeed' = SentBytes' /\ ospeed' = ReceivedBytes'
  <2>1. netHist.found = 1 /\ p.found = 1 /\ ~netHist.restarted
    BY <1>2, <1>5, <1>6, <1>11 DEF NetInv, Accounted
  <2>2. /\ p.ok /\ p.ibytes = (p1.ibytes + netHist.tx) % CounterRange
        /\ p.obytes = (p1.obytes + netHist.rx) % CounterRange
    BY <2>1, <1>2, <1>6 DEF NetInv, Accounted
  <2>3. /\ ispeed' = (((p1.ibytes + netHist.tx) % CounterRange) - p1.ibytes) % CounterRange
        /\ ospeed' = (((p1.obytes + netHist.rx) % CounterRange) - p1.obytes) % CounterRange
    BY <2>2, <1>1 DEF Difference
  <2>4. netHist.tx \in Int /\ netHist.rx \in Int
    BY <1>5
  <2>5. /\ (((p1.ibytes + netHist.tx) % CounterRange) - p1.ibytes) % CounterRange
             = netHist.tx % CounterRange
        /\ (((p1.obytes + netHist.rx) % CounterRange) - p1.obytes) % CounterRange
             = netHist.rx % CounterRange
    BY <1>0, <2>4, ModDifference, Zenon DEF Bytes
  <2>. QED BY <2>3, <2>5, <1>5 DEF SentBytes, ReceivedBytes
<1>12. ispeed' = Unset <=> netHist'.failed
  <2>1. CASE p.ok
    <3>1. ispeed' = (p.ibytes - p1.ibytes) % CounterRange
      BY <1>1, <2>1 DEF Difference
    <3>2. p.ibytes - p1.ibytes \in Int
      BY <1>0, <1>2 DEF Bytes
    <3>3. (p.ibytes - p1.ibytes) % CounterRange \in 0..(CounterRange - 1)
      BY <1>0, <3>2, DivMod, Zenon
    <3>4. ispeed' # Unset
      BY <3>1, <3>3, <1>0 DEF Unset
    <3>. QED BY <3>4, <2>1, <1>5
  <2>2. CASE ~p.ok
    BY <1>1, <1>5, <1>9, <2>2
  <2>. QED BY <2>1, <2>2
<1>13. MeterExact'
  <2>1. /\ OwnRow' /\ meter' # "traffic" => traffic' = netHist'.asked
        /\ OwnRow' /\ netHist'.listed => rx2_tx10' = <<netHist'.recvThen, netHist'.sentThen>>
    BY <1>5, <1>6, <1>8 DEF NetInv, MeterExact
  <2>2. Measured' => <<ispeed', ospeed'>> = <<SentBytes', ReceivedBytes'>>
    BY <1>11 DEF Measured
  <2>. QED BY <2>1, <2>2, <1>12 DEF MeterExact
<1>. QED BY <1>7, <1>8, <1>10, <1>13 DEF NetInv

\* Every step preserves the invariant.
LEMMA NetStepInv == NetInv /\ [NetNext]_netVars => NetInv'
<1>. SUFFICES ASSUME NetInv, [NetNext]_netVars PROVE NetInv'
  OBVIOUS
<1>1. ASSUME NEW i \in Ifs, NEW r \in Amounts, NEW t \in Amounts, Pass(i, r, t) PROVE NetInv'
  BY <1>1, PassInv
<1>2. ASSUME NEW i \in Ifs, UpDown(i) PROVE NetInv'
  BY <1>2, UpDownInv
<1>3. ASSUME NEW i \in Ifs, Reload(i) PROVE NetInv'
  BY <1>3, ReloadInv
<1>4. CASE UNCHANGED netVars
  <2>1. ifs' = ifs /\ shown' = shown /\ meter' = meter /\ p1' = p1 /\ ispeed' = ispeed
        /\ ospeed' = ospeed /\ traffic' = traffic /\ rx2_tx10' = rx2_tx10 /\ netHist' = netHist
    BY <1>4 DEF netVars
  <2>2. NetTypes'
    BY <2>1 DEF NetInv, NetTypes
  <2>3. OneDev' /\ TheDev' = TheDev /\ (OwnRow' <=> OwnRow)
    BY <2>1, <2>2, MeterKeeps DEF NetInv
  <2>. QED BY <2>1, <2>2, <2>3 DEF NetInv, Accounted, MeterExact, Measured, SentBytes, ReceivedBytes
<1>. QED BY <1>1, <1>2, <1>3, <1>4, TrafficInv, IpconfigInv, FirstInv, SecondInv DEF NetNext

\* The meter keeps an account of the device: between the samples its counters are those of the first
\* sample and what has passed since, modulo the range of the counters (netspeed.c:166-195).
THEOREM NetInvariant == NetSpec => []NetInv
<1>. QED BY NetInitInv, NetStepInv, PTL DEF NetSpec

\* The speeds are exact differences over a wrap of the counters, one of what was sent and the other of
\* what was received, and are unset exactly when a sample failed; get_traffic and my_ipconfig give the
\* counters of the device when its row is its own, or 0 and NULL when the text cannot be read
\* (netspeed.c:14-195): for any interfaces, amounts and range of the counters.
THEOREM NetMeterExact == NetSpec => []MeterExact
<1>1. NetInv => MeterExact
  BY DEF NetInv
<1>. QED BY <1>1, NetInvariant, PTL

-----------------------------------------------------------------------------
(* The timers.                                                             *)

\* A multiple of m on top changes the quotient by as much.
LEMMA DivShift ==
  ASSUME NEW m \in Nat \ {0}, NEW k \in Int, NEW u \in Int
  PROVE  (m * k + u) \div m = k + (u \div m)
<1>. DEFINE q == u \div m
            r == u % m
<1>1. u = m * q + r /\ q \in Int /\ r \in 0..(m - 1)
  BY DivMod
<1>. HIDE DEF q, r
<1>2. m * k + u = m * (k + q) + r
  BY <1>1
<1>3. m * k + u \in Int /\ k + q \in Int
  BY <1>1
<1>4. (m * k + u) \div m = k + q
  BY <1>1, <1>2, <1>3, DivUnique, Zenon
<1>. QED BY <1>4 DEF q

\* Multiples of m less than m apart in one direction are in order.
LEMMA MulOrder ==
  ASSUME NEW m \in Nat \ {0}, NEW a \in Int, NEW b \in Int, m * a < m * b + m
  PROVE  a <= b
<1>1. SUFFICES ASSUME a - b >= 1 PROVE FALSE
  OBVIOUS
<1>2. a - b \in Int
  OBVIOUS
<1>3. m * (a - b) >= m
  BY <1>1, <1>2, MulStep
<1>4. m * (a - b) = m * a - m * b
  OBVIOUS
<1>5. m * a \in Int /\ m * b \in Int
  OBVIOUS
<1>. QED BY <1>3, <1>4, <1>5

\* C's division rounds by less than a divisor, towards zero.
LEMMA CDivBounds ==
  ASSUME NEW m \in Nat \ {0}, NEW u \in Int
  PROVE  /\ CDiv(u, m) \in Int
         /\ m * CDiv(u, m) - u < m /\ u - m * CDiv(u, m) < m
         /\ u >= 0 => CDiv(u, m) = u \div m /\ u - m * CDiv(u, m) >= 0
         /\ u < 0 => m * CDiv(u, m) - u >= 0
<1>1. CASE u >= 0
  <2>. DEFINE q == u \div m
              r == u % m
  <2>1. u = m * q + r /\ q \in Int /\ r \in 0..(m - 1)
    BY DivMod
  <2>2. CDiv(u, m) = q
    BY <1>1 DEF CDiv
  <2>. HIDE DEF q, r
  <2>3. m * q \in Int
    BY <2>1
  <2>4. /\ q \in Int /\ m * q - u < m /\ u - m * q < m /\ u - m * q >= 0
    BY <2>1, <2>3
  <2>. QED BY <1>1, <2>2, <2>4 DEF q
<1>2. CASE u < 0
  <2>. DEFINE n == -u
  <2>n. n \in Int /\ u = -n
    OBVIOUS
  <2>. HIDE DEF n
  <2>. DEFINE q == n \div m
              r == n % m
  <2>1. n = m * q + r /\ q \in Int /\ r \in 0..(m - 1)
    BY <2>n, DivMod
  <2>2. CDiv(u, m) = -q
    BY <1>2 DEF CDiv, n
  <2>. HIDE DEF q, r
  <2>3. m * q \in Int /\ m * (-q) = -(m * q)
    BY <2>1
  <2>4. /\ -q \in Int /\ m * (-q) - u < m /\ u - m * (-q) < m /\ m * (-q) - u >= 0
    BY <2>1, <2>3, <2>n
  <2>. QED BY <1>2, <2>2, <2>4
<1>. QED BY <1>1, <1>2

\* A value that fits an int is kept.
LEMMA ToIntLemma ==
  ASSUME NEW n \in (-(IntRange \div 2))..(IntRange \div 2 - 1)
  PROVE  ToInt(n) = n
<1>. DEFINE h == IntRange \div 2
<1>1. IntRange \in Nat \ {0}
  BY TimersAssumption
<1>2. h \in Nat /\ 2 * h <= IntRange
  BY <1>1
<1>. HIDE DEF h
<1>3. n \in Int /\ n + h \in 0..(IntRange - 1)
  BY <1>1, <1>2 DEF h
<1>4. n + h = IntRange * 0 + (n + h) /\ n + h \in Int
  BY <1>1, <1>2, <1>3
<1>5. (n + h) % IntRange = n + h
  BY <1>1, <1>3, <1>4, DivUnique
<1>6. ToInt(n) = ((n + h) % IntRange) - h
  BY DEF ToInt, h
<1>. QED BY <1>2, <1>3, <1>5, <1>6

-----------------------------------------------------------------------------
\* The time a timeval stands for
Time(t) == UsPerSec * t.sec + t.usec

IsTimeval(t) == t.sec \in Int /\ t.usec \in Int /\ -UsPerSec < t.usec /\ t.usec < UsPerSec

\* The inductive invariant: the timers stand for the times they were set to, and a negative
\* tv_usec is found only in a timer set from negative milliseconds
TimerInv ==
  /\ clock \in Nat /\ startAt \in Int /\ endAt \in Int /\ assigned \in BOOLEAN
  /\ IsTimeval(tstart) /\ tstart.usec >= 0 /\ Time(tstart) = startAt
  /\ IsTimeval(tend) /\ Time(tend) = endAt
  /\ ~assigned => tend.usec >= 0
  /\ tend.usec < 0 => endAt < 0

\* The units are positive.
LEMMA Units == UsPerMs \in Nat \ {0} /\ MsPerSec \in Nat \ {0} /\ UsPerSec \in Nat \ {0}
               /\ UsPerSec = UsPerMs * MsPerSec
<1>1. UsPerMs \in Nat \ {0} /\ MsPerSec \in Nat \ {0}
  BY TimersAssumption
<1>2. UsPerMs * MsPerSec >= UsPerMs /\ UsPerMs * MsPerSec \in Int
  BY <1>1, MulStep
<1>. QED BY <1>1, <1>2 DEF UsPerSec

\* gettimeofday is the clock.
LEMMA NowLemma ==
  ASSUME clock \in Nat
  PROVE  IsTimeval(gettimeofday) /\ gettimeofday.usec >= 0 /\ Time(gettimeofday) = clock
<1>. DEFINE q == clock \div UsPerSec
            r == clock % UsPerSec
<1>1. clock = UsPerSec * q + r /\ q \in Int /\ r \in 0..(UsPerSec - 1)
  <2>1. clock \in Int
    OBVIOUS
  <2>. QED BY <2>1, Units, DivMod, Zenon
<1>2. gettimeofday.sec = q /\ gettimeofday.usec = r
  BY DEF gettimeofday
<1>. HIDE DEF q, r
<1>. QED BY <1>1, <1>2, Units DEF IsTimeval, Time

\* timersub, with a tv_usec that is not negative on the right, subtracts the times.
LEMMA SubLemma ==
  ASSUME NEW a, NEW b, IsTimeval(a), IsTimeval(b), b.usec >= 0
  PROVE  LET res == timersub(a, b)
         IN  /\ IsTimeval(res) /\ Time(res) = Time(a) - Time(b)
             /\ a.usec >= 0 => res.usec >= 0
             /\ Time(a) \in Int /\ Time(b) \in Int
<1>. DEFINE s == a.sec - b.sec
            u == a.usec - b.usec
<1>0. /\ a.sec \in Int /\ a.usec \in Int /\ b.sec \in Int /\ b.usec \in Int /\ UsPerSec \in Nat \ {0}
      /\ -UsPerSec < a.usec /\ a.usec < UsPerSec /\ b.usec < UsPerSec
  BY Units DEF IsTimeval
<1>1. Time(a) \in Int /\ Time(b) \in Int
  BY <1>0 DEF Time
<1>2. UsPerSec * s + u = Time(a) - Time(b)
  BY <1>0 DEF Time
<1>3. UsPerSec * (s - 1) + (u + UsPerSec) = UsPerSec * s + u
  BY <1>0
<1>4. CASE u < 0
  <2>1. timersub(a, b).sec = s - 1 /\ timersub(a, b).usec = u + UsPerSec
    BY <1>4 DEF timersub
  <2>2. UsPerSec * timersub(a, b).sec + timersub(a, b).usec = Time(a) - Time(b)
    BY <2>1, <1>2, <1>3
  <2>. QED BY <2>1, <2>2, <1>0, <1>1, <1>4 DEF IsTimeval, Time
<1>5. CASE ~(u < 0)
  <2>1. timersub(a, b).sec = s /\ timersub(a, b).usec = u
    BY <1>5 DEF timersub
  <2>. QED BY <2>1, <1>0, <1>1, <1>2, <1>5 DEF IsTimeval, Time
<1>. QED BY <1>4, <1>5

\* timeradd adds the times.
LEMMA AddLemma ==
  ASSUME NEW a, NEW b, IsTimeval(a), IsTimeval(b), a.usec >= 0, b.usec >= 0
  PROVE  LET res == timeradd(a, b)
         IN  IsTimeval(res) /\ res.usec >= 0 /\ Time(res) = Time(a) + Time(b)
<1>. DEFINE s == a.sec + b.sec
            u == a.usec + b.usec
<1>0. /\ a.sec \in Int /\ a.usec \in Int /\ b.sec \in Int /\ b.usec \in Int /\ UsPerSec \in Nat \ {0}
      /\ a.usec < UsPerSec /\ b.usec < UsPerSec
  BY Units DEF IsTimeval
<1>2. UsPerSec * s + u = Time(a) + Time(b)
  BY <1>0 DEF Time
<1>3. UsPerSec * (s + 1) + (u - UsPerSec) = UsPerSec * s + u
  BY <1>0
<1>4. CASE u >= UsPerSec
  <2>1. timeradd(a, b).sec = s + 1 /\ timeradd(a, b).usec = u - UsPerSec
    BY <1>4 DEF timeradd
  <2>2. UsPerSec * timeradd(a, b).sec + timeradd(a, b).usec = Time(a) + Time(b)
    BY <2>1, <1>2, <1>3
  <2>. QED BY <2>1, <2>2, <1>0, <1>4 DEF IsTimeval, Time
<1>5. CASE ~(u >= UsPerSec)
  <2>1. timeradd(a, b).sec = s /\ timeradd(a, b).usec = u
    BY <1>5 DEF timeradd
  <2>. QED BY <2>1, <1>0, <1>2, <1>5 DEF IsTimeval, Time
<1>. QED BY <1>4, <1>5

\* Seconds and milliseconds make up a number of milliseconds.
LEMMA MillisLemma ==
  ASSUME NEW q \in Int, NEW c \in Int, -MsPerSec < c, c < MsPerSec
  PROVE  /\ UsPerSec * q + c * UsPerMs = (MsPerSec * q + c) * UsPerMs
         /\ c * UsPerMs \in Int
         /\ -UsPerSec < c * UsPerMs /\ c * UsPerMs < UsPerSec
         /\ c >= 0 <=> c * UsPerMs >= 0
<1>. DEFINE m == UsPerMs
            k == MsPerSec
<1>0. m \in Nat \ {0} /\ k \in Nat \ {0} /\ UsPerSec = m * k
  BY Units
<1>1. m * (k - c) >= m /\ m * (k + c) >= m
  <2>1. k - c \in Int /\ k + c \in Int /\ k - c >= 1 /\ k + c >= 1
    BY <1>0
  <2>. QED BY <2>1, <1>0, MulStep, Zenon
<1>2. m * (k - c) = m * k - m * c /\ m * (k + c) = m * k + m * c /\ m * c \in Int /\ m * k \in Int
      /\ c * m = m * c
  BY <1>0
<1>3. (m * k) * q + c * m = (k * q + c) * m
  BY <1>0
<1>4. c >= 1 => m * c >= m
  BY <1>0, MulStep
<1>5. c <= -1 => m * c <= -m
  <2>1. SUFFICES ASSUME c <= -1 PROVE m * c <= -m
    OBVIOUS
  <2>2. -c \in Int /\ -c >= 1 /\ m * (-c) = -(m * c)
    BY <2>1, <1>0
  <2>. QED BY <2>2, <1>0, <1>2, MulStep
<1>. HIDE DEF m, k
<1>6. c = 0 => m * c = 0
  BY <1>0
<1>7. c >= 0 <=> m * c >= 0
  BY <1>0, <1>2, <1>4, <1>5, <1>6
<1>8. -UsPerSec < c * m /\ c * m < UsPerSec
  BY <1>0, <1>1, <1>2
<1>. QED BY <1>0, <1>2, <1>3, <1>7, <1>8 DEF m, k


\* It holds at first.
LEMMA TimerInitInv == TimerInit => TimerInv
<1>. SUFFICES ASSUME TimerInit PROVE TimerInv
  OBVIOUS
<1>1. clock \in Nat
  BY TimersAssumption DEF TimerInit
<1>2. UsPerSec * 0 + 0 = 0
  BY Units
<1>3. assigned \in BOOLEAN
  BY Zenon DEF TimerInit
<1>4. /\ IsTimeval(tstart) /\ tstart.usec >= 0 /\ Time(tstart) = startAt
      /\ IsTimeval(tend) /\ Time(tend) = endAt /\ startAt \in Int /\ endAt \in Int
      /\ tend.usec >= 0 /\ ~(tend.usec < 0)
  BY <1>2, Units DEF TimerInit, IsTimeval, Time
<1>. QED BY <1>1, <1>3, <1>4 DEF TimerInv

\* timer_cutdown sets a timer to the clock and what it is given.
LEMMA CutdownInv == ASSUME TimerInv, NEW ms \in Millis, timer_cutdown(ms) PROVE TimerInv'
<1>0. ms \in Nat /\ ms \in Int /\ clock \in Nat
  BY TimersAssumption DEF timer_cutdown, TimerInv
<1>. DEFINE q == ms \div MsPerSec
            r == ms % MsPerSec
            b == [sec |-> q, usec |-> r * UsPerMs]
<1>1. ms = MsPerSec * q + r /\ q \in Int /\ r \in 0..(MsPerSec - 1)
  BY <1>0, Units, DivMod, Zenon
<1>2. tend' = timeradd(gettimeofday, b) /\ endAt' = clock + ms * UsPerMs /\ assigned' = FALSE
      /\ clock' = clock /\ tstart' = tstart /\ startAt' = startAt
  BY DEF timer_cutdown
<1>3. b.sec = q /\ b.usec = r * UsPerMs
  OBVIOUS
<1>. HIDE DEF q, r, b
<1>4. r \in Int /\ -MsPerSec < r /\ r < MsPerSec /\ r >= 0
  BY <1>1, Units
<1>5. /\ UsPerSec * q + r * UsPerMs = (MsPerSec * q + r) * UsPerMs
      /\ r * UsPerMs \in Int
      /\ -UsPerSec < r * UsPerMs /\ r * UsPerMs < UsPerSec
      /\ r >= 0 <=> r * UsPerMs >= 0
  BY <1>1, <1>4, MillisLemma
<1>6. IsTimeval(b) /\ b.usec >= 0 /\ Time(b) = ms * UsPerMs
  BY <1>1, <1>3, <1>4, <1>5 DEF IsTimeval, Time
<1>7. IsTimeval(tend') /\ tend'.usec >= 0 /\ Time(tend') = endAt'
  BY <1>0, <1>2, <1>6, NowLemma, AddLemma
<1>8. endAt' \in Int
  BY <1>0, <1>2, Units
<1>9. assigned' \in BOOLEAN
  BY <1>2, Zenon
<1>10. ~(tend'.usec < 0)
  BY <1>7 DEF IsTimeval
<1>11. IsTimeval(tstart)' /\ tstart'.usec >= 0 /\ (Time(tstart) = startAt)'
  BY <1>2 DEF TimerInv, IsTimeval, Time
<1>12. IsTimeval(tend)' /\ (Time(tend) = endAt)'
  BY <1>7 DEF IsTimeval, Time
<1>. QED BY <1>2, <1>7, <1>8, <1>9, <1>10, <1>11, <1>12 DEF TimerInv

\* timer_assignment divides as C does, so that negative milliseconds leave a negative tv_usec.
LEMMA AssignmentInv == ASSUME TimerInv, NEW ms \in Millis, timer_assignment(ms) PROVE TimerInv'
<1>0. ms \in Int
  BY TimersAssumption
<1>. DEFINE q == CDiv(ms, MsPerSec)
            c == CMod(ms, MsPerSec)
<1>1. /\ q \in Int /\ MsPerSec * q \in Int /\ c = ms - MsPerSec * q
      /\ -MsPerSec < c /\ c < MsPerSec
      /\ ms >= 0 => c >= 0
  <2>1. /\ q \in Int
        /\ MsPerSec * q - ms < MsPerSec /\ ms - MsPerSec * q < MsPerSec
        /\ ms >= 0 => ms - MsPerSec * q >= 0
    BY <1>0, Units, CDivBounds
  <2>2. c = ms - MsPerSec * q
    BY DEF CMod
  <2>. HIDE DEF q, c
  <2>3. MsPerSec * q \in Int
    BY <2>1, Units
  <2>. QED BY <2>1, <2>2, <2>3, <1>0, Units
<1>2. tend' = [sec |-> q, usec |-> c * UsPerMs] /\ endAt' = ms * UsPerMs /\ assigned' = TRUE
      /\ clock' = clock /\ tstart' = tstart /\ startAt' = startAt
  BY DEF timer_assignment
<1>. HIDE DEF q, c
<1>3. c \in Int /\ ms = MsPerSec * q + c
  BY <1>0, <1>1
<1>4. /\ UsPerSec * q + c * UsPerMs = (MsPerSec * q + c) * UsPerMs
      /\ c * UsPerMs \in Int
      /\ -UsPerSec < c * UsPerMs /\ c * UsPerMs < UsPerSec
      /\ c >= 0 <=> c * UsPerMs >= 0
  BY <1>1, <1>3, MillisLemma
<1>5. tend'.sec = q /\ tend'.usec = c * UsPerMs
  BY <1>2
<1>6. IsTimeval(tend') /\ Time(tend') = endAt'
  BY <1>1, <1>2, <1>3, <1>4, <1>5 DEF IsTimeval, Time
<1>7. endAt' \in Int /\ (tend'.usec < 0 => endAt' < 0)
  <2>1. endAt' \in Int /\ UsPerMs * ms \in Int /\ endAt' = UsPerMs * ms
    BY <1>0, <1>2, Units
  <2>2. ASSUME tend'.usec < 0 PROVE endAt' < 0
    <3>1. ms <= -1
      BY <2>2, <1>0, <1>1, <1>3, <1>4, <1>5
    <3>2. -ms \in Int /\ -ms >= 1 /\ UsPerMs * (-ms) = -(UsPerMs * ms)
      BY <3>1, <1>0, Units
    <3>3. UsPerMs * (-ms) >= UsPerMs
      BY <3>2, Units, MulStep
    <3>. QED BY <2>1, <3>2, <3>3, Units
  <2>. QED BY <2>1, <2>2
<1>. QED BY <1>2, <1>6, <1>7 DEF TimerInv, IsTimeval, Time

\* Every step preserves the invariant.
LEMMA TimerStepInv == TimerInv /\ [TimerNext]_timerVars => TimerInv'
<1>. SUFFICES ASSUME TimerInv, [TimerNext]_timerVars PROVE TimerInv'
  OBVIOUS
<1>1. CASE timer_start_clock
  <2>1. tstart' = gettimeofday /\ startAt' = clock /\ clock' = clock /\ tend' = tend
        /\ endAt' = endAt /\ assigned' = assigned
    BY <1>1 DEF timer_start_clock
  <2>2. IsTimeval(tstart') /\ tstart'.usec >= 0 /\ Time(tstart') = startAt'
    BY <2>1, NowLemma DEF TimerInv
  <2>. QED BY <2>1, <2>2 DEF TimerInv, IsTimeval, Time
<1>2. CASE timer_init
  <2>1. UsPerSec * 0 + 0 = 0
    BY Units
  <2>2. assigned' \in BOOLEAN
    BY <1>2, Zenon DEF timer_init
  <2>3. IsTimeval(tend)' /\ (Time(tend) = endAt)' /\ tend'.usec >= 0 /\ ~(tend'.usec < 0)
        /\ endAt' \in Int
    BY <1>2, <2>1, Units DEF timer_init, IsTimeval, Time
  <2>4. IsTimeval(tstart)' /\ tstart'.usec >= 0 /\ (Time(tstart) = startAt)' /\ startAt' \in Int
        /\ clock' \in Nat
    BY <1>2 DEF timer_init, TimerInv, IsTimeval, Time
  <2>. QED BY <2>2, <2>3, <2>4 DEF TimerInv
<1>3. ASSUME NEW d \in Strides, MoveClock(d) PROVE TimerInv'
  <2>1. clock' \in Nat
    BY <1>3, TimersAssumption DEF MoveClock
  <2>. QED BY <1>3, <2>1 DEF MoveClock, TimerInv, IsTimeval, Time
<1>4. CASE UNCHANGED timerVars
  BY <1>4 DEF timerVars, TimerInv, IsTimeval, Time
<1>. QED BY <1>1, <1>2, <1>3, <1>4, CutdownInv, AssignmentInv DEF TimerNext

-----------------------------------------------------------------------------
\* The milliseconds of a timeval: its time, rounded by less than one; down when tv_usec is not
\* negative, up when it is.
LEMMA MsLemma ==
  ASSUME NEW s \in Int, NEW u \in Int
  PROVE  LET v == s * MsPerSec + CDiv(u, UsPerMs)
             t == UsPerSec * s + u
         IN  /\ v \in Int /\ t \in Int /\ v * UsPerMs \in Int
             /\ v * UsPerMs - t < UsPerMs /\ t - v * UsPerMs < UsPerMs
             /\ u >= 0 => v = t \div UsPerMs
             /\ u < 0 => v * UsPerMs - t >= 0
<1>. DEFINE m == UsPerMs
            k == MsPerSec
            d == CDiv(u, UsPerMs)
            v == s * k + d
            t == UsPerSec * s + u
<1>0. m \in Nat \ {0} /\ k \in Nat \ {0} /\ UsPerSec = m * k
  BY Units
<1>1. /\ d \in Int
      /\ m * d - u < m /\ u - m * d < m
      /\ u >= 0 => d = u \div m
      /\ u < 0 => m * d - u >= 0
  BY <1>0, CDivBounds
<1>. HIDE DEF m, k, d
<1>2. v \in Int /\ t \in Int /\ v * m \in Int /\ m * d \in Int /\ s * k \in Int /\ m * (s * k) \in Int
  BY <1>0, <1>1
<1>3. v * m = m * (s * k) + m * d /\ t = m * (s * k) + u
  BY <1>0, <1>1
<1>4. v * m - t = m * d - u /\ t - v * m = u - m * d
  <2>. HIDE DEF v, t
  <2>. QED BY <1>2, <1>3
<1>5. ASSUME u >= 0 PROVE v = t \div m
  <2>1. (m * (s * k) + u) \div m = s * k + (u \div m)
    BY <1>0, <1>2, DivShift, Zenon
  <2>. QED BY <2>1, <1>1, <1>3, <1>5
<1>. HIDE DEF v, t
<1>6. /\ v * m - t < m /\ t - v * m < m
      /\ u < 0 => v * m - t >= 0
  BY <1>1, <1>4
<1>. QED BY <1>2, <1>5, <1>6 DEF m, k, d, v, t

\* Whole milliseconds v that are the time t to within one, between those of t and one more.
LEMMA FitsUp ==
  ASSUME NEW v \in Int, NEW t \in Int, FitsInt(t), t < 0,
         v * UsPerMs - t < UsPerMs, v * UsPerMs - t >= 0
  PROVE  ToInt(v) = v
<1>. DEFINE m == UsPerMs
            q == t \div UsPerMs
            r == t % UsPerMs
<1>0. m \in Nat \ {0}
  BY Units
<1>1. t = m * q + r /\ q \in Int /\ r \in 0..(m - 1)
  BY <1>0, DivMod
<1>2. q \in (-(IntRange \div 2))..(IntRange \div 2 - 1)
  BY DEF FitsInt
<1>3. v * m - t < m /\ v * m - t >= 0 /\ v * m = m * v /\ m * v \in Int
  BY <1>0
<1>. HIDE DEF m, q, r
<1>4. m * q \in Int /\ m * 0 = 0
  BY <1>0, <1>1
<1>5. v <= 0
  <2>1. m * v < m * 0 + m
    BY <1>0, <1>3, <1>4
  <2>. QED BY <1>0, <2>1, MulOrder
<1>6. q <= v
  <2>1. m * q < m * v + m
    BY <1>0, <1>1, <1>3, <1>4
  <2>. QED BY <1>0, <1>1, <2>1, MulOrder
<1>7. v \in (-(IntRange \div 2))..(IntRange \div 2 - 1)
  <2>1. IntRange \div 2 \in Int
    BY TimersAssumption
  <2>2. q <= -1
    <3>1. m * q < m * (-1) + m
      BY <1>0, <1>1, <1>4
    <3>. QED BY <1>0, <1>1, <3>1, MulOrder
  <2>3. IntRange \div 2 >= 1
    BY <1>1, <1>2, <2>1, <2>2
  <2>. QED BY <1>1, <1>2, <1>5, <1>6, <2>1, <2>3
<1>. QED BY <1>7, ToIntLemma

\* Whole milliseconds v that are the time t to within one, in either direction.
LEMMA FitsAround ==
  ASSUME NEW v \in Int, NEW t \in Int, FitsInt(t - UsPerMs), FitsInt(t + UsPerMs),
         v * UsPerMs - t < UsPerMs, t - v * UsPerMs < UsPerMs
  PROVE  ToInt(v) = v
<1>. DEFINE m == UsPerMs
            q == t \div UsPerMs
            r == t % UsPerMs
<1>0. m \in Nat \ {0}
  BY Units
<1>1. t = m * q + r /\ q \in Int /\ r \in 0..(m - 1)
  BY <1>0, DivMod
<1>2. /\ (t - m) \div m \in (-(IntRange \div 2))..(IntRange \div 2 - 1)
      /\ (t + m) \div m \in (-(IntRange \div 2))..(IntRange \div 2 - 1)
  BY DEF FitsInt
<1>3. v * m - t < m /\ t - v * m < m /\ v * m = m * v /\ m * v \in Int
  BY <1>0
<1>q. q = t \div m
  OBVIOUS
<1>. HIDE DEF m, q, r
<1>4. (t - m) \div m = q - 1 /\ (t + m) \div m = q + 1
  <2>1. m * (-1) + t = t - m /\ m * 1 + t = t + m
    BY <1>0
  <2>2. (m * (-1) + t) \div m = -1 + (t \div m)
    BY <1>0, DivShift
  <2>3. (m * 1 + t) \div m = 1 + (t \div m)
    BY <1>0, DivShift
  <2>. QED BY <2>1, <2>2, <2>3, <1>1, <1>q
<1>5. m * q \in Int /\ m * (q - 1) = m * q - m /\ m * (q + 1) = m * q + m
  BY <1>0, <1>1
<1>6. v <= q + 1
  <2>1. m * v < m * (q + 1) + m
    BY <1>0, <1>1, <1>3, <1>5
  <2>2. q + 1 \in Int
    BY <1>1
  <2>. QED BY <1>0, <2>1, <2>2, MulOrder
<1>7. q - 1 <= v
  <2>1. m * (q - 1) < m * v + m
    BY <1>0, <1>1, <1>3, <1>5
  <2>2. q - 1 \in Int
    BY <1>1
  <2>. QED BY <1>0, <2>1, <2>2, MulOrder
<1>8. v \in (-(IntRange \div 2))..(IntRange \div 2 - 1)
  <2>1. IntRange \div 2 \in Int
    BY TimersAssumption
  <2>. QED BY <1>1, <1>2, <1>4, <1>6, <1>7, <2>1
<1>. QED BY <1>8, ToIntLemma

\* timer_expired.
LEMMA ExpiredLemma == TimerInv => (timer_expired <=> endAt <= clock)
<1>. SUFFICES ASSUME TimerInv PROVE timer_expired <=> endAt <= clock
  OBVIOUS
<1>. DEFINE res == timersub(tend, gettimeofday)
            s == res.sec
            u == res.usec
<1>1. IsTimeval(res) /\ Time(res) = endAt - clock
  BY NowLemma, SubLemma DEF TimerInv
<1>2. timer_expired <=> s < 0 \/ (s = 0 /\ u <= 0)
  BY DEF timer_expired
<1>3. /\ s \in Int /\ u \in Int /\ -UsPerSec < u /\ u < UsPerSec
      /\ UsPerSec * s + u = endAt - clock
      /\ endAt \in Int /\ clock \in Int /\ UsPerSec \in Nat \ {0}
  BY <1>1, Units DEF IsTimeval, Time, TimerInv
<1>. HIDE DEF s, u
<1>4. UsPerSec * s \in Int
  BY <1>3
<1>5. CASE s >= 1
  <2>1. UsPerSec * s >= UsPerSec
    BY <1>3, <1>5, MulStep
  <2>. QED BY <2>1, <1>2, <1>3, <1>4, <1>5
<1>6. CASE s = 0
  <2>1. UsPerSec * s = 0
    BY <1>3, <1>6
  <2>. QED BY <2>1, <1>2, <1>3, <1>6
<1>7. CASE s <= -1
  <2>1. -s \in Int /\ -s >= 1 /\ UsPerSec * (-s) = -(UsPerSec * s)
    BY <1>3, <1>7
  <2>2. UsPerSec * (-s) >= UsPerSec
    BY <2>1, <1>3, MulStep
  <2>. QED BY <2>1, <2>2, <1>2, <1>3, <1>4, <1>7
<1>. QED BY <1>3, <1>5, <1>6, <1>7

\* timer_spend rounds down.
LEMMA SpendLemma ==
  ASSUME TimerInv, FitsInt(clock - startAt)
  PROVE  timer_spend = (clock - startAt) \div UsPerMs
<1>. DEFINE res == timersub(gettimeofday, tstart)
            s == res.sec
            u == res.usec
            v == s * MsPerSec + CDiv(u, UsPerMs)
<1>1. IsTimeval(res) /\ Time(res) = clock - startAt /\ res.usec >= 0
  BY NowLemma, SubLemma DEF TimerInv
<1>2. timer_spend = ToInt(v)
  BY DEF timer_spend
<1>3. s \in Int /\ u \in Int /\ u >= 0 /\ UsPerSec * s + u = clock - startAt
  BY <1>1 DEF IsTimeval, Time
<1>. HIDE DEF s, u
<1>4. v = (clock - startAt) \div UsPerMs
  BY <1>3, MsLemma
<1>5. v \in (-(IntRange \div 2))..(IntRange \div 2 - 1)
  BY <1>4 DEF FitsInt
<1>. HIDE DEF v
<1>. QED BY <1>2, <1>4, <1>5, ToIntLemma

\* timer_remain rounds down, and is right to within a millisecond for an assigned timer.
LEMMA RemainLemma ==
  ASSUME TimerInv, FitsInt(endAt - clock)
  PROVE  /\ Within(timer_remain, endAt - clock)
         /\ ~assigned => timer_remain = (endAt - clock) \div UsPerMs
<1>. DEFINE res == timersub(tend, gettimeofday)
            s == res.sec
            u == res.usec
            t == endAt - clock
            v == s * MsPerSec + CDiv(u, UsPerMs)
<1>1. IsTimeval(res) /\ Time(res) = t /\ (tend.usec >= 0 => u >= 0)
  BY NowLemma, SubLemma DEF TimerInv
<1>2. timer_remain = ToInt(v)
  BY DEF timer_remain
<1>3. s \in Int /\ u \in Int /\ UsPerSec * s + u = t /\ endAt \in Int /\ clock \in Nat /\ t \in Int
      /\ tend.usec \in Int
  BY <1>1 DEF IsTimeval, Time, TimerInv
<1>4. u < 0 => t < 0
  BY <1>1, <1>3 DEF TimerInv
<1>5. ~assigned => u >= 0
  BY <1>1 DEF TimerInv
<1>. HIDE DEF s, u, t
<1>6. /\ v \in Int /\ v * UsPerMs \in Int
      /\ v * UsPerMs - t < UsPerMs /\ t - v * UsPerMs < UsPerMs
      /\ u >= 0 => v = t \div UsPerMs
      /\ u < 0 => v * UsPerMs - t >= 0
  BY <1>3, MsLemma
<1>7. FitsInt(t)
  BY DEF t
<1>. HIDE DEF v
<1>8. ToInt(v) = v
  <2>1. CASE u >= 0
    <3>1. v \in (-(IntRange \div 2))..(IntRange \div 2 - 1)
      BY <2>1, <1>6, <1>7 DEF FitsInt
    <3>. QED BY <3>1, ToIntLemma
  <2>2. CASE u < 0
    BY <2>2, <1>3, <1>4, <1>6, <1>7, FitsUp
  <2>. QED BY <2>1, <2>2, <1>3
<1>9. Within(timer_remain, t) /\ (~assigned => timer_remain = t \div UsPerMs)
  BY <1>2, <1>5, <1>6, <1>8 DEF Within
<1>. QED BY <1>9 DEF t

\* timer_interval is right to within a millisecond.
LEMMA IntervalLemma ==
  ASSUME TimerInv, FitsInt(endAt - startAt - UsPerMs), FitsInt(endAt - startAt + UsPerMs)
  PROVE  Within(timer_interval, endAt - startAt)
<1>. DEFINE s == tend.sec - tstart.sec
            u == tend.usec - tstart.usec
            t == endAt - startAt
            v == s * MsPerSec + CDiv(u, UsPerMs)
<1>1. /\ tend.sec \in Int /\ tstart.sec \in Int /\ tend.usec \in Int /\ tstart.usec \in Int
      /\ UsPerSec * tend.sec + tend.usec = endAt /\ UsPerSec * tstart.sec + tstart.usec = startAt
  BY DEF TimerInv, IsTimeval, Time
<1>2. s \in Int /\ u \in Int /\ UsPerSec * s + u = t /\ t \in Int
  BY <1>1, Units DEF TimerInv
<1>3. timer_interval = ToInt(v)
  BY DEF timer_interval
<1>4. FitsInt(t - UsPerMs) /\ FitsInt(t + UsPerMs)
  OBVIOUS
<1>. HIDE DEF s, u, t
<1>5. v \in Int /\ v * UsPerMs - t < UsPerMs /\ t - v * UsPerMs < UsPerMs
  BY <1>2, MsLemma
<1>. HIDE DEF v
<1>6. ToInt(v) = v
  BY <1>2, <1>4, <1>5, FitsAround
<1>7. Within(timer_interval, t)
  BY <1>3, <1>5, <1>6 DEF Within
<1>. QED BY <1>7 DEF t

\* A timer stands for the time it was set to, and has a negative tv_usec only when it was set from
\* negative milliseconds (time.c:8-42, 88-143).
THEOREM TimersInvariant == TimerSpec => []TimerInv
<1>. QED BY TimerInitInv, TimerStepInv, PTL DEF TimerSpec

\* timer_expired is exact; timer_remain, timer_spend and timer_interval are right to within a millisecond,
\* and round down for timers that were not assigned, wherever the result fits an int (time.c:44-86, 145):
\* for any units, clock, milliseconds and width of int.
THEOREM TimersTimersExact == TimerSpec => []TimersExact
<1>1. TimerInv => TimersExact
  BY ExpiredLemma, SpendLemma, RemainLemma, IntervalLemma DEF TimersExact
<1>. QED BY <1>1, TimersInvariant, PTL

-----------------------------------------------------------------------------
(* MD5: numbers.                                                           *)

\* Bytes of a word's bits make whole blocks.
LEMMA WordBlocks == \E k \in Int : Word = 8 * (Md5Block * k)
<1>. DEFINE c == 8 * Md5Block
            k == Word \div c
<1>1. c \in Nat \ {0} /\ Word \in Int /\ Word % c = 0
  BY Md5Assumption
<1>2. Word = c * k + 0 /\ k \in Int
  <2>. HIDE DEF c
  <2>. QED BY <1>1, DivMod
<1>. HIDE DEF k
<1>3. Word = 8 * (Md5Block * k)
  BY <1>2, Md5Assumption
<1>. QED BY <1>2, <1>3

\* The bits counted so far tell how full the buffer is.
LEMMA IndexLemma ==
  ASSUME NEW N \in Nat
  PROVE  (((8 * N) % Word) \div 8) % Md5Block = N % Md5Block
<1>. DEFINE B == Md5Block
            r == (8 * N) % Word
            q == (8 * N) \div Word
            x == N % B
            a == N \div B
<1>0. B \in Nat \ {0} /\ Word \in Nat \ {0} /\ 8 * N \in Int /\ N \in Int
  BY Md5Assumption
<1>1. 8 * N = Word * q + r /\ q \in Int /\ r \in 0..(Word - 1)
  BY <1>0, DivMod
<1>2. N = B * a + x /\ a \in Int /\ x \in 0..(B - 1)
  BY <1>0, DivMod
<1>. HIDE DEF r, q, x, a
<1>3. PICK k \in Int : Word = 8 * (B * k)
  BY WordBlocks
<1>. HIDE DEF B
<1>. DEFINE d == k * q
<1>4. d \in Int /\ Word * q = 8 * (B * d)
  BY <1>0, <1>1, <1>3
<1>. HIDE DEF d
<1>. DEFINE e == B * d
<1>5. e \in Int
  BY <1>0, <1>4
<1>6. r = 8 * (N - e) + 0
  BY <1>0, <1>1, <1>4, <1>5
<1>7. r \div 8 = N - e
  <2>1. r \in Int /\ N - e \in Int /\ 0 \in 0..(8 - 1) /\ 8 \in Nat \ {0}
    BY <1>0, <1>1, <1>5
  <2>. HIDE DEF e
  <2>2. PICK g \in Int : g = N - e
    BY <2>1
  <2>3. r = 8 * g + 0
    BY <1>6, <2>2
  <2>. QED BY <2>1, <2>2, <2>3
<1>8. N - e = B * (a - d) + x /\ a - d \in Int
  BY <1>0, <1>2, <1>4
<1>9. (N - e) % B = x
  <2>1. N - e \in Int
    BY <1>0, <1>5
  <2>. HIDE DEF e
  <2>2. PICK g \in Int : g = N - e
    BY <2>1
  <2>3. PICK h \in Int : h = a - d
    BY <1>8
  <2>4. g = B * h + x
    BY <1>8, <2>2, <2>3
  <2>5. g % B = x
    BY <1>0, <1>2, <2>4, DivUnique
  <2>. QED BY <2>2, <2>5
<1>10. (r \div 8) % B = x
  BY <1>7, <1>9
<1>. QED BY <1>10 DEF r, B, x

\* The bits are counted modulo two words, with the carry.
LEMMA CountLemma ==
  ASSUME NEW N \in Nat, NEW n \in Nat, NEW c0, NEW c1,
         c0 = (8 * N) % Word, c1 = ((8 * N) \div Word) % Word
  PROVE  LET low   == (8 * n) % Word
             z0    == (c0 + low) % Word
             carry == IF z0 < low THEN 1 ELSE 0
         IN  /\ z0 = (8 * (N + n)) % Word
             /\ (c1 + carry + (8 * n) \div Word) % Word = ((8 * (N + n)) \div Word) % Word
<1>. DEFINE W == Word
            r == (8 * N) % W
            q == (8 * N) \div W
            low == (8 * n) % W
            p == (8 * n) \div W
            z0 == (r + low) % W
            carry == IF z0 < low THEN 1 ELSE 0
<1>0. W \in Nat \ {0} /\ 8 * N \in Int /\ 8 * n \in Int
  BY Md5Assumption
<1>1. 8 * N = W * q + r /\ q \in Int /\ r \in 0..(W - 1)
  BY <1>0, DivMod
<1>2. 8 * n = W * p + low /\ p \in Int /\ low \in 0..(W - 1)
  BY <1>0, DivMod
<1>q. c0 = r /\ c1 = q % W
  OBVIOUS
<1>. HIDE DEF W, r, q, low, p
<1>3. PICK s \in Int : s = 8 * (N + n)
  OBVIOUS
<1>4. CASE r + low < W
  <2>1. r + low = W * 0 + (r + low) /\ r + low \in 0..(W - 1) /\ r + low \in Int
    BY <1>0, <1>1, <1>2, <1>4
  <2>2. PICK g \in 0..(W - 1) : g = r + low
    BY <2>1
  <2>3. g = W * 0 + g /\ g \in Int
    BY <1>0
  <2>4. z0 = g
    BY <1>0, <2>2, <2>3, DivUnique
  <2>5. carry = 0
    <3>1. ~(z0 < low)
      BY <1>1, <1>2, <2>2, <2>4
    <3>. QED BY <3>1
  <2>6. s = W * (q + p) + g
    BY <1>0, <1>1, <1>2, <1>3, <2>2
  <2>7. PICK h \in Int : h = q + p
    BY <1>1, <1>2
  <2>8. s % W = g /\ s \div W = h
    BY <1>0, <2>2, <2>6, <2>7, DivUnique
  <2>9. ((q % W) + p) % W = (q + p) % W
    BY <1>0, <1>1, <1>2, ModAdd
  <2>10. (q % W) \in Int
    BY <1>0, <1>1
  <2>11. (q % W) + 0 + p = (q % W) + p
    BY <1>2, <2>10
  <2>12. (c1 + carry + p) % W = (s \div W) % W
    BY <1>q, <2>5, <2>7, <2>8, <2>9, <2>11
  <2>13. (c0 + low) % W = s % W
    BY <1>q, <2>4, <2>8
  <2>14. (IF (c0 + low) % W < low THEN 1 ELSE 0) = carry
    BY <1>q, Zenon
  <2>. HIDE DEF carry, z0
  <2>. QED BY <1>3, <2>12, <2>13, <2>14 DEF W, low, p
<1>5. CASE r + low >= W
  <2>1. r + low = W * 1 + (r + low - W) /\ r + low - W \in 0..(W - 1) /\ r + low \in Int
    BY <1>0, <1>1, <1>2, <1>5
  <2>2. PICK g \in 0..(W - 1) : g = r + low - W
    BY <2>1
  <2>3. PICK t \in Int : t = r + low
    BY <2>1
  <2>4. t % W = g
    <3>1. t = W * 1 + g
      BY <1>0, <2>2, <2>3, <1>1, <1>2
    <3>. QED BY <1>0, <3>1, DivUnique
  <2>5. z0 = g /\ carry = 1
    <3>1. z0 = g
      BY <2>3, <2>4
    <3>2. z0 < low
      BY <1>0, <1>1, <1>2, <2>2, <3>1
    <3>. QED BY <3>1, <3>2
  <2>6. s = W * (q + p + 1) + g
    BY <1>0, <1>1, <1>2, <1>3, <2>2
  <2>7. PICK h \in Int : h = q + p + 1
    BY <1>1, <1>2
  <2>8. s % W = g /\ s \div W = h
    BY <1>0, <2>2, <2>6, <2>7, DivUnique
  <2>9. PICK u \in Int : u = p + 1
    BY <1>2
  <2>10. ((q % W) + u) % W = (q + u) % W
    BY <1>0, <1>1, ModAdd
  <2>11. (q % W) \in Int
    BY <1>0, <1>1
  <2>12. (q % W) + 1 + p = (q % W) + u /\ q + u = h
    BY <1>1, <1>2, <2>7, <2>9, <2>11
  <2>13. (c1 + carry + p) % W = (s \div W) % W
    BY <1>q, <2>5, <2>8, <2>10, <2>12
  <2>14. (c0 + low) % W = s % W
    BY <1>q, <2>5, <2>8
  <2>15. (IF (c0 + low) % W < low THEN 1 ELSE 0) = carry
    BY <1>q, Zenon
  <2>. HIDE DEF carry, z0
  <2>. QED BY <1>3, <2>13, <2>14, <2>15 DEF W, low, p
<1>. QED BY <1>0, <1>1, <1>2, <1>4, <1>5

-----------------------------------------------------------------------------
(* MD5: what MD5Update makes of a context.                                 *)

\* The bytes of w that make whole blocks
InBlocks(w) == Len(w) - (Len(w) % Md5Block)

\* The context after w has been given to MD5Update, with b in the buffer
ContextOf(w, b) ==
  [c0 |-> (8 * Len(w)) % Word, c1 |-> ((8 * Len(w)) \div Word) % Word,
   buffer |-> b, fed |-> SubSeq(w, 1, InBlocks(w))]

\* b begins with the n bytes of w after the first y
Holds(b, w, y, n) == \A k \in 1..n : b[k] = w[y + k]

\* b holds what of w is not in a whole block
Keeps(w, b) == Holds(b, w, InBlocks(w), Len(w) % Md5Block)

\* The counters.
LEMMA CountedLemma ==
  ASSUME NEW S, NEW w \in Seq(S), NEW b, NEW n \in Nat
  PROVE  LET c == ContextOf(w, b) IN
         /\ c.c0 = (8 * Len(w)) % Word /\ c.buffer = b /\ c.fed = SubSeq(w, 1, InBlocks(w))
         /\ Counted(c, n) = [c0 |-> (8 * (Len(w) + n)) % Word,
                             c1 |-> ((8 * (Len(w) + n)) \div Word) % Word,
                             buffer |-> b, fed |-> SubSeq(w, 1, InBlocks(w))]
<1>. DEFINE c == ContextOf(w, b)
            N == Len(w)
            k0 == (8 * N) % Word
            k1 == ((8 * N) \div Word) % Word
            f == SubSeq(w, 1, InBlocks(w))
            low == (8 * n) % Word
            z0 == (c.c0 + low) % Word
            carry == IF z0 < low THEN 1 ELSE 0
            z1 == (c.c1 + carry + (8 * n) \div Word) % Word
<1>0. N \in Nat
  OBVIOUS
<1>1. c = [c0 |-> k0, c1 |-> k1, buffer |-> b, fed |-> f]
  BY DEF ContextOf
<1>. HIDE DEF c
<1>2. c.c0 = k0 /\ c.c1 = k1 /\ c.buffer = b /\ c.fed = f
  <2>. HIDE DEF k0, k1, f
  <2>. QED BY <1>1
<1>3. z0 = (8 * (N + n)) % Word /\ z1 = ((8 * (N + n)) \div Word) % Word
  <2>. HIDE DEF N
  <2>. QED BY <1>0, <1>2, CountLemma
<1>4. Counted(c, n) = [c EXCEPT !.c0 = z0, !.c1 = z1]
  BY Zenon DEF Counted
<1>5. Counted(c, n) = [c0 |-> z0, c1 |-> z1, buffer |-> b, fed |-> f]
  <2>. HIDE DEF k0, k1, f, z0, z1
  <2>. QED BY <1>1, <1>4
<1>. QED BY <1>2, <1>3, <1>5, Zenon DEF c

\* Lengths: how a piece of n bytes fills a buffer that holds x.
LEMMA FillLemma ==
  ASSUME NEW N \in Nat, NEW n \in Nat
  PROVE  LET B == Md5Block
             x == N % B
             e == (n - (B - x)) \div B
             i == (B - x) + e * B
         IN  /\ x \in Nat /\ x < B /\ x <= N
             /\ n < B - x => (N + n) % B = x + n
             /\ n >= B - x => /\ i \in Nat /\ i >= B - x /\ i <= n
                              /\ (N + n) % B = n - i
<1>. DEFINE B == Md5Block
            x == N % B
            a == N \div B
<1>0. B \in Nat \ {0} /\ N \in Int
  BY Md5Assumption
<1>1. N = B * a + x /\ a \in Int /\ x \in 0..(B - 1)
  BY <1>0, DivMod
<1>2. x <= N
  <2>1. a >= 0
    <3>1. ASSUME a <= -1 PROVE FALSE
      <4>1. -a \in Int /\ -a >= 1 /\ B * (-a) = -(B * a)
        BY <1>0, <1>1, <3>1
      <4>2. B * (-a) >= B
        BY <1>0, <4>1, MulStep
      <4>. QED BY <1>0, <1>1, <4>1, <4>2
    <3>. QED BY <1>1, <3>1
  <2>2. B * a >= 0
    BY <1>0, <1>1, <2>1
  <2>. QED BY <1>0, <1>1, <2>2
<1>. HIDE DEF B, x, a
<1>3. PICK T \in Int : T = N + n
  OBVIOUS
<1>4. ASSUME n < B - x PROVE (N + n) % B = x + n
  <2>1. PICK r \in 0..(B - 1) : r = x + n
    BY <1>0, <1>1, <1>4
  <2>2. T = B * a + r
    BY <1>0, <1>1, <1>3, <2>1
  <2>3. T % B = r
    BY <1>0, <1>1, <2>2, DivUnique
  <2>. QED BY <1>3, <2>1, <2>3
<1>. DEFINE m == n - (B - x)
            e == m \div B
            z == m % B
            i == (B - x) + e * B
<1>5. ASSUME n >= B - x PROVE i \in Nat /\ i >= B - x /\ i <= n /\ (N + n) % B = n - i
  <2>1. m \in Nat
    BY <1>0, <1>1, <1>5
  <2>2. m = B * e + z /\ e \in Int /\ z \in 0..(B - 1)
    <3>. HIDE DEF m
    <3>. QED BY <1>0, <2>1, DivMod
  <2>. HIDE DEF e, z
  <2>3. e >= 0
    <3>1. ASSUME e <= -1 PROVE FALSE
      <4>1. -e \in Int /\ -e >= 1 /\ B * (-e) = -(B * e)
        BY <1>0, <2>2, <3>1
      <4>2. B * (-e) >= B
        BY <1>0, <4>1, MulStep
      <4>. QED BY <1>0, <2>1, <2>2, <4>1, <4>2
    <3>. QED BY <2>2, <3>1
  <2>4. PICK y \in Int : y = B * e
    BY <1>0, <2>2
  <2>5. y >= 0 /\ e * B = y
    BY <1>0, <2>2, <2>3, <2>4
  <2>6. i \in Nat /\ i >= B - x /\ i <= n /\ n - i = z
    BY <1>0, <1>1, <2>2, <2>4, <2>5
  <2>7. T = B * (a + 1 + e) + z
    BY <1>0, <1>1, <1>3, <2>2
  <2>8. PICK h \in Int : h = a + 1 + e
    BY <1>1, <2>2
  <2>9. T = B * h + z
    BY <2>7, <2>8
  <2>10. T % B = z
    BY <1>0, <2>2, <2>9, DivUnique
  <2>. HIDE DEF i
  <2>. QED BY <1>3, <2>6, <2>10
<1>6. x \in Nat /\ x < B
  BY <1>0, <1>1
<1>. HIDE DEF i
<1>7. i = (B - x) + ((n - (B - x)) \div B) * B
  BY DEF i
<1>. QED BY <1>2, <1>4, <1>5, <1>6, <1>7, Zenon DEF B, x

\* Parts of two sequences, one after the other.
LEMMA JoinLemma ==
  ASSUME NEW S, NEW w \in Seq(S), NEW u \in Seq(S)
  PROVE  /\ w \o u \in Seq(S) /\ Len(w \o u) = Len(w) + Len(u)
         /\ \A k \in 1..Len(w) : (w \o u)[k] = w[k]
         /\ \A k \in 1..Len(u) : (w \o u)[Len(w) + k] = u[k]
         /\ Len(w) \in Nat /\ Len(u) \in Nat
OBVIOUS

\* The bytes of a part.
LEMMA PartLemma ==
  ASSUME NEW S, NEW w \in Seq(S), NEW a \in Nat, NEW e \in Nat, a >= 1, e <= Len(w), a <= e + 1
  PROVE  /\ SubSeq(w, a, e) \in Seq(S) /\ Len(SubSeq(w, a, e)) = e - a + 1
         /\ \A k \in 1..(e - a + 1) : SubSeq(w, a, e)[k] = w[a + k - 1]
<1>0. Len(w) \in Nat
  OBVIOUS
<1>1. \A k \in a..e : w[k] \in S
  BY <1>0
<1>2. a \in Int /\ e \in Int
  OBVIOUS
<1>3. /\ SubSeq(w, a, e) \in Seq(S)
      /\ Len(SubSeq(w, a, e)) = IF a <= e THEN e - a + 1 ELSE 0
      /\ \A k \in 1..(e - a + 1) : SubSeq(w, a, e)[k] = w[a + k - 1]
  BY <1>1, <1>2, SubSeqProperties
<1>. QED BY <1>3

\* A piece that does not fill the buffer.
LEMMA ShortPiece ==
  ASSUME NEW S, NEW w \in Seq(S), NEW input \in Seq(S), NEW b, NEW x \in Nat,
         x <= Len(w), x + Len(input) <= Md5Block,
         Holds(b, w, Len(w) - x, x)
  PROVE  /\ SubSeq(w \o input, 1, Len(w) - x) = SubSeq(w, 1, Len(w) - x)
         /\ Holds(Copied(b, x, input), w \o input, Len(w) - x, x + Len(input))
<1>. DEFINE v == w \o input
            N == Len(w)
            n == Len(input)
            y == N - x
            B == Md5Block
<1>j. /\ v \in Seq(S) /\ Len(v) = N + n /\ N \in Nat /\ n \in Nat
      /\ \A k \in 1..N : v[k] = w[k]
      /\ \A k \in 1..n : v[N + k] = input[k]
  BY JoinLemma
<1>b. B \in Nat
  BY Md5Assumption
<1>x. x <= N /\ x + n <= B /\ \A k \in 1..x : b[k] = w[y + k]
  BY Zenon DEF Holds
<1>c. Copied(b, x, input) = [k \in 1..B |-> IF k - x \in 1..n THEN input[k - x] ELSE b[k]]
  BY DEF Copied
<1>. HIDE DEF v, N, n, B
<1>y. y \in Nat /\ y <= N /\ y + x = N
  BY <1>j, <1>x
<1>. HIDE DEF y
<1>1. SubSeq(v, 1, y) = SubSeq(w, 1, y)
  <2>. DEFINE s1 == SubSeq(v, 1, y)
              s2 == SubSeq(w, 1, y)
  <2>0. y <= Len(v) /\ y <= Len(w) /\ 1 <= y + 1 /\ y - 1 + 1 = y
    BY <1>j, <1>y DEF N
  <2>1. s1 \in Seq(S) /\ Len(s1) = y /\ \A k \in 1..y : s1[k] = v[k]
    <3>1. s1 \in Seq(S) /\ Len(s1) = y - 1 + 1 /\ \A k \in 1..(y - 1 + 1) : s1[k] = v[1 + k - 1]
      BY <1>j, <1>y, <2>0, PartLemma
    <3>. HIDE DEF s1
    <3>. QED BY <1>y, <2>0, <3>1
  <2>2. s2 \in Seq(S) /\ Len(s2) = y /\ \A k \in 1..y : s2[k] = w[k]
    <3>1. s2 \in Seq(S) /\ Len(s2) = y - 1 + 1 /\ \A k \in 1..(y - 1 + 1) : s2[k] = w[1 + k - 1]
      BY <1>y, <2>0, PartLemma
    <3>. HIDE DEF s2
    <3>. QED BY <1>y, <2>0, <3>1
  <2>. HIDE DEF s1, s2
  <2>3. \A k \in 1..y : s1[k] = s2[k]
    BY <1>j, <1>y, <2>1, <2>2
  <2>4. s1 = s2
    BY <2>1, <2>2, <2>3, SeqEqual
  <2>. QED BY <2>4 DEF s1, s2
<1>2. ASSUME NEW k \in 1..(x + n) PROVE Copied(b, x, input)[k] = v[y + k]
  <2>0. k \in 1..B
    BY <1>b, <1>j, <1>x
  <2>1. Copied(b, x, input)[k] = IF k - x \in 1..n THEN input[k - x] ELSE b[k]
    BY <1>c, <2>0
  <2>2. CASE k <= x
    <3>1. ~(k - x \in 1..n) /\ k \in 1..x /\ y + k \in 1..N
      BY <1>j, <1>y, <2>2
    <3>. QED BY <1>j, <1>x, <2>1, <3>1
  <2>3. CASE k > x
    <3>1. k - x \in 1..n /\ y + k = N + (k - x)
      BY <1>j, <1>y, <2>3
    <3>. QED BY <1>j, <2>1, <3>1
  <2>. QED BY <2>2, <2>3
<1>3. Holds(Copied(b, x, input), v, y, x + n)
  BY <1>2, Zenon DEF Holds
<1>. QED BY <1>1, <1>3, Zenon DEF v, N, n, y

\* A piece that fills the buffer: a block from both, whole blocks of the piece, and the rest.
LEMMA LongPiece ==
  ASSUME NEW S, NEW w \in Seq(S), NEW input \in Seq(S), NEW b, NEW x \in Nat, NEW p \in Nat, NEW i \in Nat,
         x <= Len(w), x + p = Md5Block, p <= i, i <= Len(input), Len(input) - i <= Md5Block,
         Holds(b, w, Len(w) - x, x)
  PROVE  LET full == Copied(b, x, SubSeq(input, 1, p)) IN
         /\ SubSeq(w, 1, Len(w) - x) \o full \o SubSeq(input, p + 1, i) = SubSeq(w \o input, 1, Len(w) + i)
         /\ Holds(Copied(full, 0, SubSeq(input, i + 1, Len(input))), w \o input, Len(w) + i, Len(input) - i)
<1>. DEFINE v == w \o input
            N == Len(w)
            n == Len(input)
            y == N - x
            B == Md5Block
            head == SubSeq(input, 1, p)
            full == Copied(b, x, head)
            mid == SubSeq(input, p + 1, i)
            rest == SubSeq(input, i + 1, n)
            old == SubSeq(w, 1, y)
            all == SubSeq(v, 1, N + i)
<1>j. /\ v \in Seq(S) /\ Len(v) = N + n /\ N \in Nat /\ n \in Nat
      /\ \A k \in 1..N : v[k] = w[k]
      /\ \A k \in 1..n : v[N + k] = input[k]
  BY JoinLemma
<1>b. B \in Nat
  BY Md5Assumption
<1>x. x <= N /\ x + p = B /\ p <= i /\ i <= n /\ n - i <= B /\ \A k \in 1..x : b[k] = w[y + k]
  BY Zenon DEF Holds
<1>y. y \in Nat /\ y <= N /\ y + x = N /\ Len(w) = N /\ Len(input) = n
  BY <1>j, <1>x
<1>c. full = [k \in 1..B |-> IF k - x \in 1..Len(head) THEN head[k - x] ELSE b[k]]
  BY DEF Copied
<1>d. Copied(full, 0, rest) = [k \in 1..B |-> IF k - 0 \in 1..Len(rest) THEN rest[k - 0] ELSE full[k]]
  BY Zenon DEF Copied
<1>. HIDE DEF v, N, n, y, B
<1>1. head \in Seq(S) /\ Len(head) = p /\ \A k \in 1..p : head[k] = input[k]
  <2>0. p <= Len(input) /\ 1 <= p + 1 /\ p - 1 + 1 = p
    BY <1>x, <1>y, <1>j
  <2>1. head \in Seq(S) /\ Len(head) = p - 1 + 1 /\ \A k \in 1..(p - 1 + 1) : head[k] = input[1 + k - 1]
    BY <2>0, PartLemma
  <2>. HIDE DEF head
  <2>. QED BY <2>0, <2>1
<1>2. mid \in Seq(S) /\ Len(mid) = i - p /\ \A k \in 1..(i - p) : mid[k] = input[p + k]
  <2>0. PICK q \in Nat : q = p + 1
    OBVIOUS
  <2>1. i <= Len(input) /\ q >= 1 /\ q <= i + 1 /\ i - q + 1 = i - p
    BY <1>x, <1>y, <1>j, <2>0
  <2>2. /\ SubSeq(input, q, i) \in Seq(S) /\ Len(SubSeq(input, q, i)) = i - q + 1
        /\ \A k \in 1..(i - q + 1) : SubSeq(input, q, i)[k] = input[q + k - 1]
    BY <2>1, PartLemma
  <2>3. mid = SubSeq(input, q, i)
    BY <2>0
  <2>. HIDE DEF mid
  <2>4. mid \in Seq(S) /\ Len(mid) = i - p /\ \A k \in 1..(i - p) : mid[k] = input[q + k - 1]
    BY <2>1, <2>2, <2>3, Zenon
  <2>5. \A k \in 1..(i - p) : q + k - 1 = p + k
    BY <2>0
  <2>. QED BY <2>4, <2>5
<1>3. rest \in Seq(S) /\ Len(rest) = n - i /\ \A k \in 1..(n - i) : rest[k] = input[i + k]
  <2>0. PICK q \in Nat : q = i + 1
    OBVIOUS
  <2>1. n <= Len(input) /\ q >= 1 /\ q <= n + 1 /\ n - q + 1 = n - i
    BY <1>x, <1>y, <1>j, <2>0
  <2>2. /\ SubSeq(input, q, n) \in Seq(S) /\ Len(SubSeq(input, q, n)) = n - q + 1
        /\ \A k \in 1..(n - q + 1) : SubSeq(input, q, n)[k] = input[q + k - 1]
    BY <1>j, <2>1, PartLemma, ZenonT(60)
  <2>3. rest = SubSeq(input, q, n)
    BY <2>0
  <2>. HIDE DEF rest
  <2>4. rest \in Seq(S) /\ Len(rest) = n - i /\ \A k \in 1..(n - i) : rest[k] = input[q + k - 1]
    BY <2>1, <2>2, <2>3, Zenon
  <2>5. \A k \in 1..(n - i) : q + k - 1 = i + k
    BY <1>j, <2>0, SMTT(30)
  <2>. QED BY <2>4, <2>5
<1>4. old \in Seq(S) /\ Len(old) = y /\ \A k \in 1..y : old[k] = w[k]
  <2>0. y <= Len(w) /\ 1 <= y + 1 /\ y - 1 + 1 = y
    BY <1>y
  <2>1. old \in Seq(S) /\ Len(old) = y - 1 + 1 /\ \A k \in 1..(y - 1 + 1) : old[k] = w[1 + k - 1]
    BY <1>y, <2>0, PartLemma
  <2>. HIDE DEF old
  <2>. QED BY <1>y, <2>0, <2>1
<1>5. all \in Seq(S) /\ Len(all) = N + i /\ \A k \in 1..(N + i) : all[k] = v[k]
  <2>0. PICK q \in Nat : q = N + i
    BY <1>j
  <2>1. q <= Len(v) /\ 1 <= q + 1 /\ q - 1 + 1 = q
    BY <1>j, <1>x, <2>0
  <2>2. /\ SubSeq(v, 1, q) \in Seq(S) /\ Len(SubSeq(v, 1, q)) = q - 1 + 1
        /\ \A k \in 1..(q - 1 + 1) : SubSeq(v, 1, q)[k] = v[1 + k - 1]
    BY <1>j, <2>1, PartLemma
  <2>3. all = SubSeq(v, 1, q)
    BY <2>0
  <2>. HIDE DEF all
  <2>4. all \in Seq(S) /\ Len(all) = q /\ \A k \in 1..q : all[k] = v[1 + k - 1]
    BY <2>1, <2>2, <2>3, Zenon
  <2>. QED BY <2>0, <2>4
<1>. HIDE DEF head, mid, rest, old, all, full
<1>6. full \in Seq(S) /\ Len(full) = B /\ \A k \in 1..B : full[k] = v[y + k]
  <2>1. ASSUME NEW k \in 1..B PROVE full[k] = v[y + k] /\ v[y + k] \in S
    <3>0. full[k] = IF k - x \in 1..p THEN head[k - x] ELSE b[k]
      BY <1>c, <1>1, <2>1
    <3>1. CASE k <= x
      <4>1. ~(k - x \in 1..p) /\ k \in 1..x /\ y + k \in 1..N
        BY <1>j, <1>y, <3>1
      <4>2. full[k] = b[k] /\ b[k] = w[y + k] /\ v[y + k] = w[y + k]
        BY <1>j, <1>x, <3>0, <4>1
      <4>3. w[y + k] \in S
        BY <1>y, <4>1
      <4>. QED BY <4>2, <4>3
    <3>2. CASE k > x
      <4>1. k - x \in 1..p /\ k - x \in 1..n /\ y + k = N + (k - x)
        <5>1. x + p = B /\ p <= i /\ i <= n /\ n \in Nat /\ N \in Nat
          BY <1>j, <1>x, Zenon
        <5>. QED BY <1>b, <1>y, <3>2, <5>1
      <4>2. full[k] = head[k - x] /\ head[k - x] = input[k - x] /\ v[y + k] = input[k - x]
        BY <1>1, <1>j, <3>0, <4>1
      <4>3. input[k - x] \in S
        BY <1>y, <4>1
      <4>. QED BY <4>2, <4>3
    <3>. QED BY <1>b, <3>1, <3>2
  <2>2. DOMAIN full = 1..B /\ full = [k \in 1..B |-> full[k]]
    BY <1>c
  <2>3. \A k \in 1..B : full[k] \in S
    BY <2>1
  <2>4. full \in [1..B -> S]
    BY <2>2, <2>3
  <2>5. full \in Seq(S) /\ Len(full) = B
    <3>1. full \in Seq(S)
      BY <1>b, <2>4, SeqDef, Zenon
    <3>2. Len(full) \in Nat /\ DOMAIN full = 1..Len(full)
      BY <3>1, LenProperties
    <3>3. 1..Len(full) = 1..B
      BY <2>2, <3>2, Zenon
    <3>4. PICK l \in Nat : l = Len(full)
      BY <3>2
    <3>5. \A k : k \in 1..l <=> k \in 1..B
      BY <3>3, <3>4, Zenon
    <3>6. l = B
      <4>1. (l \in 1..l <=> l \in 1..B) /\ (B \in 1..l <=> B \in 1..B)
        BY <3>5, Zenon
      <4>2. l > 0 => l \in 1..l
        OBVIOUS
      <4>3. B > 0 => B \in 1..B
        BY <1>b
      <4>4. (l \in 1..B => l <= B) /\ (B \in 1..l => B <= l)
        BY <1>b
      <4>. QED BY <1>b, <4>1, <4>2, <4>3, <4>4
    <3>. QED BY <3>1, <3>4, <3>6
  <2>. QED BY <2>1, <2>5
<1>. DEFINE two == old \o full
            three == two \o mid
<1>7. /\ two \in Seq(S) /\ Len(two) = y + B
      /\ \A k \in 1..y : two[k] = old[k]
      /\ \A k \in 1..B : two[y + k] = full[k]
  <2>1. /\ two \in Seq(S) /\ Len(two) = Len(old) + Len(full)
        /\ \A k \in 1..Len(old) : two[k] = old[k]
        /\ \A k \in 1..Len(full) : two[Len(old) + k] = full[k]
    <3>1. old \in Seq(S) /\ full \in Seq(S)
      BY <1>4, <1>6, Zenon
    <3>. QED BY <3>1, JoinLemma
  <2>. HIDE DEF two
  <2>. QED BY <1>4, <1>6, <2>1
<1>. HIDE DEF two
<1>8. /\ three \in Seq(S) /\ Len(three) = y + B + (i - p)
      /\ \A k \in 1..(y + B) : three[k] = two[k]
      /\ \A k \in 1..(i - p) : three[y + B + k] = mid[k]
  <2>1. /\ three \in Seq(S) /\ Len(three) = Len(two) + Len(mid)
        /\ \A k \in 1..Len(two) : three[k] = two[k]
        /\ \A k \in 1..Len(mid) : three[Len(two) + k] = mid[k]
    <3>1. two \in Seq(S) /\ mid \in Seq(S)
      BY <1>2, <1>7, Zenon
    <3>. QED BY <3>1, JoinLemma
  <2>. HIDE DEF three
  <2>. QED BY <1>2, <1>7, <2>1
<1>. HIDE DEF three
<1>9. y + B + (i - p) = N + i /\ y + B = N + p
  BY <1>b, <1>j, <1>x, <1>y
<1>10. ASSUME NEW k \in 1..(N + i) PROVE three[k] = all[k]
  <2>1. all[k] = v[k] /\ k \in Nat
    BY <1>5, <1>j
  <2>2. CASE k <= y
    <3>1. k \in 1..y /\ k \in 1..(y + B) /\ k \in 1..N
      BY <1>b, <1>j, <1>y, <2>2
    <3>. QED BY <1>4, <1>7, <1>8, <1>j, <2>1, <3>1
  <2>3. CASE k > y /\ k <= y + B
    <3>1. PICK l \in 1..B : k = y + l
      <4>1. k - y \in 1..B /\ k = y + (k - y)
        BY <1>b, <1>y, <2>3
      <4>. QED BY <4>1
    <3>2. k \in 1..(y + B)
      BY <1>b, <1>y, <2>3
    <3>3. three[k] = two[k] /\ two[k] = full[l] /\ full[l] = v[k]
      BY <1>6, <1>7, <1>8, <3>1, <3>2
    <3>. QED BY <2>1, <3>3
  <2>4. CASE k > y + B
    <3>1. PICK l \in 1..(i - p) : k = y + B + l
      <4>1. k - (y + B) \in 1..(i - p) /\ k = y + B + (k - (y + B))
        BY <1>9, <1>b, <1>j, <1>x, <1>y, <2>4
      <4>. QED BY <4>1
    <3>2. three[k] = mid[l] /\ mid[l] = input[p + l]
      BY <1>2, <1>8, <3>1
    <3>3. p + l \in 1..n /\ k = N + (p + l)
      BY <1>9, <1>j, <1>x, <1>y, <1>b, <3>1
    <3>4. v[k] = input[p + l]
      BY <1>j, <3>3
    <3>. QED BY <2>1, <3>2, <3>4
  <2>. QED BY <1>b, <1>y, <2>1, <2>2, <2>3, <2>4
<1>11. three = all
  BY <1>5, <1>8, <1>9, <1>10, SeqEqual
<1>12. ASSUME NEW k \in 1..(n - i) PROVE Copied(full, 0, rest)[k] = v[N + i + k]
  <2>1. k \in 1..B /\ k - 0 = k /\ i + k \in 1..n /\ N + i + k = N + (i + k)
    BY <1>b, <1>j, <1>x
  <2>2. Copied(full, 0, rest)[k] = IF k - 0 \in 1..Len(rest) THEN rest[k - 0] ELSE full[k]
    BY <1>d, <2>1
  <2>3. Copied(full, 0, rest)[k] = rest[k]
    BY <1>3, <2>1, <2>2
  <2>4. rest[k] = input[i + k] /\ v[N + (i + k)] = input[i + k]
    BY <1>3, <1>j, <2>1
  <2>. QED BY <2>1, <2>3, <2>4
<1>13. Holds(Copied(full, 0, rest), v, N + i, n - i)
  BY <1>12, Zenon DEF Holds
<1>. QED BY <1>11, <1>13, Zenon DEF v, N, n, y, head, full, mid, rest, old, all, two, three

\* MD5Update with the values it computes first as parameters
UpdateAt(c, input, x, n, p, i) ==
  IF n < p
  THEN [Counted(c, n) EXCEPT !.buffer = Copied(c.buffer, x, input)]
  ELSE [Counted(c, n) EXCEPT !.fed = c.fed \o Copied(c.buffer, x, SubSeq(input, 1, p)) \o SubSeq(input, p + 1, i),
                             !.buffer = Copied(Copied(c.buffer, x, SubSeq(input, 1, p)), 0, SubSeq(input, i + 1, n))]

\* Update with its local names.
LEMMA UpdateAtLemma ==
  ASSUME NEW c, NEW input, NEW x, NEW n, NEW p, NEW i,
         x = (c.c0 \div 8) % Md5Block, n = Len(input), p = Md5Block - x,
         i = p + ((n - p) \div Md5Block) * Md5Block
  PROVE  Update(c, input) = UpdateAt(c, input, x, n, p, i)
BY Zenon DEF Update, UpdateAt

\* A context with one buffer is the context of another word with the same counters.
LEMMA ContextIs ==
  ASSUME NEW v, NEW M, NEW d, NEW f, Len(v) = M, f = SubSeq(v, 1, InBlocks(v))
  PROVE  [c0 |-> (8 * M) % Word, c1 |-> ((8 * M) \div Word) % Word, buffer |-> d, fed |-> f] = ContextOf(v, d)
BY Zenon DEF ContextOf

\* MD5Update, in whatever state the buffer is.
LEMMA UpdateLemma ==
  ASSUME NEW S, NEW w \in Seq(S), NEW input \in Seq(S), NEW b, Keeps(w, b)
  PROVE  \E d : Update(ContextOf(w, b), input) = ContextOf(w \o input, d) /\ Keeps(w \o input, d)
<1>n. PICK N \in Nat : N = Len(w)
  OBVIOUS
<1>m. PICK n \in Nat : n = Len(input)
  OBVIOUS
<1>b. Md5Block \in Nat \ {0}
  BY Md5Assumption
<1>x. PICK x \in Nat : x = N % Md5Block
  BY <1>b
<1>p. PICK p \in Int : p = Md5Block - x
  BY <1>b
<1>i. PICK i : i = p + ((n - p) \div Md5Block) * Md5Block
  OBVIOUS
<1>v. PICK v \in Seq(S) : v = w \o input /\ Len(v) = N + n
  BY <1>n, <1>m, JoinLemma
<1>c. PICK c : c = ContextOf(w, b)
  OBVIOUS
<1>o. PICK old : old = SubSeq(w, 1, N - x)
  OBVIOUS
<1>w. InBlocks(w) = N - x
  BY <1>n, <1>x, Zenon DEF InBlocks
<1>1. /\ x < Md5Block /\ x <= N
      /\ n < p => (N + n) % Md5Block = x + n
      /\ n >= p => i \in Nat /\ i >= p /\ i <= n /\ (N + n) % Md5Block = n - i
  BY <1>x, <1>p, <1>i, FillLemma, Zenon
<1>2. Holds(b, w, N - x, x)
  <2>1. Holds(b, w, InBlocks(w), Len(w) % Md5Block)
    BY Zenon DEF Keeps
  <2>. QED BY <2>1, <1>n, <1>x, <1>w, Zenon
<1>3. c.c0 = (8 * N) % Word /\ c.buffer = b /\ c.fed = old
  BY <1>n, <1>c, <1>o, <1>w, CountedLemma, Zenon
<1>z. PICK z0, z1 : z0 = (8 * (N + n)) % Word /\ z1 = ((8 * (N + n)) \div Word) % Word
  OBVIOUS
<1>4. Counted(ContextOf(w, b), n) = [c0 |-> (8 * (Len(w) + n)) % Word,
                                     c1 |-> ((8 * (Len(w) + n)) \div Word) % Word,
                                     buffer |-> b, fed |-> SubSeq(w, 1, InBlocks(w))]
  BY CountedLemma, Zenon
<1>t. PICK t : t = Counted(c, n)
  OBVIOUS
<1>5. t = [c0 |-> z0, c1 |-> z1, buffer |-> b, fed |-> old]
  BY <1>4, <1>n, <1>c, <1>o, <1>w, <1>z, <1>t, Zenon
<1>6. (c.c0 \div 8) % Md5Block = x
  BY <1>3, <1>x, IndexLemma, Zenon
<1>7. Update(c, input) = UpdateAt(c, input, x, n, p, i)
  BY <1>6, <1>m, <1>p, <1>i, UpdateAtLemma, Zenon
<1>8. CASE n < p
  <2>b. PICK buf : buf = Copied(b, x, input)
    OBVIOUS
  <2>1. UpdateAt(c, input, x, n, p, i) = [Counted(c, n) EXCEPT !.buffer = Copied(c.buffer, x, input)]
    BY <1>8, Zenon DEF UpdateAt
  <2>2. Update(c, input) = [t EXCEPT !.buffer = buf]
    BY <1>t, <1>3, <1>7, <2>1, <2>b, Zenon
  <2>3. Update(c, input) = [c0 |-> z0, c1 |-> z1, buffer |-> buf, fed |-> old]
    BY <1>5, <2>2
  <2>4. (N + n) % Md5Block = x + n /\ N + n - (x + n) = N - x /\ x + n <= Md5Block
    BY <1>1, <1>8, <1>p, <1>b
  <2>5. SubSeq(v, 1, N - x) = old /\ Holds(buf, v, N - x, x + n)
    <3>1. x <= Len(w) /\ x + Len(input) <= Md5Block
      BY <1>1, <2>4, <1>n, <1>m, Zenon
    <3>2. Holds(b, w, Len(w) - x, x)
      BY <1>2, <1>n, Zenon
    <3>3. /\ SubSeq(w \o input, 1, Len(w) - x) = SubSeq(w, 1, Len(w) - x)
          /\ Holds(Copied(b, x, input), w \o input, Len(w) - x, x + Len(input))
      BY <3>1, <3>2, ShortPiece, Zenon
    <3>. QED BY <3>3, <1>n, <1>m, <1>v, <1>o, <2>b, Zenon
  <2>6. InBlocks(v) = N - x /\ Len(v) % Md5Block = x + n
    <3>1. Len(v) % Md5Block = x + n
      BY <1>v, <2>4, Zenon
    <3>0. InBlocks(v) = Len(v) - (Len(v) % Md5Block)
      BY Zenon DEF InBlocks
    <3>. HIDE DEF InBlocks
    <3>2. InBlocks(v) = N + n - (x + n)
      BY <1>v, <3>0, <3>1
    <3>. QED BY <2>4, <3>1, <3>2, Zenon
  <2>7. Keeps(v, buf)
    <3>1. Holds(buf, v, InBlocks(v), Len(v) % Md5Block)
      BY <2>5, <2>6, Zenon
    <3>. QED BY <3>1, Zenon DEF Keeps
  <2>8. Update(c, input) = ContextOf(v, buf)
    <3>1. old = SubSeq(v, 1, InBlocks(v))
      BY <2>5, <2>6, Zenon
    <3>2. [c0 |-> (8 * (N + n)) % Word, c1 |-> ((8 * (N + n)) \div Word) % Word, buffer |-> buf, fed |-> old]
          = ContextOf(v, buf)
      BY <3>1, <1>v, ContextIs, Zenon
    <3>. QED BY <2>3, <1>z, <3>2, Zenon
  <2>. QED BY <2>7, <2>8, <1>v, <1>c, Zenon
<1>9. CASE n >= p
  <2>1. i \in Nat /\ i >= p /\ i <= n /\ (N + n) % Md5Block = n - i
    BY <1>1, <1>9, Zenon
  <2>2. (N + n) % Md5Block \in Nat /\ (N + n) % Md5Block < Md5Block
    BY <1>b
  <2>3. p \in Nat /\ x + p = Md5Block /\ p <= i /\ n - i <= Md5Block /\ N + n - (n - i) = N + i /\ ~(n < p)
    BY <1>b, <1>p, <1>1, <1>9, <2>1, <2>2
  <2>f. PICK full : full = Copied(b, x, SubSeq(input, 1, p))
    OBVIOUS
  <2>b. PICK buf, fed1 : /\ buf = Copied(full, 0, SubSeq(input, i + 1, n))
                         /\ fed1 = old \o full \o SubSeq(input, p + 1, i)
    OBVIOUS
  <2>4. UpdateAt(c, input, x, n, p, i) =
          [Counted(c, n) EXCEPT !.fed = c.fed \o Copied(c.buffer, x, SubSeq(input, 1, p)) \o SubSeq(input, p + 1, i),
             !.buffer = Copied(Copied(c.buffer, x, SubSeq(input, 1, p)), 0, SubSeq(input, i + 1, n))]
    BY <2>3, Zenon DEF UpdateAt
  <2>5. Update(c, input) = [t EXCEPT !.fed = fed1, !.buffer = buf]
    BY <1>t, <1>3, <1>7, <2>4, <2>f, <2>b, Zenon
  <2>6. Update(c, input) = [c0 |-> z0, c1 |-> z1, buffer |-> buf, fed |-> fed1]
    BY <1>5, <2>5
  <2>7. fed1 = SubSeq(v, 1, N + i) /\ Holds(buf, v, N + i, n - i)
    <3>1. x <= Len(w) /\ x + p = Md5Block /\ p <= i /\ i <= Len(input) /\ Len(input) - i <= Md5Block
      BY <1>1, <2>1, <2>3, <1>n, <1>m, Zenon
    <3>2. Holds(b, w, Len(w) - x, x)
      BY <1>2, <1>n, Zenon
    <3>3. /\ SubSeq(w, 1, Len(w) - x) \o Copied(b, x, SubSeq(input, 1, p)) \o SubSeq(input, p + 1, i)
             = SubSeq(w \o input, 1, Len(w) + i)
          /\ Holds(Copied(Copied(b, x, SubSeq(input, 1, p)), 0, SubSeq(input, i + 1, Len(input))),
                   w \o input, Len(w) + i, Len(input) - i)
      BY <2>1, <2>3, <3>1, <3>2, LongPiece, Zenon
    <3>. QED BY <3>3, <1>n, <1>m, <1>v, <1>o, <2>f, <2>b, Zenon
  <2>8. InBlocks(v) = N + i /\ Len(v) % Md5Block = n - i
    <3>i. i \in Int
      BY <2>1
    <3>1. Len(v) % Md5Block = n - i
      BY <1>v, <2>1, Zenon
    <3>0. InBlocks(v) = Len(v) - (Len(v) % Md5Block)
      BY Zenon DEF InBlocks
    <3>. HIDE DEF InBlocks
    <3>2. InBlocks(v) = N + n - (n - i)
      BY <1>v, <3>0, <3>1, <3>i
    <3>. QED BY <2>3, <3>1, <3>2, Zenon
  <2>9. Keeps(v, buf)
    <3>1. Holds(buf, v, InBlocks(v), Len(v) % Md5Block)
      BY <2>7, <2>8, Zenon
    <3>. QED BY <3>1, Zenon DEF Keeps
  <2>10. Update(c, input) = ContextOf(v, buf)
    <3>1. fed1 = SubSeq(v, 1, InBlocks(v))
      BY <2>7, <2>8, Zenon
    <3>2. [c0 |-> (8 * (N + n)) % Word, c1 |-> ((8 * (N + n)) \div Word) % Word, buffer |-> buf, fed |-> fed1]
          = ContextOf(v, buf)
      BY <3>1, <1>v, ContextIs, Zenon
    <3>. QED BY <2>6, <1>z, <3>2, Zenon
  <2>. QED BY <2>9, <2>10, <1>v, <1>c, Zenon
<1>10. n < p \/ n >= p
  BY <1>p
<1>. QED BY <1>8, <1>9, <1>10, Zenon

\* The length of the padding ends a block, and it has at least a byte and at most a block.
LEMMA PadlenLemma ==
  ASSUME NEW N \in Nat, NEW x, x = N % Md5Block
  PROVE  Padlen(x) \in 1..Md5Block /\ (N + Padlen(x) + LenBytes) % Md5Block = 0
<1>. DEFINE a == N \div Md5Block
<1>0. Md5Block \in Nat \ {0} /\ LenBytes \in Nat /\ LenBytes < Md5Block /\ N \in Int
  BY Md5Assumption
<1>1. N = Md5Block * a + x /\ a \in Int /\ x \in 0..(Md5Block - 1)
  BY <1>0, DivMod
<1>. HIDE DEF a
<1>2. Padlen(x) \in 1..Md5Block
  BY <1>0, <1>1 DEF Padlen
<1>3. PICK P \in 1..Md5Block : P = Padlen(x)
  BY <1>2
<1>4. PICK g \in Int : g = N + P + LenBytes
  BY <1>0
<1>5. \E h \in Int : g = Md5Block * h + 0
  <2>1. CASE x < Md5Block - LenBytes
    <3>1. P = Md5Block - LenBytes - x
      BY <1>3, <2>1 DEF Padlen
    <3>2. g = Md5Block * (a + 1) + 0 /\ a + 1 \in Int
      BY <1>0, <1>1, <1>4, <3>1
    <3>. QED BY <3>2
  <2>2. CASE ~(x < Md5Block - LenBytes)
    <3>1. P = 2 * Md5Block - LenBytes - x
      BY <1>3, <2>2 DEF Padlen
    <3>2. g = Md5Block * (a + 2) + 0 /\ a + 2 \in Int
      BY <1>0, <1>1, <1>4, <3>1
    <3>. QED BY <3>2
  <2>. QED BY <2>1, <2>2
<1>6. PICK h \in Int : g = Md5Block * h + 0
  BY <1>5
<1>7. 0 \in 0..(Md5Block - 1)
  BY <1>0
<1>8. g % Md5Block = 0
  BY <1>0, <1>6, <1>7, DivUnique
<1>. QED BY <1>2, <1>3, <1>4, <1>8

\* One number of zeros makes the length end a block.
LEMMA ZerosLemma ==
  ASSUME NEW N \in Nat, NEW z \in 0..(Md5Block - 1), (N + 1 + z + LenBytes) % Md5Block = 0
  PROVE  (CHOOSE y \in 0..(Md5Block - 1) : (N + 1 + y + LenBytes) % Md5Block = 0) = z
<1>0. Md5Block \in Nat \ {0} /\ LenBytes \in Nat
  BY Md5Assumption
<1>1. ASSUME NEW y \in 0..(Md5Block - 1), (N + 1 + y + LenBytes) % Md5Block = 0
      PROVE  y = z
  <2>1. PICK g \in Int : g = N + 1 + y + LenBytes
    BY <1>0
  <2>2. PICK f \in Int : f = N + 1 + z + LenBytes
    BY <1>0
  <2>3. PICK q \in Int : g = Md5Block * q + 0
    <3>1. g = Md5Block * (g \div Md5Block) + (g % Md5Block) /\ g \div Md5Block \in Int
      BY <1>0, DivMod
    <3>2. g % Md5Block = 0
      BY <1>1, <2>1
    <3>. QED BY <3>1, <3>2
  <2>4. PICK p \in Int : f = Md5Block * p + 0
    <3>1. f = Md5Block * (f \div Md5Block) + (f % Md5Block) /\ f \div Md5Block \in Int
      BY <1>0, DivMod
    <3>2. f % Md5Block = 0
      BY <2>2
    <3>. QED BY <3>1, <3>2
  <2>5. y - z = Md5Block * q - Md5Block * p /\ y - z < Md5Block /\ z - y < Md5Block
    BY <1>0, <2>1, <2>2, <2>3, <2>4
  <2>6. PICK e \in Int : e = q - p
    OBVIOUS
  <2>7. y - z = Md5Block * e /\ z - y = Md5Block * (-e)
    BY <1>0, <2>5, <2>6
  <2>8. ~(e >= 1)
    BY <1>0, <2>5, <2>7, MulStep
  <2>9. ~(e <= -1)
    <3>1. PICK h \in Int : h = -e
      OBVIOUS
    <3>2. ~(h >= 1)
      BY <1>0, <2>5, <2>7, <3>1, MulStep
    <3>. QED BY <3>1, <3>2
  <2>10. e = 0
    BY <2>8, <2>9
  <2>. QED BY <1>0, <2>7, <2>10
<1>. DEFINE y == CHOOSE y \in 0..(Md5Block - 1) : (N + 1 + y + LenBytes) % Md5Block = 0
<1>2. y \in 0..(Md5Block - 1) /\ (N + 1 + y + LenBytes) % Md5Block = 0
  <2>1. \E l \in 0..(Md5Block - 1) : (N + 1 + l + LenBytes) % Md5Block = 0
    BY Zenon
  <2>. QED BY <2>1, Zenon
<1>. QED BY <1>1, <1>2, Zenon

-----------------------------------------------------------------------------
(* MD5: the padding.                                                       *)

\* What MD5Update and MD5Final give to the digest
Byte ==
  {<<"byte", k>> : k \in Nat} \cup {<<"80">>, <<"00">>} \cup {<<"length", t[1], t[2], t[3]>> : t \in Nat \X Nat \X Nat}

\* A function on 1..n is a sequence of length n.
LEMMA FunctionSeq ==
  ASSUME NEW S, NEW n \in Nat, NEW f, f \in [1..n -> S]
  PROVE  f \in Seq(S) /\ Len(f) = n
<1>1. f \in Seq(S)
  BY SeqDef, Zenon
<1>2. Len(f) \in Nat /\ DOMAIN f = 1..Len(f)
  BY <1>1, LenProperties
<1>3. PICK l \in Nat : l = Len(f)
  BY <1>2
<1>4. \A k : k \in 1..l <=> k \in 1..n
  BY <1>2, <1>3
<1>5. (l \in 1..l <=> l \in 1..n) /\ (n \in 1..l <=> n \in 1..n)
  BY <1>4, Zenon
<1>6. l = n
  BY <1>5
<1>. QED BY <1>1, <1>3, <1>6

\* The zeros, and the length as MD5Encode writes it
Zeros(n) == [k \in 1..n |-> <<"00">>]
Encoded(c0, c1) == [k \in 1..LenBytes |-> <<"length", k, c0, c1>>]

\* PADDING is a 1 bit and zeros.
LEMMA PaddingLemma ==
  ASSUME NEW P \in Nat, P >= 1
  PROVE  /\ PADDING(P) = <<<<"80">>>> \o Zeros(P - 1)
         /\ PADDING(P) \in Seq(Byte) /\ Len(PADDING(P)) = P
         /\ Zeros(P - 1) \in Seq(Byte) /\ <<<<"80">>>> \in Seq(Byte)
<1>1. <<"80">> \in Byte /\ <<"00">> \in Byte
  BY Zenon DEF Byte
<1>2. PICK o, e : o = <<"00">> /\ e = <<"80">>
  OBVIOUS
<1>3. PICK l \in Nat : l = P - 1
  OBVIOUS
<1>4. Zeros(l) = [k \in 1..l |-> o] /\ PADDING(P) = [k \in 1..P |-> IF k = 1 THEN e ELSE o]
  BY <1>2, Zenon DEF Zeros, PADDING
<1>5. PICK zs, ps : zs = Zeros(l) /\ ps = PADDING(P)
  OBVIOUS
<1>6. o \in Byte /\ e \in Byte
  BY <1>1, <1>2
<1>7. zs \in Seq(Byte) /\ Len(zs) = l /\ \A k \in 1..l : zs[k] = o
  <2>1. zs \in [1..l -> Byte] /\ \A k \in 1..l : zs[k] = o
    BY <1>4, <1>5, <1>6
  <2>. QED BY <2>1, FunctionSeq
<1>8. ps \in Seq(Byte) /\ Len(ps) = P /\ \A k \in 1..P : ps[k] = IF k = 1 THEN e ELSE o
  <2>1. ps \in [1..P -> Byte] /\ \A k \in 1..P : ps[k] = IF k = 1 THEN e ELSE o
    BY <1>4, <1>5, <1>6
  <2>. QED BY <2>1, FunctionSeq
<1>9. PICK os : os = <<e>> /\ os \in Seq(Byte) /\ Len(os) = 1 /\ os[1] = e
  <2>1. <<e>> \in Seq(Byte) /\ Len(<<e>>) = 1 /\ <<e>>[1] = e
    BY <1>6
  <2>. QED BY <2>1, Zenon
<1>10. PICK j : j = os \o zs
  OBVIOUS
<1>11. /\ j \in Seq(Byte) /\ Len(j) = P
       /\ \A k \in 1..1 : j[k] = os[k]
       /\ \A k \in 1..l : j[1 + k] = zs[k]
  <2>1. /\ j \in Seq(Byte) /\ Len(j) = Len(os) + Len(zs)
        /\ \A k \in 1..Len(os) : j[k] = os[k]
        /\ \A k \in 1..Len(zs) : j[Len(os) + k] = zs[k]
    BY <1>7, <1>9, <1>10, JoinLemma
  <2>. QED BY <1>3, <1>7, <1>9, <2>1
<1>12. ASSUME NEW k \in 1..P PROVE ps[k] = j[k]
  <2>1. CASE k = 1
    BY <1>8, <1>9, <1>11, <2>1
  <2>2. CASE k # 1
    <3>1. PICK m \in 1..l : k = 1 + m
      <4>1. k - 1 \in 1..l /\ k = 1 + (k - 1)
        BY <1>3, <2>2
      <4>. QED BY <4>1
    <3>. QED BY <1>7, <1>8, <1>11, <2>2, <3>1
  <2>. QED BY <2>1, <2>2
<1>13. ps = j
  BY <1>8, <1>11, <1>12, SeqEqual
<1>14. os = <<<<"80">>>> /\ zs = Zeros(P - 1)
  BY <1>2, <1>3, <1>5, <1>9, Zenon
<1>. QED BY <1>5, <1>7, <1>8, <1>9, <1>10, <1>13, <1>14, Zenon

\* The length.
LEMMA EncodedLemma ==
  ASSUME NEW c0 \in Nat, NEW c1 \in Nat
  PROVE  Encoded(c0, c1) \in Seq(Byte) /\ Len(Encoded(c0, c1)) = LenBytes
<1>0. LenBytes \in Nat
  BY Md5Assumption
<1>1. ASSUME NEW k \in 1..LenBytes PROVE <<"length", k, c0, c1>> \in Byte
  <2>1. k \in Nat
    BY <1>0
  <2>2. <<k, c0, c1>> \in Nat \X Nat \X Nat
    BY <2>1
  <2>3. <<k, c0, c1>>[1] = k /\ <<k, c0, c1>>[2] = c0 /\ <<k, c0, c1>>[3] = c1
    OBVIOUS
  <2>4. <<"length", k, c0, c1>> \in {<<"length", t[1], t[2], t[3]>> : t \in Nat \X Nat \X Nat}
    BY <2>2, <2>3
  <2>. QED BY <2>4, Zenon DEF Byte
<1>2. Encoded(c0, c1) \in [1..LenBytes -> Byte]
  BY <1>1, Zenon DEF Encoded
<1>. QED BY <1>0, <1>2, FunctionSeq

\* The message, its padding and its length are the padded message.
LEMMA PaddedLemma ==
  ASSUME NEW m \in Seq(Byte), NEW P \in 1..Md5Block, (Len(m) + P + LenBytes) % Md5Block = 0
  PROVE  (m \o PADDING(P)) \o Encoded((8 * Len(m)) % Word, ((8 * Len(m)) \div Word) % Word) = Padded(m)
<1>c. PICK c0, c1 : c0 = (8 * Len(m)) % Word /\ c1 = ((8 * Len(m)) \div Word) % Word
  OBVIOUS
<1>0. Md5Block \in Nat \ {0} /\ LenBytes \in Nat
  BY Md5Assumption
<1>1. PICK q \in 0..(Md5Block - 1) : q = P - 1
  BY <1>0
<1>2. Len(m) \in Nat
  OBVIOUS
<1>3. Len(m) + P + LenBytes = Len(m) + 1 + q + LenBytes
  BY <1>0, <1>1, <1>2
<1>4. (Len(m) + 1 + q + LenBytes) % Md5Block = 0
  BY <1>3, Zenon
<1>. DEFINE zeros == CHOOSE z \in 0..(Md5Block - 1) : (Len(m) + 1 + z + LenBytes) % Md5Block = 0
<1>5. zeros = q
  BY <1>2, <1>4, ZerosLemma
<1>6. Padded(m) = m \o <<<<"80">>>> \o [k \in 1..zeros |-> <<"00">>]
       \o [k \in 1..LenBytes |-> <<"length", k, (8 * Len(m)) % Word, ((8 * Len(m)) \div Word) % Word>>]
  BY Zenon DEF Padded
<1>. HIDE DEF zeros
<1>7. Padded(m) = m \o <<<<"80">>>> \o Zeros(q) \o Encoded(c0, c1)
  <2>1. Zeros(q) = [k \in 1..zeros |-> <<"00">>]
    BY <1>5, Zenon DEF Zeros
  <2>2. Encoded(c0, c1) =
          [k \in 1..LenBytes |-> <<"length", k, (8 * Len(m)) % Word, ((8 * Len(m)) \div Word) % Word>>]
    BY <1>c, Zenon DEF Encoded
  <2>. QED BY <1>6, <2>1, <2>2, Zenon
<1>8. /\ PADDING(P) = <<<<"80">>>> \o Zeros(q)
      /\ Zeros(q) \in Seq(Byte) /\ <<<<"80">>>> \in Seq(Byte)
  <2>1. P \in Nat /\ P >= 1 /\ P - 1 = q
    BY <1>0, <1>1
  <2>2. /\ PADDING(P) = <<<<"80">>>> \o Zeros(P - 1)
        /\ Zeros(P - 1) \in Seq(Byte) /\ <<<<"80">>>> \in Seq(Byte)
    BY <2>1, PaddingLemma, Zenon
  <2>. QED BY <2>1, <2>2, Zenon
<1>9. (m \o <<<<"80">>>>) \o Zeros(q) = m \o (<<<<"80">>>> \o Zeros(q))
  <2>1. PICK os \in Seq(Byte), zs \in Seq(Byte) : os = <<<<"80">>>> /\ zs = Zeros(q)
    BY <1>8, Zenon
  <2>2. (m \o os) \o zs = m \o (os \o zs)
    BY ConcatAssociative, SMTT(30)
  <2>. QED BY <2>1, <2>2, Zenon
<1>. QED BY <1>c, <1>7, <1>8, <1>9, Zenon

-----------------------------------------------------------------------------
(* MD5: the invariant.                                                     *)

\* While MD5Final has not run, the context is that of the message so far, whatever its pieces;
\* after it the digested blocks are the padded message.
Md5Inv ==
  /\ final \in BOOLEAN /\ msg \in Seq(Byte)
  /\ ~final => Context = ContextOf(msg, buffer) /\ Keeps(msg, buffer)
  /\ final => fed = Padded(msg)

\* The parts of a context.
LEMMA ContextParts ==
  ASSUME NEW w, NEW b
  PROVE  /\ ContextOf(w, b).c0 = (8 * Len(w)) % Word
         /\ ContextOf(w, b).c1 = ((8 * Len(w)) \div Word) % Word
         /\ ContextOf(w, b).buffer = b
         /\ ContextOf(w, b).fed = SubSeq(w, 1, InBlocks(w))
<1>1. PICK z0, z1, f : /\ z0 = (8 * Len(w)) % Word /\ z1 = ((8 * Len(w)) \div Word) % Word
                       /\ f = SubSeq(w, 1, InBlocks(w))
  OBVIOUS
<1>2. PICK c : c = ContextOf(w, b)
  OBVIOUS
<1>3. c = [c0 |-> z0, c1 |-> z1, buffer |-> b, fed |-> f]
  BY <1>1, <1>2, Zenon DEF ContextOf
<1>4. c.c0 = z0 /\ c.c1 = z1 /\ c.buffer = b /\ c.fed = f
  BY <1>3
<1>. QED BY <1>1, <1>2, <1>4, Zenon

\* After SetContext the variables are the context.
LEMMA SetLemma ==
  ASSUME NEW w, NEW d, SetContext(ContextOf(w, d))
  PROVE  /\ count0' = (8 * Len(w)) % Word /\ count1' = ((8 * Len(w)) \div Word) % Word
         /\ buffer' = d /\ fed' = SubSeq(w, 1, InBlocks(w))
         /\ Context' = ContextOf(w, d)
<1>1. PICK c : c = ContextOf(w, d)
  OBVIOUS
<1>2. count0' = c.c0 /\ count1' = c.c1 /\ buffer' = c.buffer /\ fed' = c.fed
  BY <1>1, Zenon DEF SetContext
<1>3. /\ count0' = (8 * Len(w)) % Word /\ count1' = ((8 * Len(w)) \div Word) % Word
      /\ buffer' = d /\ fed' = SubSeq(w, 1, InBlocks(w))
  BY <1>1, <1>2, ContextParts, Zenon
<1>4. Context' = [c0 |-> count0', c1 |-> count1', buffer |-> buffer', fed |-> fed']
  BY Zenon DEF Context
<1>5. Context' = ContextOf(w, d)
  BY <1>3, <1>4, Zenon DEF ContextOf
<1>. QED BY <1>3, <1>5, Zenon

\* The empty message.
LEMMA Md5InitInv == MD5Init => Md5Inv
<1>. SUFFICES ASSUME MD5Init PROVE Md5Inv
  OBVIOUS
<1>1. Md5Block \in Nat \ {0} /\ Word \in Nat \ {0}
  BY Md5Assumption
<1>2. count0 = 0 /\ count1 = 0 /\ fed = <<>> /\ msg = <<>> /\ final = FALSE
  BY Zenon DEF MD5Init
<1>3. msg \in Seq(Byte) /\ Len(msg) = 0 /\ SubSeq(msg, 1, 0) = <<>>
  BY <1>2
<1>4. 0 % Md5Block = 0 /\ (8 * 0) % Word = 0 /\ ((8 * 0) \div Word) % Word = 0 /\ 0 - 0 = 0
  <2>1. 8 * 0 = 0
    OBVIOUS
  <2>2. 0 = Md5Block * 0 + 0 /\ 0 = Word * 0 + 0 /\ 0 \in 0..(Md5Block - 1) /\ 0 \in 0..(Word - 1)
    BY <1>1
  <2>3. 0 % Md5Block = 0 /\ 0 % Word = 0 /\ 0 \div Word = 0
    BY <1>1, <2>2, DivUnique
  <2>. QED BY <2>1, <2>3
<1>5. Len(msg) % Md5Block = 0 /\ InBlocks(msg) = 0
  BY <1>3, <1>4, Zenon DEF InBlocks
<1>6. Keeps(msg, buffer)
  <2>1. Holds(buffer, msg, 0, 0)
    BY DEF Holds
  <2>. QED BY <1>5, <2>1, Zenon DEF Keeps
<1>7. Context = [c0 |-> 0, c1 |-> 0, buffer |-> buffer, fed |-> <<>>]
  BY <1>2, Zenon DEF Context
<1>8. Context = ContextOf(msg, buffer)
  BY <1>3, <1>4, <1>5, <1>7, Zenon DEF ContextOf
<1>. QED BY <1>2, <1>3, <1>6, <1>8, Zenon DEF Md5Inv

\* MD5Update: the pieces leave no trace.
LEMMA Md5UpdateInv ==
  ASSUME Md5Inv, NEW n \in 0..MaxPiece, MD5Update(n)
  PROVE  Md5Inv'
<1>. DEFINE input == [k \in 1..n |-> <<"byte", Len(msg) + k>>]
<1>1. /\ ~final /\ SetContext(Update(Context, input)) /\ msg' = msg \o input /\ final' = final
  BY Zenon DEF MD5Update
<1>2. msg \in Seq(Byte) /\ Context = ContextOf(msg, buffer) /\ Keeps(msg, buffer)
  BY <1>1, Zenon DEF Md5Inv
<1>3. input \in Seq(Byte)
  <2>1. n \in Nat /\ Len(msg) \in Nat
    BY <1>2, Md5Assumption
  <2>2. ASSUME NEW k \in 1..n PROVE <<"byte", Len(msg) + k>> \in Byte
    <3>1. PICK l \in Nat : l = Len(msg) + k
      BY <2>1
    <3>. QED BY <3>1, Zenon DEF Byte
  <2>3. input \in [1..n -> Byte]
    BY <2>2, Zenon
  <2>. HIDE DEF input
  <2>. QED BY <2>1, <2>3, FunctionSeq
<1>. HIDE DEF input
<1>4. PICK d : Update(ContextOf(msg, buffer), input) = ContextOf(msg \o input, d) /\ Keeps(msg \o input, d)
  BY <1>2, <1>3, UpdateLemma, Zenon
<1>5. SetContext(ContextOf(msg \o input, d))
  BY <1>1, <1>2, <1>4, Zenon
<1>6. buffer' = d /\ Context' = ContextOf(msg \o input, d)
  BY <1>5, SetLemma, Zenon
<1>7. msg' \in Seq(Byte)
  BY <1>1, <1>2, <1>3, JoinLemma
<1>8. Context' = ContextOf(msg', buffer') /\ Keeps(msg', buffer')
  BY <1>1, <1>4, <1>6, Zenon
<1>9. final' = FALSE
  BY <1>1, Zenon DEF Md5Inv
<1>. QED BY <1>7, <1>8, <1>9, Zenon DEF Md5Inv

\* MD5Final digests what the buffer holds with the padding and the length.
LEMMA Md5FinalInv ==
  ASSUME Md5Inv, MD5Final
  PROVE  Md5Inv'
<1>1. ~final /\ final' = TRUE /\ msg' = msg
  BY Zenon DEF MD5Final
<1>2. msg \in Seq(Byte) /\ Context = ContextOf(msg, buffer) /\ Keeps(msg, buffer)
  BY <1>1, Zenon DEF Md5Inv
<1>3. PICK N \in Nat : N = Len(msg)
  BY <1>2
<1>4. count0 = (8 * N) % Word /\ count1 = ((8 * N) \div Word) % Word
  <2>1. PICK c : c = Context
    OBVIOUS
  <2>2. c = [c0 |-> count0, c1 |-> count1, buffer |-> buffer, fed |-> fed]
    BY <2>1, Zenon DEF Context
  <2>3. c.c0 = count0 /\ c.c1 = count1
    BY <2>2
  <2>. QED BY <1>2, <1>3, <2>1, <2>3, ContextParts, Zenon
<1>5. Md5Block \in Nat \ {0} /\ Word \in Nat \ {0} /\ LenBytes \in Nat
  BY Md5Assumption
<1>6. (count0 \div 8) % Md5Block = N % Md5Block
  BY <1>4, IndexLemma, Zenon
<1>7. PICK P : P = Padlen((count0 \div 8) % Md5Block)
  OBVIOUS
<1>8. P \in 1..Md5Block /\ (N + P + LenBytes) % Md5Block = 0
  BY <1>6, <1>7, PadlenLemma, Zenon
<1>9. P \in Nat /\ P >= 1
  BY <1>5, <1>8
<1>10. PICK ps \in Seq(Byte) : ps = PADDING(P) /\ Len(ps) = P
  BY <1>9, PaddingLemma, Zenon
<1>11. count0 \in Nat /\ count1 \in Nat
  BY <1>4, <1>5
<1>12. PICK bs \in Seq(Byte) : bs = Encoded(count0, count1) /\ Len(bs) = LenBytes
  BY <1>11, EncodedLemma, Zenon
<1>13. bs = Bits
  BY <1>12, Zenon DEF Bits, Encoded
<1>14. SetContext(Update(Update(Context, ps), bs))
  BY <1>7, <1>10, <1>13, Zenon DEF MD5Final
<1>15. PICK d : Update(ContextOf(msg, buffer), ps) = ContextOf(msg \o ps, d) /\ Keeps(msg \o ps, d)
  BY <1>2, UpdateLemma, Zenon
<1>16. PICK v \in Seq(Byte) : v = msg \o ps /\ Len(v) = N + P
  <2>1. msg \o ps \in Seq(Byte) /\ Len(msg \o ps) = Len(msg) + Len(ps)
    BY <1>2, JoinLemma, Zenon
  <2>. QED BY <1>3, <1>10, <2>1, Zenon
<1>17. PICK e : Update(ContextOf(v, d), bs) = ContextOf(v \o bs, e)
  <2>1. Keeps(v, d)
    BY <1>15, <1>16, Zenon
  <2>. QED BY <2>1, UpdateLemma, Zenon
<1>18. PICK u \in Seq(Byte) : u = v \o bs /\ Len(u) = N + P + LenBytes
  <2>1. v \o bs \in Seq(Byte) /\ Len(v \o bs) = Len(v) + Len(bs)
    BY JoinLemma, Zenon
  <2>. QED BY <1>12, <1>16, <2>1, Zenon
<1>19. SetContext(ContextOf(u, e))
  BY <1>2, <1>14, <1>15, <1>16, <1>17, <1>18, Zenon
<1>20. fed' = SubSeq(u, 1, InBlocks(u))
  BY <1>19, SetLemma, Zenon
<1>21. InBlocks(u) = Len(u)
  <2>1. Len(u) % Md5Block = 0
    BY <1>8, <1>18, Zenon
  <2>2. InBlocks(u) = Len(u) - (Len(u) % Md5Block)
    BY Zenon DEF InBlocks
  <2>3. Len(u) \in Nat
    OBVIOUS
  <2>. QED BY <2>1, <2>2, <2>3
<1>22. fed' = u
  <2>1. SubSeq(u, 1, Len(u)) = u
    BY SubSeqFull
  <2>. QED BY <1>20, <1>21, <2>1, Zenon
<1>23. u = Padded(msg)
  <2>1. (Len(msg) + P + LenBytes) % Md5Block = 0
    BY <1>3, <1>8, Zenon
  <2>2. count0 = (8 * Len(msg)) % Word /\ count1 = ((8 * Len(msg)) \div Word) % Word
    BY <1>3, <1>4, Zenon
  <2>3. (msg \o PADDING(P)) \o Encoded(count0, count1) = Padded(msg)
    <3>1. (msg \o PADDING(P)) \o Encoded((8 * Len(msg)) % Word, ((8 * Len(msg)) \div Word) % Word) = Padded(msg)
      BY <1>2, <1>8, <2>1, PaddedLemma, Zenon
    <3>. QED BY <2>2, <3>1, Zenon
  <2>. QED BY <1>10, <1>12, <1>16, <1>18, <2>3, Zenon
<1>. QED BY <1>1, <1>2, <1>22, <1>23, Zenon DEF Md5Inv

\* The invariant gives the property.
LEMMA Md5Safe ==
  ASSUME Md5Inv
  PROVE  DigestsMessage
<1>1. CASE final
  BY <1>1, Zenon DEF Md5Inv, DigestsMessage
<1>2. CASE ~final
  <2>1. msg \in Seq(Byte) /\ Context = ContextOf(msg, buffer) /\ Keeps(msg, buffer)
    BY <1>2, Zenon DEF Md5Inv
  <2>2. fed = SubSeq(msg, 1, InBlocks(msg))
    <3>1. PICK c : c = Context
      OBVIOUS
    <3>2. c = [c0 |-> count0, c1 |-> count1, buffer |-> buffer, fed |-> fed]
      BY <3>1, Zenon DEF Context
    <3>3. c.fed = fed
      BY <3>2
    <3>. QED BY <2>1, <3>1, <3>3, ContextParts, Zenon
  <2>3. Md5Block \in Nat \ {0}
    BY Md5Assumption
  <2>4. PICK N \in Nat : N = Len(msg)
    BY <2>1
  <2>5. PICK x \in Nat : x = N % Md5Block /\ x <= N
    <3>1. N % Md5Block \in Nat /\ N % Md5Block <= N
      BY <2>3, FillLemma, Zenon
    <3>. QED BY <3>1
  <2>6. PICK y \in Nat : y = N - x
    BY <2>5
  <2>7. InBlocks(msg) = y
    BY <2>4, <2>5, <2>6, Zenon DEF InBlocks
  <2>8. \A k \in 1..x : buffer[k] = msg[y + k]
    <3>1. Holds(buffer, msg, y, x)
      BY <2>1, <2>4, <2>5, <2>7, Zenon DEF Keeps
    <3>. QED BY <3>1, Zenon DEF Holds
  <2>9. PICK r : r = SubSeq(buffer, 1, x)
    OBVIOUS
  <2>10. r \in Seq(Byte) /\ Len(r) = x /\ \A k \in 1..x : r[k] = msg[y + k]
    <3>1. \A k \in 1..x : y + k \in 1..Len(msg)
      BY <2>4, <2>5, <2>6
    <3>2. \A k \in 1..x : buffer[k] \in Byte
      BY <2>1, <2>8, <3>1
    <3>3. 1 \in Int /\ x \in Int
      OBVIOUS
    <3>4. /\ r \in Seq(Byte) /\ Len(r) = IF 1 <= x THEN x - 1 + 1 ELSE 0
          /\ \A k \in 1..(x - 1 + 1) : r[k] = buffer[1 + k - 1]
      BY <2>9, <3>2, <3>3, SubSeqProperties
    <3>5. Len(r) = x
      BY <3>4
    <3>6. \A k \in 1..x : r[k] = buffer[k]
      BY <3>4
    <3>. QED BY <2>8, <3>4, <3>5, <3>6
  <2>11. PICK s : s = SubSeq(msg, 1, y)
    OBVIOUS
  <2>12. s \in Seq(Byte) /\ Len(s) = y /\ \A k \in 1..y : s[k] = msg[k]
    <3>1. 1 \in Nat /\ y <= Len(msg) /\ 1 <= y + 1 /\ 1 >= 1
      BY <2>4, <2>5, <2>6
    <3>2. /\ s \in Seq(Byte) /\ Len(s) = y - 1 + 1
          /\ \A k \in 1..(y - 1 + 1) : s[k] = msg[1 + k - 1]
      BY <2>1, <2>11, <3>1, PartLemma
    <3>. QED BY <3>2
  <2>13. PICK t : t = s \o r
    OBVIOUS
  <2>14. /\ t \in Seq(Byte) /\ Len(t) = N
         /\ \A k \in 1..y : t[k] = s[k]
         /\ \A k \in 1..x : t[y + k] = r[k]
    <3>1. /\ t \in Seq(Byte) /\ Len(t) = Len(s) + Len(r)
          /\ \A k \in 1..Len(s) : t[k] = s[k]
          /\ \A k \in 1..Len(r) : t[Len(s) + k] = r[k]
      <4>1. s \in Seq(Byte) /\ r \in Seq(Byte)
        BY <2>10, <2>12, Zenon
      <4>2. /\ s \o r \in Seq(Byte) /\ Len(s \o r) = Len(s) + Len(r)
            /\ \A k \in 1..Len(s) : (s \o r)[k] = s[k]
            /\ \A k \in 1..Len(r) : (s \o r)[Len(s) + k] = r[k]
        BY <4>1, JoinLemma
      <4>. QED BY <2>13, <4>2, Zenon
    <3>2. Len(s) = y /\ Len(r) = x /\ y + x = N
      BY <2>5, <2>6, <2>10, <2>12
    <3>. QED BY <3>1, <3>2
  <2>15. ASSUME NEW k \in 1..N PROVE t[k] = msg[k]
    <3>1. CASE k <= y
      BY <2>12, <2>14, <3>1
    <3>2. CASE k > y
      <4>1. PICK l \in 1..x : k = y + l
        <5>1. k - y \in 1..x /\ k = y + (k - y)
          BY <2>5, <2>6, <3>2
        <5>. QED BY <5>1
      <4>. QED BY <2>10, <2>14, <4>1
    <3>. QED BY <3>1, <3>2
  <2>16. t = msg
    BY <2>1, <2>4, <2>14, <2>15, SeqEqual
  <2>17. fed \o SubSeq(buffer, 1, Len(msg) % Md5Block) = msg
    BY <2>2, <2>4, <2>5, <2>7, <2>9, <2>11, <2>13, <2>16, Zenon
  <2>. QED BY <1>2, <2>17, Zenon DEF DigestsMessage
<1>. QED BY <1>1, <1>2, Zenon DEF Md5Inv

\* The context after any pieces is a function of the message alone, but for what is stale in the buffer:
\* the count is of its bits modulo two words, its whole blocks have been digested and the rest is at the
\* front of the buffer (md5.c:22-51); after MD5Final the padded message has been (lines 53-64).
THEOREM Md5Invariant == Md5Spec => []Md5Inv
<1>1. Md5Inv /\ [Md5Next]_md5Vars => Md5Inv'
  <2>. SUFFICES ASSUME Md5Inv, [Md5Next]_md5Vars PROVE Md5Inv'
    OBVIOUS
  <2>1. CASE MD5Final
    BY <2>1, Md5FinalInv, Zenon
  <2>2. ASSUME NEW n \in 0..MaxPiece, MD5Update(n) PROVE Md5Inv'
    BY <2>2, Md5UpdateInv, Zenon
  <2>3. CASE UNCHANGED md5Vars
    BY <2>3, Zenon DEF md5Vars, Md5Inv, Context, ContextOf
  <2>. QED BY <2>1, <2>2, <2>3, Zenon DEF Md5Next
<1>. QED BY <1>1, Md5InitInv, PTL DEF Md5Spec

\* The digest does not depend on the pieces, across the wrap of count[0] too, and the padding is that of
\* RFC 1321 (md5.c:22-64): for any size of block and word that holds whole blocks, and any message.
THEOREM Md5DigestsMessage == Md5Spec => []DigestsMessage
BY Md5Invariant, Md5Safe, PTL
=============================================================================
