---------------------------- MODULE HotplugProofs ----------------------------
(***************************************************************************)
(* Proofs about the SD card daemon, for any number of cards, any number of *)
(* events of other devices and any size of the socket buffer.              *)
(***************************************************************************)
EXTENDS Hotplug, SequenceTheorems, TLAPS

TypeOK ==
  /\ card = NoCard \/ card \in [id : Nat \ {0}, parted : BOOLEAN, leaving : BOOLEAN]
  /\ card.leaving => card.parted
  /\ inserted \in Nat /\ others \in Nat
  /\ hasty \in BOOLEAN /\ lost \in BOOLEAN /\ heard \in BOOLEAN
  /\ uevents \in Seq(Event)
  /\ pc \in {"starting", "loop"} /\ p1_removed \in BOOLEAN
  /\ mounts \in Seq(Nat) /\ sd_status \in 0..2

\* Until the loop starts the daemon has mounted and told nothing; after a removal it
\* acted on, the last it told is that there is no card
DaemonInv ==
  /\ pc = "starting" => mounts = <<>> /\ ~p1_removed /\ sd_status = 2
  /\ p1_removed => sd_status = 0

OfCard(action, e) == e.action = action /\ e.dev \in {P1, K0}
Queued(action) == \E k \in 1..Len(uevents) : OfCard(action, uevents[k])

\* The event that makes the daemon mount the card in the slot
Arrival(e) == e.action = "add" /\ e.dev = (IF card.parted THEN P1 ELSE K0)

\* It is queued, and no removal after it; likewise for a removal
ArrivalQueued ==
  \E k \in 1..Len(uevents) :
    Arrival(uevents[k]) /\ \A j \in 1..Len(uevents) : j > k => ~OfCard("remove", uevents[j])
RemovalQueued ==
  \E k \in 1..Len(uevents) :
    OfCard("remove", uevents[k]) /\ \A j \in 1..Len(uevents) : j > k => ~OfCard("add", uevents[j])

OnTop == mounts # <<>> /\ mounts[Len(mounts)] = card.id

\* What the queue will make of /mnt and of the application's view, if the event that
\* counts was not lost
HeardInv ==
  heard =>
    /\ Ready => \/ ArrivalQueued
                \/ ~Queued("remove") /\ (pc = "loop" => OnTop /\ sd_status # 0)
    /\ ~Ready => \/ RemovalQueued
                 \/ ~Queued("add") /\ sd_status # 1

\* For a patient user and with nothing lost the queue holds the events of one change only
PatientInv ==
  ~hasty /\ ~lost =>
    /\ p1_removed => mounts = <<>>
    /\ Ready => /\ ~Queued("remove") /\ mounts \in {<<>>, <<card.id>>}
                /\ pc = "starting" \/ mounts # <<>>
                     \/ \E k \in 1..Len(uevents) : Arrival(uevents[k])
    /\ ~Ready => /\ ~Queued("add") /\ Len(mounts) <= 1
                 /\ ~Queued("remove") => mounts = <<>>

-----------------------------------------------------------------------------
(* The queue.                                                              *)

\* The socket takes a prefix of the events, all of them if they fit.
LEMMA PostEffect ==
  ASSUME uevents \in Seq(Event), NEW es \in Seq(Event), Post(es), Room \in Nat
  PROVE  /\ uevents' \in Seq(Event)
         /\ \E m \in 0..Len(es) :
              /\ Len(uevents') = Len(uevents) + m
              /\ Fits(es) => m = Len(es)
              /\ \A k \in 1..Len(uevents) : uevents'[k] = uevents[k]
              /\ \A i \in 1..m : uevents'[Len(uevents) + i] = es[i]
<1>1. /\ Len(es) \in Nat /\ Len(uevents) \in Nat
      /\ \A i \in 1..Len(es) : es[i] \in Event
  BY LenProperties, ElementOfSeq
<1>. DEFINE new == IF Fits(es) THEN es ELSE SubSeq(es, 1, Room - Len(uevents))
<1>2. /\ new \in Seq(Event) /\ Len(new) \in 0..Len(es)
      /\ Fits(es) => Len(new) = Len(es)
      /\ \A i \in 1..Len(new) : new[i] = es[i]
  <2>1. CASE Fits(es)
    BY <1>1, <2>1
  <2>2. CASE ~Fits(es)
    <3>. DEFINE r == Room - Len(uevents)
    <3>1. r \in Int /\ r < Len(es) /\ new = SubSeq(es, 1, r)
      BY <1>1, <2>2 DEF Fits
    <3>2. /\ SubSeq(es, 1, r) \in Seq(Event)
          /\ Len(SubSeq(es, 1, r)) = IF 1 <= r THEN r - 1 + 1 ELSE 0
          /\ \A i \in 1..(r - 1 + 1) : SubSeq(es, 1, r)[i] = es[1 + i - 1]
      <4>. HIDE DEF r
      <4>. QED BY <1>1, <3>1, SubSeqProperties
    <3>3. \A i \in 1..Len(SubSeq(es, 1, r)) : i \in 1..(r - 1 + 1) /\ 1 + i - 1 = i
      <4>. HIDE DEF r
      <4>. QED BY <3>1, <3>2
    <3>4. Len(SubSeq(es, 1, r)) \in 0..Len(es)
      <4>. HIDE DEF r
      <4>. QED BY <1>1, <3>1, <3>2
    <3>. HIDE DEF r
    <3>5. \A i \in 1..Len(SubSeq(es, 1, r)) : SubSeq(es, 1, r)[i] = es[i]
      BY <3>2, <3>3
    <3>. HIDE DEF new
    <3>. QED BY <2>2, <3>1, <3>2, <3>4, <3>5
  <2>. QED BY <2>1, <2>2
<1>3. uevents' = uevents \o new
  BY DEF Post
<1>. HIDE DEF new
<1>4. /\ uevents \o new \in Seq(Event) /\ Len(uevents \o new) = Len(uevents) + Len(new)
      /\ \A i \in 1..(Len(uevents) + Len(new)) :
           (uevents \o new)[i] = IF i <= Len(uevents) THEN uevents[i] ELSE new[i - Len(uevents)]
  <2>1. uevents \in Seq(Event) /\ new \in Seq(Event)
    BY <1>2
  <2>. QED BY <2>1, ConcatProperties, Zenon
<1>5. \A k \in 1..Len(uevents) : uevents'[k] = uevents[k]
  BY <1>1, <1>2, <1>3, <1>4
<1>6. \A i \in 1..Len(new) : uevents'[Len(uevents) + i] = es[i]
  <2>. SUFFICES ASSUME NEW i \in 1..Len(new) PROVE uevents'[Len(uevents) + i] = es[i]
    OBVIOUS
  <2>1. /\ Len(uevents) + i \in 1..(Len(uevents) + Len(new)) /\ ~(Len(uevents) + i <= Len(uevents))
        /\ (Len(uevents) + i) - Len(uevents) = i
    BY <1>1, <1>2
  <2>. QED BY <1>2, <1>3, <1>4, <2>1
<1>7. Len(uevents') = Len(uevents) + Len(new)
  BY <1>3, <1>4
<1>8. uevents' \in Seq(Event)
  BY <1>3, <1>4
<1>. QED BY <1>2, <1>5, <1>6, <1>7, <1>8

\* One event of the card or of another device is posted: it is queued last, or lost.
LEMMA PostOne ==
  ASSUME TypeOK, NEW e \in Event, Post(<<e>>)
  PROVE  /\ uevents' \in Seq(Event) /\ Len(uevents) \in Nat
         /\ \A k \in 1..Len(uevents) : uevents'[k] = uevents[k] /\ uevents[k] \in Event
         /\ Len(uevents') = Len(uevents) \/ (Len(uevents') = Len(uevents) + 1 /\ uevents'[Len(uevents) + 1] = e)
         /\ Fits(<<e>>) => Len(uevents') = Len(uevents) + 1
<1>1. <<e>> \in Seq(Event) /\ Len(<<e>>) = 1 /\ <<e>>[1] = e
  OBVIOUS
<1>2. Len(uevents) \in Nat /\ \A k \in 1..Len(uevents) : uevents[k] \in Event
  BY LenProperties, ElementOfSeq DEF TypeOK
<1>3. uevents' \in Seq(Event) /\ \E m \in 0..1 :
              /\ Len(uevents') = Len(uevents) + m
              /\ Fits(<<e>>) => m = 1
              /\ \A k \in 1..Len(uevents) : uevents'[k] = uevents[k]
              /\ \A i \in 1..m : uevents'[Len(uevents) + i] = <<e>>[i]
  BY <1>1, PostEffect, BoundAssumption DEF TypeOK
<1>4. PICK m \in 0..1 :
              /\ Len(uevents') = Len(uevents) + m
              /\ Fits(<<e>>) => m = 1
              /\ \A k \in 1..Len(uevents) : uevents'[k] = uevents[k]
              /\ \A i \in 1..m : uevents'[Len(uevents) + i] = <<e>>[i]
  BY <1>3
<1>5. CASE m = 0
  BY <1>2, <1>3, <1>4, <1>5
<1>6. CASE m = 1
  <2>1. uevents'[Len(uevents) + 1] = <<e>>[1]
    BY <1>4, <1>6
  <2>. QED BY <1>1, <1>2, <1>3, <1>4, <1>6, <2>1
<1>. QED BY <1>5, <1>6

\* What handling the first event does to what is queued.
LEMMA TakeOne ==
  ASSUME TypeOK, uevents # <<>>, uevents' = Tail(uevents), UNCHANGED card
  PROVE  /\ Head(uevents) \in Event /\ uevents' \in Seq(Event)
         /\ \A a \in {"add", "remove"} : Queued(a)' => Queued(a)
         /\ \A a \in {"add", "remove"} : Queued(a) => OfCard(a, Head(uevents)) \/ Queued(a)'
         /\ ArrivalQueued => ArrivalQueued' \/ (Arrival(Head(uevents)) /\ ~Queued("remove")')
         /\ RemovalQueued => RemovalQueued' \/ (OfCard("remove", Head(uevents)) /\ ~Queued("add")')
         /\ (\E k \in 1..Len(uevents) : Arrival(uevents[k])) =>
              Arrival(Head(uevents)) \/ (\E k \in 1..Len(uevents') : Arrival(uevents[k])')
<1>1. /\ uevents \in Seq(Event) /\ Len(uevents) \in Nat \ {0}
      /\ Head(uevents) \in Event /\ uevents' \in Seq(Event) /\ Head(uevents) = uevents[1]
      /\ Len(uevents') = Len(uevents) - 1
      /\ \A k \in 1..Len(uevents') : uevents'[k] = uevents[k + 1]
  BY HeadTailProperties, EmptySeq DEF TypeOK
<1>2. \A k \in 1..Len(uevents') : k + 1 \in 1..Len(uevents) /\ k + 1 > 1
  BY <1>1
<1>3. \A k \in 1..Len(uevents) : k # 1 => k - 1 \in 1..Len(uevents') /\ uevents'[k - 1] = uevents[k]
  BY <1>1
<1>4. \A a \in {"add", "remove"} : Queued(a)' => Queued(a)
  BY <1>1, <1>2 DEF Queued, OfCard
<1>5. \A a \in {"add", "remove"} : Queued(a) => OfCard(a, Head(uevents)) \/ Queued(a)'
  BY <1>1, <1>3 DEF Queued, OfCard
<1>6. ASSUME ArrivalQueued
      PROVE  ArrivalQueued' \/ (Arrival(Head(uevents)) /\ ~Queued("remove")')
  <2>1. PICK k \in 1..Len(uevents) :
          Arrival(uevents[k]) /\ \A j \in 1..Len(uevents) : j > k => ~OfCard("remove", uevents[j])
    BY <1>6 DEF ArrivalQueued
  <2>2. CASE k = 1
    BY <1>1, <1>2, <2>1, <2>2 DEF Queued, OfCard
  <2>3. CASE k # 1
    <3>1. k - 1 \in 1..Len(uevents') /\ Arrival(uevents[k - 1])'
      BY <1>3, <2>1, <2>3 DEF Arrival
    <3>2. \A j \in 1..Len(uevents') : j > k - 1 => ~OfCard("remove", uevents[j])'
      <4>. SUFFICES ASSUME NEW j \in 1..Len(uevents'), j > k - 1 PROVE ~OfCard("remove", uevents[j])'
        OBVIOUS
      <4>1. j + 1 \in 1..Len(uevents) /\ j + 1 > k /\ uevents'[j] = uevents[j + 1]
        BY <1>1, <1>2
      <4>. QED BY <2>1, <4>1 DEF OfCard
    <3>. QED BY <3>1, <3>2 DEF ArrivalQueued
  <2>. QED BY <2>2, <2>3
<1>7. ASSUME RemovalQueued
      PROVE  RemovalQueued' \/ (OfCard("remove", Head(uevents)) /\ ~Queued("add")')
  <2>1. PICK k \in 1..Len(uevents) :
          OfCard("remove", uevents[k]) /\ \A j \in 1..Len(uevents) : j > k => ~OfCard("add", uevents[j])
    BY <1>7 DEF RemovalQueued
  <2>2. CASE k = 1
    BY <1>1, <1>2, <2>1, <2>2 DEF Queued, OfCard
  <2>3. CASE k # 1
    <3>1. k - 1 \in 1..Len(uevents') /\ OfCard("remove", uevents[k - 1])'
      BY <1>3, <2>1, <2>3 DEF OfCard
    <3>2. \A j \in 1..Len(uevents') : j > k - 1 => ~OfCard("add", uevents[j])'
      <4>. SUFFICES ASSUME NEW j \in 1..Len(uevents'), j > k - 1 PROVE ~OfCard("add", uevents[j])'
        OBVIOUS
      <4>1. j + 1 \in 1..Len(uevents) /\ j + 1 > k /\ uevents'[j] = uevents[j + 1]
        BY <1>1, <1>2
      <4>. QED BY <2>1, <4>1 DEF OfCard
    <3>. QED BY <3>1, <3>2 DEF RemovalQueued
  <2>. QED BY <2>2, <2>3
<1>8. (\E k \in 1..Len(uevents) : Arrival(uevents[k])) =>
        Arrival(Head(uevents)) \/ (\E k \in 1..Len(uevents') : Arrival(uevents[k])')
  BY <1>1, <1>3 DEF Arrival
<1>. QED BY <1>1, <1>4, <1>5, <1>6, <1>7, <1>8

\* What posting one event does to what is queued.
LEMMA QueueOne ==
  ASSUME TypeOK, NEW e \in Event, Post(<<e>>)
  PROVE  /\ \A a \in {"add", "remove"} : ~Queued(a) /\ ~OfCard(a, e) => ~Queued(a)'
         /\ \A a \in {"add", "remove"} : Queued(a) => Queued(a)'
         /\ RemovalQueued /\ ~OfCard("add", e) => RemovalQueued'
         /\ ArrivalQueued /\ ~OfCard("remove", e) /\ UNCHANGED card => ArrivalQueued'
         /\ Fits(<<e>>) /\ OfCard("remove", e) => RemovalQueued' /\ Queued("remove")'
         /\ (\E k \in 1..Len(uevents) : Arrival(uevents[k])) /\ UNCHANGED card =>
              \E k \in 1..Len(uevents') : Arrival(uevents[k])'
<1>1. /\ uevents' \in Seq(Event) /\ Len(uevents) \in Nat
      /\ \A k \in 1..Len(uevents) : uevents'[k] = uevents[k]
      /\ Len(uevents') = Len(uevents) \/ (Len(uevents') = Len(uevents) + 1 /\ uevents'[Len(uevents) + 1] = e)
      /\ Fits(<<e>>) => Len(uevents') = Len(uevents) + 1
  BY PostOne
<1>2. \A k \in 1..Len(uevents') : (k \in 1..Len(uevents) /\ uevents'[k] = uevents[k]) \/ uevents'[k] = e
  BY <1>1
<1>3. \A k \in 1..Len(uevents) : k \in 1..Len(uevents')
  BY <1>1
<1>4. \A a \in {"add", "remove"} : ~Queued(a) /\ ~OfCard(a, e) => ~Queued(a)'
  BY <1>2 DEF Queued, OfCard
<1>5. RemovalQueued /\ ~OfCard("add", e) => RemovalQueued'
  BY <1>1, <1>2, <1>3 DEF RemovalQueued, OfCard
<1>6. ArrivalQueued /\ ~OfCard("remove", e) /\ UNCHANGED card => ArrivalQueued'
  BY <1>1, <1>2, <1>3 DEF ArrivalQueued, OfCard, Arrival
<1>7. Fits(<<e>>) /\ OfCard("remove", e) => RemovalQueued' /\ Queued("remove")'
  <2>. SUFFICES ASSUME Fits(<<e>>), OfCard("remove", e) PROVE RemovalQueued' /\ Queued("remove")'
    OBVIOUS
  <2>. DEFINE n == Len(uevents) + 1
  <2>1. n \in 1..Len(uevents') /\ uevents'[n] = e /\ \A j \in 1..Len(uevents') : ~(j > n)
    BY <1>1
  <2>. QED BY <2>1 DEF RemovalQueued, Queued, OfCard
<1>8. (\E k \in 1..Len(uevents) : Arrival(uevents[k])) /\ UNCHANGED card =>
        \E k \in 1..Len(uevents') : Arrival(uevents[k])'
  BY <1>1, <1>3 DEF Arrival
<1>9. \A a \in {"add", "remove"} : Queued(a) => Queued(a)'
  BY <1>1, <1>3 DEF Queued, OfCard
<1>. QED BY <1>4, <1>5, <1>6, <1>7, <1>8, <1>9

\* The events of a card that is inserted: nothing is removed, and the last one, if it was
\* not lost, announces what the daemon will mount.
LEMMA QueueInsert ==
  ASSUME TypeOK, NEW parted \in BOOLEAN, Insert(parted)
  PROVE  /\ uevents' \in Seq(Event)
         /\ ~Queued("remove") => ~Queued("remove")'
         /\ heard' => ArrivalQueued'
         /\ heard' \in BOOLEAN /\ lost' = (lost \/ ~heard')
<1>. DEFINE n == IF parted THEN 2 ELSE 1
            es == [k \in 1..n |-> [action |-> "add", dev |-> IF k = 1 THEN K0 ELSE P1]]
<1>1. Post(es) /\ heard' = Fits(es) /\ lost' = (lost \/ ~Fits(es)) /\ card'.parted = parted
  <2>1. PostCard(es) /\ heard' = Fits(es)
    BY DEF Insert
  <2>2. card'.parted = parted
    BY DEF Insert
  <2>. HIDE DEF es
  <2>. QED BY <2>1, <2>2 DEF PostCard
<1>2. n \in Nat /\ es \in [1..n -> Event]
  BY DEF Event
<1>3. es \in Seq(Event)
  <2>. HIDE DEF n, es
  <2>. QED BY <1>2, SeqDef
<1>4. Len(es) = n
  <2>. HIDE DEF n, es
  <2>. QED BY <1>2, <1>3, LenProperties
<1>5. /\ \A i \in 1..n : es[i].action = "add"
      /\ n \in 1..n /\ es[n].dev = (IF parted THEN P1 ELSE K0)
  OBVIOUS
<1>6. Len(uevents) \in Nat
  BY LenProperties DEF TypeOK
<1>. HIDE DEF es, n
<1>7. uevents' \in Seq(Event) /\ \E m \in 0..n :
         /\ Len(uevents') = Len(uevents) + m
         /\ Fits(es) => m = n
         /\ \A k \in 1..Len(uevents) : uevents'[k] = uevents[k]
         /\ \A i \in 1..m : uevents'[Len(uevents) + i] = es[i]
  BY <1>1, <1>3, <1>4, PostEffect, BoundAssumption DEF TypeOK
<1>8. PICK m \in 0..n :
         /\ Len(uevents') = Len(uevents) + m
         /\ Fits(es) => m = n
         /\ \A k \in 1..Len(uevents) : uevents'[k] = uevents[k]
         /\ \A i \in 1..m : uevents'[Len(uevents) + i] = es[i]
  BY <1>7
<1>9. \A k \in 1..Len(uevents') :
        (k \in 1..Len(uevents) /\ uevents'[k] = uevents[k]) \/ uevents'[k].action = "add"
  <2>. SUFFICES ASSUME NEW k \in 1..Len(uevents'), k \notin 1..Len(uevents)
                PROVE  uevents'[k].action = "add"
    BY <1>8
  <2>1. k - Len(uevents) \in 1..m /\ k - Len(uevents) \in 1..n /\ Len(uevents) + (k - Len(uevents)) = k
    BY <1>2, <1>6, <1>8
  <2>. QED BY <1>5, <1>8, <2>1
<1>10. ~Queued("remove") => ~Queued("remove")'
  BY <1>9 DEF Queued, OfCard
<1>11. heard' => ArrivalQueued'
  <2>. SUFFICES ASSUME Fits(es) PROVE ArrivalQueued'
    BY <1>1
  <2>1. PICK z \in 1..Len(uevents') : uevents'[z] = es[n] /\ \A j \in 1..Len(uevents') : ~(j > z)
    <3>1. /\ Len(uevents) + n \in 1..Len(uevents') /\ uevents'[Len(uevents) + n] = es[n]
          /\ \A j \in 1..Len(uevents') : ~(j > Len(uevents) + n)
      BY <1>2, <1>5, <1>6, <1>8
    <3>. QED BY <3>1
  <2>2. Arrival(uevents[z])'
    BY <1>1, <1>5, <2>1 DEF Arrival
  <2>. QED BY <2>1, <2>2 DEF ArrivalQueued
<1>12. Fits(es) \in BOOLEAN
  BY DEF Fits
<1>. QED BY <1>1, <1>7, <1>10, <1>11, <1>12

-----------------------------------------------------------------------------
(* The daemon's two handlers.                                              *)

\* An event that something was added, for a card that is there: what announces the card
\* puts it on top; no other mount happens.
LEMMA AddEffect ==
  ASSUME TypeOK, NEW dev \in {P1, K0, "other"}, OnAdd(dev), UNCHANGED card
  PROVE  /\ mounts' \in Seq(Nat) /\ p1_removed' = FALSE /\ sd_status' \in {sd_status, 1}
         /\ Ready /\ OnTop => OnTop' /\ mounts' = mounts
         /\ Ready /\ mounts = <<>> => mounts' \in {<<>>, <<card.id>>}
         /\ Ready /\ dev = (IF card.parted THEN P1 ELSE K0) => OnTop' /\ sd_status' = 1
<1>1. card.id \in Nat /\ mounts \in Seq(Nat)
  BY DEF TypeOK, NoCard
<1>2. /\ Append(mounts, card.id) \in Seq(Nat) /\ Append(mounts, card.id) # <<>>
      /\ Len(Append(mounts, card.id)) = Len(mounts) + 1
      /\ Append(mounts, card.id)[Len(mounts) + 1] = card.id
      /\ Append(<<>>, card.id) = <<card.id>>
  BY <1>1, AppendProperties
<1>3. /\ AfterMount(dev) \in {mounts, Append(mounts, card.id)}
      /\ OnTop => AfterMount(dev) = mounts
  BY DEF AfterMount, OnTop
<1>4. mounts' \in {mounts, AfterMount(dev)} /\ sd_status' \in {sd_status, 1} /\ p1_removed' = FALSE
  BY DEF OnAdd, daemon_mount_sd
<1>5. mounts' \in Seq(Nat)
  BY <1>1, <1>2, <1>3, <1>4
<1>6. OnTop => OnTop' /\ mounts' = mounts
  BY <1>3, <1>4 DEF OnTop
<1>7. mounts = <<>> => mounts' \in {<<>>, <<card.id>>}
  BY <1>2, <1>3, <1>4
<1>8. ASSUME Ready, dev = (IF card.parted THEN P1 ELSE K0)
      PROVE  OnTop' /\ sd_status' = 1
  <2>1. ~(dev = K0 /\ Node(P1)) /\ Node(dev) /\ (dev = K0 => ~card.parted)
    BY <1>8 DEF Node, Ready, P1, K0
  <2>2. mounts' = AfterMount(dev) /\ sd_status' = 1
    BY <1>8, <2>1 DEF OnAdd, daemon_mount_sd, P1, K0
  <2>3. AfterMount(dev) = IF OnTop THEN mounts ELSE Append(mounts, card.id)
    BY <2>1 DEF AfterMount, OnTop
  <2>4. OnTop'
    BY <1>1, <1>2, <2>2, <2>3 DEF OnTop
  <2>. QED BY <2>2, <2>4
<1>. QED BY <1>4, <1>5, <1>6, <1>7, <1>8

\* An event that something was removed: of the card, the application is told, or was; what
\* was the only mount is gone.
LEMMA RemoveEffect ==
  ASSUME TypeOK, DaemonInv, NEW dev \in {P1, K0, "other"}, OnRemove(dev)
  PROVE  /\ mounts' \in Seq(Nat) /\ p1_removed' \in BOOLEAN /\ sd_status' \in 0..2
         /\ p1_removed' => sd_status' = 0
         /\ dev \in {P1, K0} => sd_status' = 0
         /\ dev = "other" => UNCHANGED <<mounts, p1_removed, sd_status>>
         /\ Len(mounts) <= 1 /\ (p1_removed => mounts = <<>>) =>
              /\ p1_removed' => mounts' = <<>>
              /\ dev \in {P1, K0} => mounts' = <<>>
<1>1. mounts \in Seq(Nat) /\ Len(mounts) \in Nat
  BY LenProperties DEF TypeOK
<1>2. AfterUmount \in Seq(Nat)
  <2>1. CASE mounts = <<>>
    BY <1>1, <2>1 DEF AfterUmount
  <2>2. CASE mounts # <<>>
    <3>1. \A i \in 1..(Len(mounts) - 1) : mounts[i] \in Nat
      BY <1>1, ElementOfSeq
    <3>2. SubSeq(mounts, 1, Len(mounts) - 1) \in Seq(Nat)
      BY <1>1, <3>1, SubSeqProperties
    <3>. QED BY <2>2, <3>2 DEF AfterUmount
  <2>. QED BY <2>1, <2>2
<1>3. Len(mounts) <= 1 => AfterUmount = <<>>
  <2>1. CASE mounts = <<>>
    BY <2>1 DEF AfterUmount
  <2>2. CASE mounts # <<>>
    <3>1. Len(mounts) <= 1 => Len(mounts) - 1 \in Int /\ Len(mounts) - 1 < 1
      BY <1>1
    <3>2. Len(mounts) <= 1 => SubSeq(mounts, 1, Len(mounts) - 1) = <<>>
      BY <3>1, SubSeqEmpty
    <3>. QED BY <2>2, <3>2 DEF AfterUmount
  <2>. QED BY <2>1, <2>2
<1>4. dev = P1 => sd_status' = 0 /\ mounts' = AfterUmount /\ p1_removed' = TRUE
  BY DEF OnRemove, daemon_umount_sd, P1, K0
<1>5. dev = K0 => \/ ~p1_removed /\ sd_status' = 0 /\ mounts' = AfterUmount /\ UNCHANGED p1_removed
                  \/ p1_removed /\ UNCHANGED <<mounts, sd_status, p1_removed>>
  BY DEF OnRemove, daemon_umount_sd, P1, K0
<1>6. dev = "other" => UNCHANGED <<mounts, p1_removed, sd_status>>
  BY DEF OnRemove, P1, K0
<1>7. /\ mounts' \in Seq(Nat) /\ p1_removed' \in BOOLEAN /\ sd_status' \in 0..2
      /\ p1_removed' => sd_status' = 0
      /\ dev \in {P1, K0} => sd_status' = 0
  <2>1. CASE dev = P1
    BY <1>2, <1>4, <2>1
  <2>2. CASE dev = K0
    BY <1>2, <1>5, <2>2 DEF TypeOK, DaemonInv
  <2>3. CASE dev = "other"
    BY <1>6, <2>3 DEF TypeOK, DaemonInv, P1, K0
  <2>. QED BY <2>1, <2>2, <2>3
<1>8. Len(mounts) <= 1 /\ (p1_removed => mounts = <<>>) =>
              /\ p1_removed' => mounts' = <<>>
              /\ dev \in {P1, K0} => mounts' = <<>>
  BY <1>3, <1>4, <1>5, <1>6 DEF TypeOK
<1>. QED BY <1>6, <1>7, <1>8

-----------------------------------------------------------------------------
(* The invariant.                                                          *)

HotplugInv == TypeOK /\ DaemonInv /\ HeardInv /\ PatientInv

\* A card is inserted.
LEMMA InsertInv == ASSUME HotplugInv, NEW parted \in BOOLEAN, Insert(parted) PROVE HotplugInv'
<1>. USE DEF HotplugInv
<1>1. /\ uevents' \in Seq(Event) /\ heard' \in BOOLEAN /\ lost' = (lost \/ ~heard')
      /\ ~Queued("remove") => ~Queued("remove")'
      /\ heard' => ArrivalQueued'
  BY QueueInsert
<1>2. /\ card = NoCard /\ UNCHANGED daemon /\ hasty' = (hasty \/ ~CaughtUp)
      /\ card' = [id |-> inserted + 1, parted |-> parted, leaving |-> FALSE]
      /\ inserted' = inserted + 1 /\ UNCHANGED others
  BY DEF Insert
<1>3. ~Ready /\ Ready'
  BY <1>2 DEF Ready, NoCard, TypeOK
<1>4. TypeOK'
  BY <1>1, <1>2 DEF TypeOK, daemon, CaughtUp
<1>5. DaemonInv'
  BY <1>2 DEF DaemonInv, daemon
<1>6. HeardInv'
  BY <1>1, <1>3 DEF HeardInv
<1>7. PatientInv'
  <2>. SUFFICES ASSUME ~hasty', ~lost' PROVE PatientInv'
    BY DEF PatientInv
  <2>1. ~hasty /\ ~lost /\ heard' /\ CaughtUp
    BY <1>1, <1>2 DEF TypeOK
  <2>2. ~Queued("remove")
    BY <2>1 DEF CaughtUp, Queued, OfCard, P1, K0
  <2>3. mounts = <<>> /\ mounts' = <<>> /\ p1_removed' = p1_removed
    BY <1>2, <1>3, <2>1, <2>2 DEF PatientInv, daemon
  <2>4. \E k \in 1..Len(uevents') : Arrival(uevents[k])'
    BY <1>1, <2>1 DEF ArrivalQueued
  <2>. QED BY <1>1, <1>3, <2>2, <2>3, <2>4 DEF PatientInv
<1>. QED BY <1>4, <1>5, <1>6, <1>7

\* The partition of the card goes.
LEMMA RemovePartitionInv == ASSUME HotplugInv, RemovePartition PROVE HotplugInv'
<1>. USE DEF HotplugInv
<1>. DEFINE e == [action |-> "remove", dev |-> P1]
<1>1. /\ card.parted /\ ~card.leaving /\ card' = [card EXCEPT !.leaving = TRUE]
      /\ UNCHANGED <<inserted, others, daemon>> /\ hasty' = (hasty \/ ~CaughtUp)
      /\ Post(<<e>>) /\ lost' = (lost \/ ~Fits(<<e>>)) /\ heard' = Fits(<<e>>)
  BY DEF RemovePartition, PostCard
<1>2. e \in Event /\ OfCard("remove", e) /\ ~OfCard("add", e)
  BY DEF Event, OfCard
<1>. HIDE DEF e
<1>3. /\ ~Queued("add") => ~Queued("add")'
      /\ Fits(<<e>>) => RemovalQueued' /\ Queued("remove")'
      /\ uevents' \in Seq(Event)
  BY <1>1, <1>2, QueueOne, PostOne
<1>4. Ready /\ ~Ready' /\ card # NoCard
  BY <1>1 DEF Ready, NoCard, TypeOK
<1>5. TypeOK'
  <2>1. hasty' \in BOOLEAN /\ lost' \in BOOLEAN /\ heard' \in BOOLEAN
    BY <1>1 DEF TypeOK, Fits
  <2>2. card \in [id : Nat \ {0}, parted : BOOLEAN, leaving : BOOLEAN]
    BY <1>4 DEF TypeOK
  <2>3. card' \in [id : Nat \ {0}, parted : BOOLEAN, leaving : BOOLEAN] /\ card'.parted
    BY <1>1, <2>2
  <2>. QED BY <1>1, <1>3, <2>1, <2>3 DEF TypeOK, daemon
<1>6. DaemonInv'
  BY <1>1 DEF DaemonInv, daemon
<1>7. HeardInv'
  BY <1>1, <1>3, <1>4 DEF HeardInv
<1>8. PatientInv'
  <2>. SUFFICES ASSUME ~hasty', ~lost' PROVE PatientInv'
    BY DEF PatientInv
  <2>1. ~hasty /\ ~lost /\ Fits(<<e>>) /\ CaughtUp
    BY <1>1 DEF TypeOK
  <2>2. ~Queued("add")
    BY <2>1 DEF CaughtUp, Queued, OfCard, P1, K0
  <2>3. Len(mounts) <= 1
    <3>1. (Ready => mounts = <<>> \/ mounts = <<card.id>>) /\ (~Ready => Len(mounts) <= 1)
      BY <2>1 DEF PatientInv
    <3>2. Len(<<>>) = 0 /\ Len(<<card.id>>) = 1
      OBVIOUS
    <3>3. CASE mounts = <<>>
      BY <3>2, <3>3
    <3>4. CASE mounts = <<card.id>>
      BY <3>2, <3>4
    <3>. QED BY <3>1, <3>3, <3>4 DEF Ready
  <2>4. mounts' = mounts /\ p1_removed' = p1_removed /\ (p1_removed => mounts = <<>>)
    BY <1>1, <2>1 DEF PatientInv, daemon
  <2>. QED BY <1>3, <1>4, <2>1, <2>2, <2>3, <2>4 DEF PatientInv
<1>. QED BY <1>5, <1>6, <1>7, <1>8

\* The disk of the card goes.
LEMMA RemoveDiskInv == ASSUME HotplugInv, RemoveDisk PROVE HotplugInv'
<1>. USE DEF HotplugInv
<1>. DEFINE e == [action |-> "remove", dev |-> K0]
<1>1. /\ card # NoCard /\ (card.parted => card.leaving) /\ card' = NoCard
      /\ UNCHANGED <<inserted, others, daemon>> /\ hasty' = (hasty \/ (~card.parted /\ ~CaughtUp))
      /\ Post(<<e>>) /\ lost' = (lost \/ ~Fits(<<e>>))
      /\ heard' = ((card.parted /\ heard) \/ Fits(<<e>>))
  BY DEF RemoveDisk, PostCard
<1>2. e \in Event /\ OfCard("remove", e) /\ ~OfCard("add", e)
  BY DEF Event, OfCard
<1>. HIDE DEF e
<1>3. /\ ~Queued("add") => ~Queued("add")'
      /\ RemovalQueued => RemovalQueued'
      /\ Fits(<<e>>) => RemovalQueued' /\ Queued("remove")'
      /\ uevents' \in Seq(Event)
  BY <1>1, <1>2, QueueOne, PostOne
<1>4. ~Ready' /\ (Ready <=> ~card.parted)
  BY <1>1 DEF Ready, NoCard, TypeOK
<1>5. TypeOK'
  <2>1. hasty' \in BOOLEAN /\ lost' \in BOOLEAN /\ heard' \in BOOLEAN
    BY <1>1 DEF TypeOK
  <2>2. ~card'.leaving
    BY <1>1 DEF NoCard
  <2>. QED BY <1>1, <1>3, <2>1, <2>2 DEF TypeOK, daemon
<1>6. DaemonInv'
  BY <1>1 DEF DaemonInv, daemon
<1>7. HeardInv'
  BY <1>1, <1>3, <1>4 DEF HeardInv, daemon
<1>8. PatientInv'
  <2>. SUFFICES ASSUME ~hasty', ~lost' PROVE PatientInv'
    BY DEF PatientInv
  <2>1. ~hasty /\ ~lost /\ Fits(<<e>>) /\ (CaughtUp \/ card.parted)
    BY <1>1 DEF TypeOK
  <2>2. ~Queued("add")
    BY <1>4, <2>1 DEF CaughtUp, Queued, OfCard, P1, K0, PatientInv
  <2>3. Len(mounts) <= 1
    <3>1. (Ready => mounts = <<>> \/ mounts = <<card.id>>) /\ (~Ready => Len(mounts) <= 1)
      BY <2>1 DEF PatientInv
    <3>2. Len(<<>>) = 0 /\ Len(<<card.id>>) = 1
      OBVIOUS
    <3>3. CASE mounts = <<>>
      BY <3>2, <3>3
    <3>4. CASE mounts = <<card.id>>
      BY <3>2, <3>4
    <3>. QED BY <3>1, <3>3, <3>4 DEF Ready
  <2>4. mounts' = mounts /\ p1_removed' = p1_removed /\ (p1_removed => mounts = <<>>)
    BY <1>1, <2>1 DEF PatientInv, daemon
  <2>. QED BY <1>3, <1>4, <2>1, <2>2, <2>3, <2>4 DEF PatientInv
<1>. QED BY <1>5, <1>6, <1>7, <1>8

\* An event of another device.
LEMMA OtherDeviceInv ==
  ASSUME HotplugInv, NEW action \in {"add", "remove"}, OtherDevice(action) PROVE HotplugInv'
<1>. USE DEF HotplugInv
<1>. DEFINE e == [action |-> action, dev |-> "other"]
<1>1. /\ UNCHANGED <<card, inserted, hasty, lost, heard, daemon>> /\ others' = others + 1 /\ Post(<<e>>)
  BY DEF OtherDevice
<1>2. e \in Event /\ ~OfCard("remove", e) /\ ~OfCard("add", e)
  BY DEF Event, OfCard, P1, K0
<1>. HIDE DEF e
<1>3. /\ ~Queued("add") => ~Queued("add")'
      /\ Queued("remove")' <=> Queued("remove")
      /\ RemovalQueued => RemovalQueued'
      /\ ArrivalQueued => ArrivalQueued'
      /\ (\E k \in 1..Len(uevents) : Arrival(uevents[k])) => \E k \in 1..Len(uevents') : Arrival(uevents[k])'
      /\ uevents' \in Seq(Event)
  BY <1>1, <1>2, QueueOne, PostOne
<1>4. Ready' = Ready /\ OnTop' = OnTop
  BY <1>1 DEF Ready, OnTop, daemon
<1>5. TypeOK'
  BY <1>1, <1>3 DEF TypeOK, daemon
<1>6. DaemonInv'
  BY <1>1 DEF DaemonInv, daemon
<1>7. HeardInv'
  BY <1>1, <1>3, <1>4 DEF HeardInv, daemon
<1>8. PatientInv'
  BY <1>1, <1>3, <1>4 DEF PatientInv, daemon
<1>. QED BY <1>5, <1>6, <1>7, <1>8

\* The daemon mounts what is there when it starts.
LEMMA StartUpInv == ASSUME HotplugInv, StartUp PROVE HotplugInv'
<1>. USE DEF HotplugInv
<1>1. /\ pc = "starting" /\ pc' = "loop" /\ UNCHANGED <<kernel, uevents, p1_removed>>
      /\ mounts = <<>> /\ ~p1_removed /\ sd_status = 2
  BY DEF StartUp, DaemonInv
<1>2. UNCHANGED sd_status
  BY DEF StartUp, daemon_mount_sd
<1>3. card.id \in Nat /\ Append(<<>>, card.id) = <<card.id>> /\ <<card.id>> \in Seq(Nat)
      /\ <<>> \in Seq(Nat) /\ <<card.id>> # <<>> /\ Len(<<card.id>>) = 1 /\ <<card.id>>[1] = card.id
  BY DEF TypeOK, NoCard
<1>4. Ready => mounts' = <<card.id>>
  <2>. SUFFICES ASSUME Ready PROVE mounts' = <<card.id>>
    OBVIOUS
  <2>1. CASE card.parted
    <3>1. Node(P1) /\ mounts' = AfterMount(P1)
      BY <2>1 DEF StartUp, daemon_mount_sd, Node, Ready, P1, K0
    <3>. QED BY <1>1, <1>3, <3>1 DEF AfterMount, P1, K0
  <2>2. CASE ~card.parted
    <3>1. Node(K0) /\ ~Node(P1) /\ mounts' = AfterMount(K0)
      BY <2>2 DEF StartUp, daemon_mount_sd, Node, Ready, P1, K0
    <3>. QED BY <1>1, <1>3, <2>2, <3>1 DEF AfterMount
  <2>. QED BY <2>1, <2>2
<1>5. ~Ready => mounts' = <<>>
  <2>. SUFFICES ASSUME ~Ready PROVE mounts' = <<>>
    OBVIOUS
  <2>1. ~Node(P1) /\ (card.id = 0 \/ card.parted)
    BY DEF Node, Ready, TypeOK, NoCard
  <2>2. AfterMount(K0) = mounts
    BY <2>1 DEF AfterMount, Node
  <2>. QED BY <1>1, <2>1, <2>2 DEF StartUp, daemon_mount_sd
<1>6. /\ UNCHANGED <<card, heard, hasty, lost, inserted, others>>
      /\ \A a \in {"add", "remove"} : Queued(a)' = Queued(a)
      /\ Ready' = Ready /\ ArrivalQueued' = ArrivalQueued /\ RemovalQueued' = RemovalQueued
  BY <1>1 DEF kernel, Queued, OfCard, Ready, ArrivalQueued, RemovalQueued, Arrival
<1>7. mounts' \in Seq(Nat)
  BY <1>3, <1>4, <1>5
<1>8. TypeOK'
  BY <1>1, <1>2, <1>6, <1>7 DEF TypeOK
<1>9. DaemonInv'
  BY <1>1, <1>2 DEF DaemonInv
<1>10. Ready => OnTop'
  BY <1>3, <1>4, <1>6 DEF OnTop
<1>11. HeardInv'
  BY <1>1, <1>2, <1>6, <1>10 DEF HeardInv
<1>12. PatientInv'
  <2>1. Ready' => mounts' # <<>> /\ mounts' = <<card'.id>>
    BY <1>3, <1>4, <1>6
  <2>2. ~Ready' => mounts' = <<>> /\ Len(<<>>) = 0
    BY <1>5, <1>6
  <2>3. Len(<<>>) <= 1
    OBVIOUS
  <2>. QED BY <1>1, <1>6, <2>1, <2>2, <2>3 DEF PatientInv
<1>. QED BY <1>8, <1>9, <1>11, <1>12

\* The daemon handles an event.
LEMMA HandleEventInv == ASSUME HotplugInv, HandleEvent PROVE HotplugInv'
<1>. USE DEF HotplugInv
<1>. DEFINE e == Head(uevents)
<1>1. pc = "loop" /\ uevents # <<>> /\ uevents' = Tail(uevents) /\ UNCHANGED <<kernel, pc>>
  BY DEF HandleEvent
<1>2. UNCHANGED <<card, heard, hasty, lost, inserted, others>> /\ Ready' = Ready
  BY <1>1 DEF kernel, Ready
<1>3. /\ e \in Event /\ uevents' \in Seq(Event)
      /\ \A a \in {"add", "remove"} : Queued(a)' => Queued(a)
      /\ \A a \in {"add", "remove"} : Queued(a) => OfCard(a, e) \/ Queued(a)'
      /\ ArrivalQueued => ArrivalQueued' \/ (Arrival(e) /\ ~Queued("remove")')
      /\ RemovalQueued => RemovalQueued' \/ (OfCard("remove", e) /\ ~Queued("add")')
      /\ (\E k \in 1..Len(uevents) : Arrival(uevents[k])) =>
           Arrival(e) \/ (\E k \in 1..Len(uevents') : Arrival(uevents[k])')
  BY <1>1, <1>2, TakeOne
<1>4. \A a \in {"add", "remove"} : OfCard(a, e) => Queued(a)
  <2>1. e = uevents[1] /\ 1 \in 1..Len(uevents)
    BY <1>1, EmptySeq, HeadTailProperties DEF TypeOK
  <2>. QED BY <2>1 DEF Queued
<1>5. e.dev \in {P1, K0, "other"} /\ e.action \in {"add", "remove"}
  BY <1>3 DEF Event
<1>. HIDE DEF e
<1>6. CASE e.action = "add"
  <2>1. OnAdd(e.dev)
    BY <1>6 DEF HandleEvent, e
  <2>2. /\ mounts' \in Seq(Nat) /\ p1_removed' = FALSE /\ sd_status' \in {sd_status, 1}
        /\ Ready /\ OnTop => OnTop' /\ mounts' = mounts
        /\ Ready /\ mounts = <<>> => mounts' \in {<<>>, <<card.id>>}
        /\ Ready /\ Arrival(e) => OnTop' /\ sd_status' = 1
    BY <1>2, <1>5, <2>1, AddEffect DEF Arrival
  <2>3. ~OfCard("remove", e) /\ (e.dev = "other" => UNCHANGED <<mounts, sd_status>>)
    BY <1>6, <2>1 DEF OfCard, OnAdd, P1, K0
  <2>4. TypeOK'
    <3>1. sd_status \in 0..2 /\ 1 \in 0..2
      BY DEF TypeOK
    <3>2. sd_status' \in 0..2 /\ p1_removed' \in BOOLEAN
      BY <2>2, <3>1, Zenon
    <3>. QED BY <1>1, <1>2, <1>3, <2>2, <3>2 DEF TypeOK
  <2>5. DaemonInv'
    BY <1>1, <2>2 DEF DaemonInv
  <2>6. HeardInv'
    <3>. SUFFICES ASSUME heard PROVE HeardInv'
      BY <1>2 DEF HeardInv
    <3>1. CASE Ready
      <4>1. CASE ArrivalQueued
        BY <1>1, <1>2, <1>3, <2>2, <3>1, <4>1 DEF HeardInv
      <4>2. CASE ~Queued("remove") /\ OnTop /\ sd_status # 0
        BY <1>1, <1>2, <1>3, <2>2, <3>1, <4>2 DEF HeardInv
      <4>. QED BY <1>1, <3>1, <4>1, <4>2 DEF HeardInv
    <3>2. CASE ~Ready
      <4>1. CASE RemovalQueued
        BY <1>2, <1>3, <2>3, <3>2, <4>1 DEF HeardInv
      <4>2. CASE ~Queued("add") /\ sd_status # 1
        <5>1. e.dev = "other"
          BY <1>4, <1>5, <1>6, <4>2 DEF OfCard
        <5>. QED BY <1>2, <1>3, <2>3, <3>2, <4>2, <5>1 DEF HeardInv
      <4>. QED BY <3>2, <4>1, <4>2 DEF HeardInv
    <3>. QED BY <3>1, <3>2
  <2>7. PatientInv'
    <3>. SUFFICES ASSUME ~hasty, ~lost PROVE PatientInv'
      BY <1>2 DEF PatientInv
    <3>1. CASE Ready
      <4>1. ~Queued("remove")' /\ (mounts = <<>> \/ mounts = <<card.id>>)
        BY <1>3, <3>1 DEF PatientInv
      <4>2. <<card.id>> # <<>> /\ Len(<<card.id>>) = 1 /\ <<card.id>>[1] = card.id
        OBVIOUS
      <4>3. mounts = <<card.id>> => OnTop /\ mounts # <<>>
        BY <4>2 DEF OnTop
      <4>4. mounts' = <<>> \/ mounts' = <<card.id>>
        BY <2>2, <3>1, <4>1, <4>3
      <4>5. mounts # <<>> => mounts' # <<>>
        BY <2>2, <3>1, <4>1, <4>3
      <4>6. Arrival(e) => mounts' # <<>>
        BY <2>2, <3>1 DEF OnTop
      <4>7. mounts' # <<>> \/ \E k \in 1..Len(uevents') : Arrival(uevents[k])'
        BY <1>1, <1>3, <3>1, <4>5, <4>6 DEF PatientInv
      <4>. QED BY <1>2, <2>2, <3>1, <4>1, <4>4, <4>7 DEF PatientInv
    <3>2. CASE ~Ready
      <4>1. ~Queued("add") /\ Len(mounts) <= 1 /\ (~Queued("remove") => mounts = <<>>)
        BY <3>2 DEF PatientInv
      <4>2. e.dev = "other" /\ mounts' = mounts
        BY <1>4, <1>5, <1>6, <2>3, <4>1 DEF OfCard
      <4>. QED BY <1>2, <1>3, <2>2, <2>3, <3>2, <4>1, <4>2 DEF PatientInv
    <3>. QED BY <3>1, <3>2
  <2>. QED BY <2>4, <2>5, <2>6, <2>7
<1>7. CASE e.action = "remove"
  <2>1. OnRemove(e.dev)
    BY <1>7 DEF HandleEvent, e
  <2>2. /\ mounts' \in Seq(Nat) /\ p1_removed' \in BOOLEAN /\ sd_status' \in 0..2
        /\ p1_removed' => sd_status' = 0
        /\ e.dev \in {P1, K0} => sd_status' = 0
        /\ e.dev = "other" => UNCHANGED <<mounts, p1_removed, sd_status>>
        /\ Len(mounts) <= 1 /\ (p1_removed => mounts = <<>>) =>
              /\ p1_removed' => mounts' = <<>>
              /\ e.dev \in {P1, K0} => mounts' = <<>>
    BY <1>5, <2>1, RemoveEffect
  <2>3. ~OfCard("add", e) /\ ~Arrival(e) /\ (OfCard("remove", e) <=> e.dev \in {P1, K0})
    BY <1>7 DEF OfCard, Arrival
  <2>4. TypeOK'
    BY <1>1, <1>2, <1>3, <2>2 DEF TypeOK
  <2>5. DaemonInv'
    BY <1>1, <2>2 DEF DaemonInv
  <2>6. HeardInv'
    <3>. SUFFICES ASSUME heard PROVE HeardInv'
      BY <1>2 DEF HeardInv
    <3>1. CASE Ready
      <4>1. CASE ArrivalQueued
        BY <1>2, <1>3, <2>3, <3>1, <4>1 DEF HeardInv
      <4>2. CASE ~Queued("remove") /\ OnTop /\ sd_status # 0
        <5>1. e.dev = "other"
          BY <1>4, <1>5, <1>7, <4>2 DEF OfCard
        <5>2. OnTop' /\ sd_status' # 0
          BY <1>2, <2>2, <4>2, <5>1 DEF OnTop
        <5>. QED BY <1>2, <1>3, <3>1, <4>2, <5>2 DEF HeardInv
      <4>. QED BY <1>1, <3>1, <4>1, <4>2 DEF HeardInv
    <3>2. CASE ~Ready
      <4>1. CASE RemovalQueued
        BY <1>2, <1>3, <2>2, <2>3, <3>2, <4>1 DEF HeardInv
      <4>2. CASE ~Queued("add") /\ sd_status # 1
        BY <1>2, <1>3, <1>5, <2>2, <3>2, <4>2 DEF HeardInv
      <4>. QED BY <3>2, <4>1, <4>2 DEF HeardInv
    <3>. QED BY <3>1, <3>2
  <2>7. PatientInv'
    <3>. SUFFICES ASSUME ~hasty, ~lost PROVE PatientInv'
      BY <1>2 DEF PatientInv
    <3>1. CASE Ready
      <4>1. ~Queued("remove") /\ ~Queued("remove")'
        BY <1>3, <3>1 DEF PatientInv
      <4>2. UNCHANGED <<mounts, p1_removed>>
        BY <1>4, <1>5, <1>7, <2>2, <4>1 DEF OfCard
      <4>3. \/ mounts # <<>>
            \/ \E k \in 1..Len(uevents') : Arrival(uevents[k])'
        BY <1>1, <1>3, <2>3, <3>1 DEF PatientInv
      <4>. QED BY <1>1, <1>2, <3>1, <4>1, <4>2, <4>3 DEF PatientInv
    <3>2. CASE ~Ready
      <4>1. /\ ~Queued("add")' /\ Len(mounts) <= 1 /\ (p1_removed => mounts = <<>>)
            /\ ~Queued("remove") => mounts = <<>>
        BY <1>3, <3>2 DEF PatientInv
      <4>2. /\ p1_removed' => mounts' = <<>>
            /\ e.dev \in {P1, K0} => mounts' = <<>>
        BY <2>2, <4>1
      <4>3. Len(mounts') <= 1
        BY <1>5, <2>2, <4>1, <4>2
      <4>4. ~Queued("remove")' => mounts' = <<>>
        BY <1>3, <1>5, <2>2, <2>3, <4>1, <4>2
      <4>. QED BY <1>2, <3>2, <4>1, <4>2, <4>3, <4>4 DEF PatientInv
    <3>. QED BY <3>1, <3>2
  <2>. QED BY <2>4, <2>5, <2>6, <2>7
<1>. QED BY <1>5, <1>6, <1>7

\* Every step keeps the invariant.
LEMMA HotplugStep == HotplugInv /\ [Next]_vars => HotplugInv'
<1>. SUFFICES ASSUME HotplugInv, [Next]_vars PROVE HotplugInv'
  OBVIOUS
<1>1. CASE UNCHANGED vars
  <2>1. UNCHANGED <<card, inserted, others, hasty, lost, heard, uevents, pc, p1_removed, mounts, sd_status>>
    BY <1>1 DEF vars, kernel, daemon
  <2>. QED BY <2>1 DEF HotplugInv, TypeOK, DaemonInv, HeardInv, PatientInv, Queued, OfCard, Arrival,
                       ArrivalQueued, RemovalQueued, OnTop, Ready
<1>. QED BY <1>1, InsertInv, RemovePartitionInv, RemoveDiskInv, OtherDeviceInv, StartUpInv,
            HandleEventInv DEF Next

\* The daemon starts before any event, with a card in the slot or none.
LEMMA HotplugInit == Init => HotplugInv
<1>. SUFFICES ASSUME Init PROVE HotplugInv
  OBVIOUS
<1>1. TypeOK
  <2>0. /\ hasty \in BOOLEAN /\ lost \in BOOLEAN /\ heard \in BOOLEAN /\ p1_removed \in BOOLEAN
        /\ uevents \in Seq(Event) /\ mounts \in Seq(Nat)
    BY EmptySeq, Zenon DEF Init
  <2>1. CASE card = NoCard
    <3>1. card.leaving = FALSE /\ card.id = 0
      BY <2>1 DEF NoCard
    <3>. QED BY <2>0, <2>1, <3>1 DEF Init, TypeOK
  <2>2. CASE card \in [id : {1}, parted : BOOLEAN, leaving : {FALSE}]
    <3>1. card \in [id : Nat \ {0}, parted : BOOLEAN, leaving : BOOLEAN]
      <4>1. {1} \subseteq Nat \ {0} /\ {FALSE} \subseteq BOOLEAN
        OBVIOUS
      <4>. QED BY <2>2, <4>1
    <3>2. card.leaving = FALSE /\ card.id = 1
      BY <2>2
    <3>. QED BY <2>0, <3>1, <3>2 DEF Init, TypeOK
  <2>. QED BY <2>1, <2>2 DEF Init
<1>2. DaemonInv
  BY DEF Init, DaemonInv
<1>3. ~Queued("add") /\ ~Queued("remove")
  <2>1. uevents = <<>> /\ Len(<<>>) = 0
    BY DEF Init
  <2>. QED BY <2>1 DEF Queued
<1>4. HeardInv
  BY <1>3 DEF Init, HeardInv
<1>5. PatientInv
  BY <1>3 DEF Init, PatientInv
<1>. QED BY <1>1, <1>2, <1>4, <1>5 DEF HotplugInv

\* An empty queue holds nothing.
LEMMA SettledQueue ==
  ASSUME Settled
  PROVE  /\ pc = "loop" /\ ~Queued("add") /\ ~Queued("remove") /\ ~ArrivalQueued /\ ~RemovalQueued
         /\ ~\E k \in 1..Len(uevents) : Arrival(uevents[k])
<1>1. uevents = <<>> /\ Len(<<>>) = 0 /\ pc = "loop"
  BY DEF Settled
<1>. QED BY <1>1 DEF Queued, ArrivalQueued, RemovalQueued

\* Whenever the daemon has caught up, the card in the slot is on top of /mnt, however many
\* cards came and went meanwhile, if its own arrival was not lost (hotplug.c:218, 279-319).
THEOREM HotplugCardOnTop == Spec => []CardOnTop
<1>1. HotplugInv => CardOnTop
  BY SettledQueue DEF HotplugInv, HeardInv, CardOnTop, OnTop
<1>. QED BY <1>1, HotplugInit, HotplugStep, PTL DEF Spec

\* Whenever the daemon has caught up, the last it told the application is whether a card is
\* there, unless the event that counts was lost (hotplug.c:146, 196).
THEOREM HotplugSettledStatus == Spec => []SettledStatus
<1>1. HotplugInv => SettledStatus
  BY SettledQueue DEF HotplugInv, TypeOK, HeardInv, SettledStatus
<1>. QED BY <1>1, HotplugInit, HotplugStep, PTL DEF Spec

\* For a user who waits for the daemon, and with no event lost, /mnt holds exactly the card
\* in the slot whenever the daemon has caught up (hotplug.c:167, 271, 313-317).
THEOREM HotplugNoStaleMount == Spec => []NoStaleMount
<1>1. HotplugInv => NoStaleMount
  BY SettledQueue DEF HotplugInv, PatientInv, NoStaleMount
<1>. QED BY <1>1, HotplugInit, HotplugStep, PTL DEF Spec
=============================================================================
