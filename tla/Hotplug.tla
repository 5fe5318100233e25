------------------------------- MODULE Hotplug -------------------------------
(***************************************************************************)
(* The SD card daemon (hotplug/hotplug.c): it mounts on /mnt what is there *)
(* when it starts, and then follows the kernel's uevents, which queue up   *)
(* in its netlink socket from the moment the socket is bound.  The events  *)
(* it handles may be old: the card they tell of may be gone, or another    *)
(* one may be in its place.                                                *)
(*                                                                         *)
(* A card has a partition, whose file system is on mmcblk0p1, or none, and *)
(* then it is on mmcblk0.  The kernel makes the nodes before it announces  *)
(* the disk and then the partition, and removes the partition before the   *)
(* disk.  The socket buffer holds Room events; what comes when it is full  *)
(* is lost, and recv's error for it is an empty event, which is ignored.   *)
(***************************************************************************)
EXTENDS Naturals, Sequences

CONSTANTS MaxCards,   \* cards inserted in a behaviour
          MaxOther,   \* events of other devices in a behaviour
          Room        \* events the socket buffer holds

ASSUME BoundAssumption == MaxCards \in Nat /\ MaxOther \in Nat /\ Room \in Nat

VARIABLES card,       \* the card in the slot, id 0 for none; leaving: its partition is gone
          inserted,   \* cards inserted so far
          others,     \* events of other devices so far
          hasty,      \* a card was touched while events of the card were waiting
          lost,       \* an event of the card was lost
          heard,      \* the last event of the card that matters was not
          uevents,    \* events queued in the netlink socket
          pc,         \* "starting": the socket is bound; "loop"
          p1_removed,
          mounts,     \* the cards mounted on /mnt, the last on top
          sd_status   \* what the daemon wrote to /tmp/sd_status last: 0, 1, 2 (nothing)

kernel == <<card, inserted, others, hasty, lost, heard>>
daemon == <<pc, p1_removed, mounts, sd_status>>
vars == <<kernel, uevents, daemon>>

NoCard == [id |-> 0, parted |-> FALSE, leaving |-> FALSE]
P1 == "mmcblk0p1"
K0 == "mmcblk0"
Event == [action : {"add", "remove"}, dev : {P1, K0, "other"}]

Init ==
  /\ card \in {NoCard} \cup [id : {1}, parted : BOOLEAN, leaving : {FALSE}]
  /\ inserted = card.id /\ others = 0 /\ hasty = FALSE
  /\ lost = FALSE /\ heard = TRUE
  /\ uevents = <<>>
  /\ pc = "starting"
  /\ p1_removed = FALSE
  /\ mounts = <<>>
  /\ sd_status = 2

-----------------------------------------------------------------------------
(* The kernel and the user.                                                *)

Fits(es) == Len(uevents) + Len(es) <= Room
Post(es) ==
  uevents' = uevents \o (IF Fits(es) THEN es ELSE SubSeq(es, 1, Room - Len(uevents)))

\* es are the events of the card; the last one decides what the daemon ends up with
PostCard(es) == Post(es) /\ lost' = (lost \/ ~Fits(es))

CaughtUp == \A k \in 1..Len(uevents) : uevents[k].dev = "other"

Insert(parted) ==
  /\ card = NoCard /\ inserted < MaxCards
  /\ card' = [id |-> inserted + 1, parted |-> parted, leaving |-> FALSE]
  /\ inserted' = inserted + 1
  /\ LET es == [k \in 1..(IF parted THEN 2 ELSE 1) |->
                  [action |-> "add", dev |-> IF k = 1 THEN K0 ELSE P1]]
     IN PostCard(es) /\ heard' = Fits(es)
  /\ hasty' = (hasty \/ ~CaughtUp)
  /\ UNCHANGED <<others, daemon>>

RemovePartition ==
  /\ card.parted /\ ~card.leaving
  /\ card' = [card EXCEPT !.leaving = TRUE]
  /\ hasty' = (hasty \/ ~CaughtUp)
  /\ LET es == <<[action |-> "remove", dev |-> P1]>> IN PostCard(es) /\ heard' = Fits(es)
  /\ UNCHANGED <<inserted, others, daemon>>

RemoveDisk ==
  /\ card # NoCard /\ (card.parted => card.leaving)
  /\ card' = NoCard
  /\ hasty' = (hasty \/ (~card.parted /\ ~CaughtUp))
  /\ LET es == <<[action |-> "remove", dev |-> K0]>>
     IN PostCard(es) /\ heard' = ((card.parted /\ heard) \/ Fits(es))
  /\ UNCHANGED <<inserted, others, daemon>>

OtherDevice(action) ==
  /\ others < MaxOther
  /\ others' = others + 1
  /\ Post(<<[action |-> action, dev |-> "other"]>>)
  /\ UNCHANGED <<card, inserted, hasty, lost, heard, daemon>>

\* access(): the device node is there
Node(dev) == card.id # 0 /\ (dev = P1 => card.parted /\ ~card.leaving)

\* mount: fails without a node or a file system, or when the same one is on top already
AfterMount(dev) ==
  IF /\ Node(dev) /\ (dev = K0 => ~card.parted)
     /\ mounts = <<>> \/ mounts[Len(mounts)] # card.id
  THEN Append(mounts, card.id) ELSE mounts

\* umount /mnt -l: detaches what is on top
AfterUmount == IF mounts = <<>> THEN <<>> ELSE SubSeq(mounts, 1, Len(mounts) - 1)

-----------------------------------------------------------------------------
(* The daemon.                                                             *)

\* The application is told that a card is ready whether or not mount succeeded
daemon_mount_sd(dev, system_start_flag) ==
  \/ dev = K0 /\ Node(P1) /\ UNCHANGED <<mounts, sd_status>>
  \/ /\ ~(dev = K0 /\ Node(P1))
     /\ mounts' = AfterMount(dev)
     /\ sd_status' = IF system_start_flag = 0 THEN 1 ELSE sd_status

\* Mutant of daemon_umount_sd: the application is not told
daemon_umount_silent == mounts' = AfterUmount /\ UNCHANGED sd_status

daemon_umount_sd == sd_status' = 0 /\ mounts' = AfterUmount

\* daemon_pth_func from the sleep to its loop
StartUp ==
  /\ pc = "starting"
  /\ pc' = "loop"
  /\ \/ Node(P1) /\ daemon_mount_sd(P1, 1)
     \/ ~Node(P1) /\ Node(K0) /\ daemon_mount_sd(K0, 1)
     \/ ~Node(K0) /\ UNCHANGED <<mounts, sd_status>>
  /\ UNCHANGED <<kernel, uevents, p1_removed>>

\* Mutant of OnAdd: p1_removed is not reset
OnAddKeepsFlag(dev) ==
  /\ \/ dev \in {P1, K0} /\ daemon_mount_sd(dev, 0)
     \/ dev = "other" /\ UNCHANGED <<mounts, sd_status>>
  /\ UNCHANGED p1_removed

\* Mutant of OnAdd: cards without a partition are not mounted
OnAddP1Only(dev) ==
  /\ \/ dev = P1 /\ daemon_mount_sd(dev, 0)
     \/ dev # P1 /\ UNCHANGED <<mounts, sd_status>>
  /\ p1_removed' = FALSE

OnAdd(dev) ==
  /\ \/ dev \in {P1, K0} /\ daemon_mount_sd(dev, 0)
     \/ dev = "other" /\ UNCHANGED <<mounts, sd_status>>
  /\ p1_removed' = FALSE                 \* for every device that is added

OnRemove(dev) ==
  \/ dev = P1 /\ daemon_umount_sd /\ p1_removed' = TRUE
  \/ dev = K0 /\ ~p1_removed /\ daemon_umount_sd /\ UNCHANGED p1_removed
  \/ (dev = "other" \/ (dev = K0 /\ p1_removed)) /\ UNCHANGED <<mounts, sd_status, p1_removed>>

\* One round of the loop
HandleEvent ==
  /\ pc = "loop" /\ uevents # <<>>
  /\ uevents' = Tail(uevents)
  /\ \/ Head(uevents).action = "add" /\ OnAdd(Head(uevents).dev)
     \/ Head(uevents).action = "remove" /\ OnRemove(Head(uevents).dev)
  /\ UNCHANGED <<kernel, pc>>

Next ==
  \/ \E parted \in BOOLEAN : Insert(parted)
  \/ RemovePartition \/ RemoveDisk
  \/ \E action \in {"add", "remove"} : OtherDevice(action)
  \/ StartUp \/ HandleEvent

Spec == Init /\ [][Next]_vars

\* The daemon sleeps one second, then its loop goes on while there are events
FairSpec == Spec /\ WF_vars(StartUp) /\ WF_vars(HandleEvent)

-----------------------------------------------------------------------------
Settled == pc = "loop" /\ uevents = <<>>
Ready == card.id # 0 /\ ~card.leaving

\* Whenever the daemon has caught up (hotplug.c:279-319), a card that is in the slot is
\* the one the application sees on /mnt, however many cards came and went while
\* their events were waiting in the socket, and even if events were lost there
\* (hotplug.c:218), as long as its own arrival was not.
CardOnTop == Settled /\ Ready /\ heard => mounts # <<>> /\ mounts[Len(mounts)] = card.id

\* Whenever the daemon has caught up and has told the application anything at all
\* (hotplug.c:146, 196), the last it told is whether a card is there, unless the event
\* that should have changed it was lost: one event that arrives makes up for lost ones.
SettledStatus == Settled /\ sd_status # 2 /\ heard => (sd_status = 1 <=> Ready)

\* For a user who waits for the daemon before touching a card, and with no event lost,
\* /mnt holds exactly the card in the slot whenever the daemon has caught up: the
\* skip of mmcblk0, the startup scan and its replay by the events that were queued
\* meanwhile, and p1_removed (hotplug.c:167, 271, 313-317) neither leave a mount
\* behind nor remove one too many.
NoStaleMount == Settled /\ ~hasty /\ ~lost => mounts = (IF Ready THEN <<card.id>> ELSE <<>>)

\* A card that stays in the slot is on /mnt in the end, and for good, if the event of its
\* arrival was not lost.
EventuallyMounted == <>[](Ready /\ heard => mounts # <<>> /\ mounts[Len(mounts)] = card.id)
=============================================================================
