# A TLA+ verification of linuxtestcode

linuxtestcode is a collection of embedded Linux programs: a UDP and a TCP file
transfer between a camera board and its host, daemons and drivers of that board (SD
card hotplug, LEDs, GPIO, serial ports, GPS, upload lists), and samples of system
calls. This project models the programs that keep state and meet concurrency or
failure. TLC checks small instances of every module. TLAPS proves, for all values of the
constants, every safety property that the passing runs check, among them the refinement of the UDP
receiver's abstract specification. The liveness properties are model-checked.

## Inventory

| part | state | operations | hard behaviours | correctness |
|---|---|---|---|---|
| UDP receiver `filesend/udpfilesend/udp-server.c` | globals `Filemsg`, `fd`, two path buffers; the files on /mnt | request, block, finish | senders mixed, descriptors leaked, restarts, short writes, a failing `mv` | globals agree; published files are the announced ones |
| UDP sender `udp-client.c` | position in `sendfile`, `recvbuf` | announce, send, finish; 1 s timeout | lost, late, stale answers | ends; "ok" is true |
| TCP transfer `filesend/tcpfilesend` | connection, byte count, .filepart | announce, stream, check | no timeouts, failing open, short writes, failing `mv`, SIGPIPE | no stall, whole files |
| hotplug daemon `hotplug/hotplug.c` | mounts, `p1_removed`, last notification | startup scan, add, remove | events older than the slot | right card on /mnt |
| echo server `socket/tcp_server.c` | `nfp`, threads, descriptors | accept, read, echo, close | `&nfp` race, descriptor reuse, SIGPIPE | one thread per client |
| word counter `sem/sem.c` | `buf`, `sem`, `flag` | scan, post, count, clear | unlocked `buf`, end of the input | counts match, end ends |
| upload list `filelist/filelist_data.cpp` | vector with flags, file | add, hand out, clear, rewrite | crash or failing write in a rewrite, duplicates | file is list |
| LED driver `ingenic_drv/led/led_drv.c` | three states, counters, timer | tick, write, init, exit | uninitialised result, pins refused, exit against timer | bursts end, other drivers' pins left alone |
| watching list `filelist/filelist_inotify.cpp` | vector with flags, event queue | scan, events, hand out, clear | files between scan and watch, full queue, no lock | every finished file listed, each handed out once |
| GPS `gps/gps.cpp` | `is_positioning_`, line buffer | receive thread, timed wait | unlocked test, unlocked signal, silences in a sentence | the wait answers rightly |
| serial echo `uart/serial.c`, `RS485/serial.cpp` | port settings, buffer | open, set, read, write back | bytes before the settings, short writes | every byte echoed once |
| sysfs GPIO `sys_gpio/*`, `RS485/gpio_class.cpp` | exported pins, direction, value | export, set, get | programs that share pins, denied opens, `fclose(NULL)` | supply on, key low in the end |
| modem driver `ingenic_drv/gpio-quectel.c` | requested pins, supplies | probe, remove, suspend, resume, init, exit | probe half done, pins never freed | key pressed at most once |
| traffic meter `netspeed/netspeed.c` | two samples, static counters | search of /proc/net/dev, two ioctls | counters that wrap, rows cut off, interfaces that restart, failing reads | exact differences, in the declared direction |
| timers `time/time.c` | timevals | start, cut down, assign, spend, remain | negative values, clock set back, int range | exact to a millisecond |
| MD5 `md5/md5.c` | count, buffer | init, update, final | pieces across blocks, carry of the count | digests the padded message |
| CRC `crc/crc_ccitt.c` | none | one pure function | | |

The UDP sender and receiver interact by datagrams only, the TCP pair by a stream, the
hotplug daemon with the kernel by queued events, the threads of the other programs by
unlocked variables. The programs do not call each other.

`PROJECT.json` lists every part with its status, the hazards with the line where they
bite, the runs, the mutants, and the source lines behind every definition.

## Plan

1. UDP transfer: `NetFile`, `UdpServer`, abstract `UploadStore`, `UdpClient`,
   composition `UdpFileTransfer`; proofs in `UdpServerProofs`. Done.
2. `TcpFileTransfer`, `Hotplug` (with lost events), `TcpEcho`, `SemCounter`, `FilelistData`,
   `LedDriver`. Done.
3. `FilelistWatch`, `Gps`, `SerialPort`, `SysGpio`, `IoPower`, `Netspeed`, `Timers`, `Md5Stream`.
   They do not interact with each other, nor with the small programs of step 2, and share a run with
   those. Done.
4. Proofs, in eight modules: `UdpServerProofs`, `UdpFileTransferProofs` (which extends it),
   `TcpFileTransferProofs`, `HotplugProofs`, `TcpEchoProofs`, `ThreadsProofs` (`SemCounter`, `SerialPort`,
   `Gps`), `GpioProofs` (`LedDriver`, `IoPower`, `SysGpio`) and `LibraryProofs` (`FilelistData`,
   `FilelistWatch`, `Netspeed`, `Timers`, `Md5Stream`). Done.

## Modules

**NetFile** is `net_file.h`. A block of file data is a value, the contents of a file the
sequence of its blocks, and a digest is the contents it was computed from: MD5 is taken
to be collision free. `ZeroMd5` is what `MD5_file` leaves when it cannot open the file.

**UdpServer** has one action per handler: `cmd_reqsend_deel` (append to the paths, make
the directory, open without `O_TRUNC` and without closing the old descriptor, answer),
`cmd_revfile` (write, or give up on an error) and `cmd_revfilefinsh` (digest and answer; the `mv` that
comes after the answer is `Move`, which may fail unnoticed, and `utime` with the clearing of the
paths is `SetTime`). A path buffer is the sequence of names appended to it;
with more than one it names no file. Files are inodes, so that `fd` follows a file through
`mv`. Descriptors are counted. `Restart` loads the globals anew; it may come between the answer, the
`mv` and the `utime` too.

**UploadStore** is the abstract specification: an announced file appears at once with the
announced contents, or not at all, and what is published under its name then gets the announced time in a
second step, which a crash may prevent. It also allows what the code does beyond
that: the file may fail to appear and the time go to the one published before, an announcement with the
zero digest is not checked, and a block that arrives
between uploads may change a published file. `UdpServer` implements it under the mapping
announced = `Filemsg`, store = the published inodes, and a phase that is idle while `file_path` is empty,
closing between `mv` and `utime`, and uploading otherwise.

**UdpClient** is `sendfile` cut at its three `udprev` calls. `acks` is a history variable
that counts the answers to blocks. **UdpFileTransfer** composes the two with channels and
a budget of faults of the kinds in `Faults`; starting a sender while another one runs counts
as one (`overlap`), and so does a `mv` that fails although there is a file to move. A restart drops the
datagrams that wait in the socket, any number from the front; the ones still in the network reach the new
process. `happened` records the kinds of fault so far.

**TcpFileTransfer** is both ends of the TCP transfer. A connection is open, closed by the
sender (fin), reset, or broken (the reset was reported; the next `send` raises SIGPIPE).
The byte count is an integer to which a failed write adds -1 and which is compared as
unsigned. An `open` of the .filepart that fails is only reported, and every `write` then returns -1; a `mv`
that fails is answered ok like one that succeeds (`unmoved` records whose). `MD5_file` is taken to be able
to read a .filepart that is there, and data that is left in the stream not to look like a command (`SkipData`). The two handlers
this sender never triggers are left out.

**Hotplug**: the kernel inserts and removes cards and queues events; the daemon scans at
startup and then handles an event per step. `mounts` is the stack of what was mounted on
/mnt. `hasty` records that a card was touched before the daemon had handled its events. The socket
holds `Room` events and loses those that come when it is full; `heard` says that the last event
that matters for the card in the slot was not lost.

**TcpEcho**: `Accept` is a round of main's loop, and a thread goes through `ReadFd`,
`LoopTop`, `ReadData`, `Echo`, `ReadEnds` and `CloseFd`. `late` records that main accepted again
before a new thread had read `nfp`: the second that main sleeps was too short.

**SemCounter** stores a word character by character, since nothing keeps the child from
measuring and clearing `buf` meanwhile. At the end of the input `scanf` returns -1, which the loop takes for
success: `EndOfInput` compares what is in `buf` and goes on posting for ever (the model stops at
`MaxCounts` counts). `hasty` records a word typed before the last count.

**FilelistData**: `write_to_File` truncates, `Flush` writes a stdio buffer, `FlushFails` is a write that
fails, which the code does not notice (it is taken to fail between two records), and `Restart` may
come at any point; an `fopen` that fails ends the program (`fwrite` gets NULL), which is `Restart` as well.
**LedDriver**: `timer_function` is `LED_CORL`, `mod_timer` the re-arming;
`led_drv_exit` frees the pins one by one and then deletes the timer, since the interrupt may come between. `OneCpu`
keeps a callback from overlapping other steps. Other drivers request and free the pins in `Contended`; `led_drv_init` does
not notice a request that is refused (`refused`), and `disturbed` records the pins of others that the last tick or
`gpio_free` touched.

**FilelistWatch**: the constructor's scan, the watching thread (`file_monitor_thread` adds the
watch, `watch_inotify_events` handles an event), and an uploader that takes files, clears and deletes
those it has sent, and leaves the entries of others (`GiveUp`). `get_filepath` is cut at each of its unlocked accesses to the vector:
the size (`GetSize`), the flag (`GetFlag`), the mark (`GetMark`) and the path (`GetPath`). A `push_back` or
an `erase` is one step: what two of them at the same moment do to a vector is undefined and not modelled. A directory that
is created is listed like a file, so `Create` stands for both. A name with
`part` ends in .filepart; the scan lists it, the events do not. `out` is history: the entry was handed out. The source does
not compile against `filelist.h` as it stands, which lacks the members for the watch; its function
bodies are complete, and they are what is modelled.

**Gps**: sentences are symbols. `ReadNothing` is `read` returning 0 after three seconds, with `ch` still the
last character. `WaitPositioningComplete` is `TestFlag`, `LockAndWait` and one of `Woken` and
`TimedOut`; `Signal` reaches only a caller that already waits. `sky` and `call` are history: what the
sentences said, and what happened during the call.

**SerialPort** stands for both programs, which differ in the speeds they know. The peer uses the
parameters the program asks for; a byte that meets other settings is noise. **SysGpio** runs programs
that are sequences of calls, each cut between opening the pin's file and the write or read: an
export has a number, so that a file opened before an unexport is of no use after it. Any open may fail, those of
export and unexport too; `denied` records the programs that could not open a file that was there.
**IoPower** takes `iopower_probe` apart call by call; another user may hold a pin, and any
`gpio_direction_output` may fail. That the driver core refuses a second device of the same name, and that a
pin is requested once at a time, is taken from the kernel.

**Netspeed**: rows of /proc/net/dev are 17 tokens, of which `shown` fit the 2047 bytes; a name is a
sequence of parts, so that `strstr` may find it inside another one. Opening or reading the text may fail, and so may
`getifaddrs`. The kernel's order of the counters in `ifa_data` (received before sent) is taken from its
interface; `struct if_data` names them the other way round. **Timers**: two timers and a clock that
moves either way, with C's division and the range of an int. **Md5Stream**: the digest is the
sequence of bytes that `MD5Transform` was fed with, the counts are kept modulo `Word`.

Modules whose name begins with MC give the constants values. `MCPrograms` holds
the eleven components that do not interact: the initial state picks which one runs
(`running`), and the others rest in one state, so that the run explores the sum of the components
and not their product. Definitions whose comment
begins with "Mutant of" are the faulty variants that `PROJECT.json` pairs with the properties
they must break; no specification uses them.

## Runs

| run | checks | shows |
|---|---|---|
| udp_server | SrvTypeOK, UploadTarget, LeftoverStays, ExhaustedForever, StoreSpec | the receiver against any datagrams |
| udp_faults | OkMeansStored, PublishedIntact, WedgedForever, LongLeftoverBlocks | both ends, any three faults of nine kinds, an absent file |
| udp_ends | SenderEnds, AllOk | senders end; without faults all say ok and are published |
| udp_resend | UnansweredIsResent, violated | a stale answer hides a lost block |
| tcp | OkMeansStored, PublishedWhole, StallHasCause, DeathNeedsKill, SenderEnds | kills, failing opens, writes and moves, an absent file |
| tcp_empty | EmptyFileEnds, violated | an empty file stalls both ends |
| hotplug | CardOnTop, SettledStatus, NoStaleMount, EventuallyMounted | cards faster than the daemon, lost events, and users who wait |
| echo | PromptThreads, EchoOnce, DeathNeedsHaste, Served | descriptors reused and used up, prompt and late threads |
| echo_race | ThreadPerClient, violated | late threads cross clients |
| programs | CountsMatch, EndRecognised, WaitIsRight, FlagFollows, EchoFaithful | word counter, GPS reader, serial echo |
| | DisturbedHasCause, BurstEnds, ModemPowered, GpioSettled | LED driver, modem driver, programs that share pins |
| | FileIsList, HandedFirst, SettledList, HandOutSound, TimersExact, DigestsMessage, MeterExact | both upload lists, timers, MD5, traffic meter |
| sem_end | OnlyEndEnds, violated | a word that begins with "end" quits as well |
| net_directions | DirectionsAsDeclared, violated | what the meter calls sent was received |

Several properties hold only where something did not happen, which a history variable
records (`happened`, `hasty`, `late`, `diskLeft`, `unmoved`, `heard`, `call`, `sky`, `refused`, `denied`, `short`, `watchHist`, `netHist`, `serHist`). The conditions are needed: TLC finds a
counterexample when one is dropped, except for `DeathNeedsHaste`, where three clients are too
few to show that a late thread can make the process die of someone else's echo. `PublishedIntact` fails when datagrams are duplicated or
reordered, or senders overlap (a late block changes a published file; `StrayBlock` in
`UploadStore`); `OkMeansStored` when the receiver restarts between the answer and the `mv`, when the `mv` fails, when
senders overlap, and when a duplicate or a straggler of an ended sender's request is accepted in the
middle of an upload (three faults are too few to show that one: a larger instance and
the proof did); `NoStaleMount` for a user who
does not wait (an old mount stays below the new one); `PromptThreads` without `~late` is
echo_race; `CountsMatch` and `EndRecognised` for a user who types ahead (the child's `memset`
comes between `scanf` and `strncmp`, and "end" is lost). `DisturbedHasCause` fails on two processors, `HandOutSound` when an
event erases an entry under `get_filepath`, and
`SettledList` for an uploader that deletes a file before it clears it (`ClearFirst` FALSE).
Since "flag==1" (sem.c:48) assigns nothing, the child may also count the word "end".

### Bounds

Two names and two blocks (and in udp_faults a third name, without a file) suffice for files of
different length, one a prefix of the other, and for a leftover longer than the next file; two inodes (udp_server) for one upload beside
one published file, five in the composition so that open fails only for the reasons of the
code. `FdLimit` 3 makes descriptors run out in udp_server and 9 keeps that out of the
composition. `PathRoom` bounds the names appended to a path buffer, past which the C program
overruns it: two in udp_server (one path, and a wedged one) and six in the composition,
more than the requests of a behaviour. Fault budgets are two or three: enough for a fault, a
consequence and a second fault during recovery. Four TCP senders fill one connection and a
backlog of three. Hotplug has four cards and three foreign events. TcpEcho has three connections
for two descriptors, so that descriptors are reused and run out. Words shorter than, equal
to, and beginning with "end" tell the comparisons apart; `SemMax` 2 and four counts show what follows
the end of the input. FilelistData writes five entries in
three buffers. In LedDriver `COUNT` has 10 values in place of 65536: the periods 2 and 5 of the blinking occur, and
the slow blinking of the net LED (every 25 ticks), which no property is about, happens at zero only. One pin is contended, the UART
LED's: it is the first to be freed and so the longest within reach of another driver. The hotplug socket holds four events: it
fills up under a user who does not wait, and by other devices' events under one who does. FilelistWatch has two names, two arrivals after the files that the scan finds, and a queue of two events: enough for a
file that is replaced while it is sent, and for a lost event. Gps has three kinds of
sentence, two silences and two waits, which put a fix at every point of a wait. SerialPort has settings that a port
supports, that one of the programs knows, that strip a bit, and that it cannot set. SysGpio
runs a sysfs tool and two modem programs that share their pins, with and without a driver
that owns one of them. IoPower allows faults, loads, binds and suspends enough for a failed probe, a reload and a
second failure. Timers scales a second to two milliseconds of three units and an int to 16
values, so that every carry, borrow and overflow occurs; Md5Stream has blocks of four bytes with
two for the length and counts that wrap at 64 bits; Netspeed counters wrap at 8, and three events of the network fall between the samples. The Boolean parameters and bounds are named
in the modules. Processes and inodes are symmetric in udp_faults and inodes in udp_server; no run with a
liveness property uses symmetry.

### Deadlock

Behaviours of the composed systems end when every sender has ended, every word was typed, the
program has come to its end, or a named bound is reached; those runs do not check for deadlock.
udp_server does.

### Fairness

UDP: `Deliver`, since select returns for each datagram, `Finish`, since `system` and `utime` return, and each sender's `Answer` and
`NoAnswer`, since `udprev` has a timeout (`SO_RCVTIMEO`); `LateAnswer` is not fair. TCP: each side
goes on whenever its blocking call can return. Hotplug: the startup sleep ends and the loop
handles events. TcpEcho: threads are scheduled. LedDriver: an expired timer is run. Nothing is
assumed of the users, the kernel's faults, or kills.

## Proofs

`UdpServerProofs` proves, for any sets of names, blocks, inodes and datagrams and any limits
that satisfy the named assumptions of `NetFile` and `UdpServer`:

- `SrvInvariant`: `[]SrvInv`, where `SrvInv` is `SrvTypeOK`, `LinksDistinct`, `UploadTarget`,
  `FdValid` and `FinishOK` (between the answer and the `mv` the file still has the announced digest). None is inductive alone. That a handler writes to the announced file needs
  `UploadTarget`; that `mv` leaves links distinct needs `LinksDistinct` of both entries; that a write
  stays in the domain of `inode` needs `FdValid` (a file descriptor refers to an inode).
- `SrvTypeCorrect`, `SrvLinksDistinct`, `SrvUploadTarget` follow at once.
- `SrvExhausted` and `SrvLeftoverStays` are the two action properties. The second goes action by
  action over `WriteEffect`, which says what a block does to each inode.
- `SrvImplementsStore`: the refinement. A request is `Announce`, a FINISH is `GiveUp` or nothing, the `mv` after it is `Commit`, `CommitBlind` or
  `CommitFails`, `utime` is `SetTime`, a write is hidden (the inode is no published one) or a `StrayBlock`, a restart is
  `Forget`. `WriteHiddenOrStray` is where `UploadTarget` and `LinksDistinct` are needed: during an
  upload `fd` refers to a .filepart, which is no published inode.

`UdpFileTransferProofs` puts the senders and the network around it, for any number of senders,
files and faults; a file on a sender has one contents (`LocalAssumption`):

- `TransferInvariant`: `TransferInv` is the receiver's invariant, the types, and that what is on
  its way was sent by a process that was started, with its own file. It holds whatever goes wrong.
- `TransferImplementsServer`: every step of the composition is a step of `UdpServer` or leaves it
  alone, so that all theorems about the receiver hold in it.
- `TransferLongLeftoverBlocks` and `TransferWedgedForever`, the action properties, follow from `TransferInv`.
- `TransferOrderly`: `PublishedIntact` says nothing about a queue, so it is not inductive. `OrderInv` says,
  for a network that keeps the order with one sender at a time, which datagrams can be on their way in
  each phase of `sendfile`, that those behind a request are of the upload that the receiver is
  at (or that a restart made it forget), and that an open file is the one of that upload while
  blocks are to come. `TransferPublishedIntact` follows.
- `TransferOkMeansStored` adds `StoredInv`: a positive answer on its way is true, or will be when the `mv` that is next has run. The attempt to prove an
  earlier form of `OkMeansStored`, which allowed duplicates and reordering, failed for a good reason: an
  ended sender's request that is accepted in the middle of another upload makes a later answer belong to
  the wrong file. TLC confirmed it on a larger instance, and the property now excludes them; the condition about
  absent files that it had instead turned out not to be needed. In the same way the proof of
  `SrvLeftoverStays` showed that the property could be stronger: a .filepart leaves only by being
  published under its own name.

`TcpFileTransferProofs`, for any senders, files, sizes of blocks, reads and socket buffers; the announcement
is no block of file data (`BlockAssumption`), which the two message types keep apart:

- `TcpTypeCorrect`: needs `StreamInv`, that the stream holds either the announcement or data, and that
  the receiver's offset is within a .filepart it has opened, or its `open` failed.
- `TcpPublishedWhole` and `TcpOkMeansStored`: the latter from `HonestInv`, an answer on its way is true, or the `mv` failed.
- `TcpStallHasCause`: `LenInv`, while no open or write failed `len` is what was sent less what is in the stream.
- `TcpDeathNeedsKill`: `NoKillInv`, while nobody was killed a connection is closed only by a sender
  that has read its last answer, and each connection waits in the backlog or is served, once.

`HotplugProofs`, for any number of cards, other events and size of the socket: `HotplugCardOnTop`,
`HotplugSettledStatus` and `HotplugNoStaleMount` speak of an empty queue; `HeardInv` says what the
queue will make of /mnt and of the last notification when it is not empty (the last event that counts is
queued, or its effect is there and no contrary event is queued), and `PatientInv` that for a
user who waits the queue holds the events of one change only.

`TcpEchoProofs`, for any clients and limits: `EchoTypeCorrect`, also with late threads; `EchoPromptThreads`,
`EchoDeathNeedsHaste` and `EchoWithinSent` from `PromptInv`: as long as no thread was late, descriptors are
distinct, `nfp` holds the descriptor of the thread that has not read it, and bytes are sent, read, echoed
and taken in that order. `EchoEchoOnce` holds with late threads too, where one client's bytes may go to
another, so only sums over the clients (a finite set, `FiniteClients`) can be compared. The community
module's `MapThenSumSet` is a recursive function on sets; `SumExists` shows, by the least number of clients that
would contradict it, that there is a function with that recursion, `TakenIsSum` that the sums of the
property are its values, and `TakenChange` that a change at one client changes a sum by as much.

`ThreadsProofs`: `SemCountsMatch` and `SemEndRecognised`, for any words that fit `buf` with their NUL
(`BufAssumption`), from `SemInvariant`, which says for a user who waits where main and the child are and what
`buf` holds while `scanf` stores a word, and what it holds after the end of the input; that `strlen` finds the length uses that a set of naturals
has a least element. `SerialEchoFaithful`, for any settings and sizes of the buffer (`SerAssumption`): the
invariant adds that the driver's queue stays empty from the flush until the settings are applied, unless
a byte came early, and that nothing is in `nbuf` while the program waits.

The GPS reader, also in `ThreadsProofs`, for any sentences that are $GNRMC with a status in its third field
or something else (`SentenceAssumption`), and any pauses and calls:

- `GpsInvariant`: `GpsInv` relates the line that the thread has read to the sentence on its way. A pause stores
  the last character again, so the line is not a prefix of the sentence: there is a function from the places of
  the line to those of the sentence that never falls and misses none of those read, and without a
  pause the line is what was read of the sentence. That `StringToArray` finds the status in a line without a pause, and in one with a pause
  finds it or nothing that counts, is a lemma on where the line is cut at its commas (`CutStep`), by
  the least line that would contradict it. The other half of the invariant is about the lost wake-up:
  a caller who waits has missed a fix only between the test and the wait, or the signal is still to come.
- `GpsFlagFollows` and `GpsWaitIsRight` follow. The proof showed that the two guards of a CASE in `Ended`, which
  keeps the history of what the flag may be, overlapped, so that TLA+ left the value open where TLC took
  the first; it is an IF now.

`LibraryProofs`. The persistent list, for any paths and any size of stdio's buffer:

- `ListInvariant`: types, `FileIsList` and `HandedFirst` together. A flush moves a prefix from
  what is to be written to the file (`FlushLemma`), a write that fails leaves both alone, handing out leaves the names alone and
  extends the handed-out prefix by one (`HandOutLemma`), erasing keeps the order (`EraseLemma`), and a
  restart reads entries of which none is handed out (`ReadLemma`).
- `ListFileIsList` and `ListHandedFirst` follow.

The list that watches its directory, for any names (at least one), arrivals and length of the queue:

- `WatchInvariant`: `HandInv` says that, unless an event erased an entry at or before the index of `get_filepath`
  between two of its accesses, marks and history agree on every entry but the one just marked, the index is within the
  list, and the entry there is unmarked before the mark and not yet handed out after it. An erase behind the
  index, by an event or by the uploader's own clearing, keeps all this. `WatchHandOutSound` follows, whichever way
  round the uploader clears and deletes, and with entries that it gives up on.
- `WatchSettledList`, for an uploader that clears first: `ListedInv` says of a finished file that was not missed
  that the last event about it in the queue tells of its arrival, or that no event tells of its
  deletion and it is listed or just cleared. It needs that a scan lists every file, that is, that an enumeration
  of a finite set without repetition is complete (`ScanSeq`), and that erasing spares other files' entries.

The traffic meter, for any interfaces of which one is the device, amounts, rows cut off and range of
the counters (`NetAssumption`): `NetInvariant` says that from the first sample on the device's counters are that
sample and what has passed since, modulo their range, unless the driver was reloaded or a sample failed; with
`ModDifference`, that a difference modulo the range is the amount, `NetMeterExact` follows.

The timers, for any units and width of int (`TimersAssumption`): `TimersInvariant` says that a timer's two
fields stand for the time it was set to, and when `tv_usec` may be negative. `TimersTimersExact`
follows from lemmas on `timeradd`, `timersub` and C's division, which rounds towards zero.

MD5, for any pieces and any word that holds whole blocks (`Md5Assumption`, where a piece is also so short
that `i + 64` does not wrap): `Md5Invariant` says that the context is determined by the message but for the stale
end of the buffer (`UpdateLemma`: of a piece that does not fill the buffer, and of one that does,
`ShortPiece` and `LongPiece`); that the low word alone tells how full the buffer is (`IndexLemma`) and that
the carry is right (`CountLemma`) are facts about remainders. `Md5DigestsMessage` adds that `Padlen` is the
one length RFC 1321 allows (`PadlenLemma`, `ZerosLemma`).

`GpioProofs`:

- `IoInvariant`: `ModemPowered` is not inductive, since nothing in it says what a probe under way
  has done. `IoInv` adds which pins it holds and which levels it has set at each call, and that
  a driver without its first pin has never touched the key. Since no step gives a pin back, a probe that
  reaches the key is the first to do so. `IoModemPowered` follows, for any number of faults and
  cycles; `IoSpentForever` is the action property that a driver that has lost its device never gets it back.
- `LedDisturbedHasCause`, for any commands and any driver that takes pins, on one processor (`OneCpu`): `LedInv` says
  that the timer is armed exactly from init to the end of exit, which `del_timer` needs in order to find it
  pending, and that a pin is this driver's from a granted request to its `gpio_free`.
- `SysInvariant`, for any number of programs and any pins that drivers own: a pin that a program has
  initialised is exported, owned by a driver, or was destroyed by a program; a program that has fallen was denied an open or met one of the latter two; and once a modem program has set
  the supply's direction the supply is on or a modem program is about to switch it on.
  `SysGpioSettled` follows.

The proofs assume no bound that TLC uses. The library's theorems on quotients and remainders, and on folds, are
too few for these proofs; what is needed is proved from the definitions (`DivUnique`, `ModAdd`), and
induction is replaced by a least counterexample (`WellFoundedInduction` on sets of naturals), which needs no
operator as a parameter. Only model-checked is liveness (`SenderEnds` of both transfers, `AllOk`,
`EventuallyMounted`, `Served`, `BurstEnds`), since fairness and ENABLED are out of the prover's reach.

## Not modelled

Printing, speed measurement and wording; argument checks of the command lines; contents of
blocks; names longer than their buffers; MD5 collisions and `MD5Transform`; the read-only check of
the hotplug daemon, which writes and deletes a test file and prints; the TCP receiver's handlers
that its sender never triggers; the coordinates of the GPS reader, which are converted and not
stored; `open` and `close` of modem.cpp, which nothing calls; `timer_now`.

The CRC is one pure function over a table of 256 constants. `second_drv.c` is a variant of the LED
driver in the middle of a rewrite: it does not compile, so there is no program to model. `speedtest.py` is
third-party; the remaining programs are samples of one library call without state of their own.
