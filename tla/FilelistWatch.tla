---------------------------- MODULE FilelistWatch ----------------------------
(***************************************************************************)
(* The upload list that watches its directory                              *)
(* (filelist/filelist_inotify.cpp): the constructor scans the directory,   *)
(* then a thread adds an inotify watch and turns its events into entries.  *)
(* An uploader takes entries with get_filepath; it clears and deletes a    *)
(* file it has sent, and leaves the entry of one it could not send.        *)
(* Nothing locks Filevect, so each access of get_filepath is a step; one   *)
(* push_back or erase is one step.                                         *)
(***************************************************************************)
EXTENDS Naturals, Sequences, SequencesExt, FiniteSets

CONSTANTS Names,        \* names of files
          MaxArrivals,  \* files created, renamed or listed by the program in a behaviour
          QueueLimit,   \* events the kernel keeps for a watch
          ClearFirst    \* the uploader clears a file before it deletes it

ASSUME NamesAssumption == Names # {}

VARIABLES fvect,        \* Filevect: entries [flag, filepath], with out: 1 once handed out
          dir,          \* the files in the directory: [name, part]
          nested,       \* names of the files in directories below it
          monitor,      \* scan: the constructor has not run; start; watch; blind: no watch
          inq,          \* events of the watch that have not been handled
          up, upi, upf, \* the uploader: its state, the index i + 1, the file it got last
          arrivals, watchHist

watchVars == <<fvect, dir, nested, monitor, inq, up, upi, upf, arrivals, watchHist>>

File == [name : Names, part : BOOLEAN]   \* part: the name ends in .filepart
NoFile == [name |-> "", part |-> FALSE]
Whole(n) == [name |-> n, part |-> FALSE]
Part(n) == [name |-> n, part |-> TRUE]
AName == CHOOSE n \in Names : TRUE
Fresh0(f) == [flag |-> 0, filepath |-> f, out |-> 0]

\* missed: files no event told of; raced: an entry was erased under get_filepath;
\* twice: an entry was handed out twice; wild: an index past the end was used
WatchInit ==
  /\ fvect = <<>>
  /\ dir \in SUBSET {Whole(AName), Part(AName)}
  /\ nested \in {{}, {AName}}
  /\ monitor = "scan" /\ inq = <<>>
  /\ up = "idle" /\ upi = 0 /\ upf = NoFile /\ arrivals = 0
  /\ watchHist = [missed |-> {}, raced |-> FALSE, twice |-> FALSE, wild |-> FALSE]

-----------------------------------------------------------------------------
(* The directory.                                                          *)

Post(mask, f) ==
  inq' = IF monitor = "watch" /\ Len(inq) < QueueLimit
         THEN Append(inq, [mask |-> mask, file |-> f]) ELSE inq

\* f appears: the scan is still to come, an event is queued, or nothing tells of it
Appears(mask, f) ==
  /\ arrivals < MaxArrivals /\ arrivals' = arrivals + 1
  /\ Post(mask, f)
  /\ watchHist' = [watchHist EXCEPT !.missed =
                     IF monitor = "scan" \/ inq' # inq THEN @ \ {f} ELSE @ \cup {f}]
  /\ UNCHANGED <<fvect, nested, monitor, up, upi, upf>>

\* A directory that is made there is told of and listed like a file
Create(f) ==
  /\ f \notin dir
  /\ dir' = dir \cup {f}
  /\ Appears("IN_CREATE", f)

\* A receiver renames what it has finished; a file of that name is replaced
Rename(n) ==
  /\ Part(n) \in dir
  /\ dir' = (dir \ {Part(n)}) \cup {Whole(n)}
  /\ Appears("IN_MOVED_TO", Whole(n))

-----------------------------------------------------------------------------
(* The list.                                                               *)

\* Files below the directory are listed as if they were in it; .filepart is not left out
readFilevect_files == {<<f, "top">> : f \in dir} \cup {<<Whole(n), "below">> : n \in nested}

Filelist ==
  /\ monitor = "scan" /\ monitor' = "start"
  /\ \E s \in SetToSeqs(readFilevect_files) :
       fvect' = [k \in 1..Len(s) |-> Fresh0(s[k][1])]
  /\ UNCHANGED <<dir, nested, inq, up, upi, upf, arrivals, watchHist>>

\* inotify_init and inotify_add_watch; when one fails nothing is ever read
file_monitor_thread ==
  /\ monitor = "start" /\ monitor' \in {"watch", "blind"}
  /\ UNCHANGED <<fvect, dir, nested, inq, up, upi, upf, arrivals, watchHist>>

Entries(f) == {k \in 1..Len(fvect) : fvect[k].filepath = f}

\* The first entry for f goes, if there is one
Erase(f) ==
  fvect' = IF Entries(f) = {} THEN fvect
           ELSE RemoveAt(fvect, CHOOSE k \in Entries(f) : \A j \in Entries(f) : k <= j)

\* get_filepath is between two accesses, and the entry that goes is at its index or before
Undercut(f) == up \in {"flag", "mark", "read"} /\ \E k \in Entries(f) : k <= upi

\* Mutant of watch_inotify_events: files that are moved in are not added
watch_creations_only ==
  /\ inq # <<>> /\ inq' = Tail(inq)
  /\ LET f == Head(inq).file IN
       CASE Head(inq).mask = "IN_DELETE" -> Erase(f)
         [] Head(inq).mask = "IN_CREATE" /\ ~f.part -> fvect' = Append(fvect, Fresh0(f))
         [] OTHER -> UNCHANGED fvect
  /\ watchHist' = [watchHist EXCEPT !.raced = @ \/ (Head(inq).mask = "IN_DELETE" /\ Undercut(Head(inq).file))]
  /\ UNCHANGED <<dir, nested, monitor, up, upi, upf, arrivals>>

\* One event of those read
watch_inotify_events ==
  /\ inq # <<>> /\ inq' = Tail(inq)
  /\ LET f == Head(inq).file IN
       CASE Head(inq).mask = "IN_DELETE" -> Erase(f)
         [] Head(inq).mask # "IN_DELETE" /\ ~f.part -> fvect' = Append(fvect, Fresh0(f))
         [] OTHER -> UNCHANGED fvect
  /\ watchHist' = [watchHist EXCEPT !.raced = @ \/ (Head(inq).mask = "IN_DELETE" /\ Undercut(Head(inq).file))]
  /\ UNCHANGED <<dir, nested, monitor, up, upi, upf, arrivals>>

-----------------------------------------------------------------------------
(* The uploader.                                                           *)

\* The program lists a finished file itself
set_filepath(f) ==
  /\ monitor # "scan" /\ up = "idle" /\ arrivals < MaxArrivals
  /\ arrivals' = arrivals + 1
  /\ fvect' = Append(fvect, Fresh0(f))
  /\ UNCHANGED <<dir, nested, monitor, inq, up, upi, upf, watchHist>>

get_filepath ==
  /\ monitor # "scan" /\ up = "idle"
  /\ up' = "size" /\ upi' = 1
  /\ UNCHANGED <<fvect, dir, nested, monitor, inq, upf, arrivals, watchHist>>

\* i < Filevect.size()
GetSize ==
  /\ up = "size"
  /\ \/ upi <= Len(fvect) /\ up' = "flag" /\ UNCHANGED upi
     \/ upi > Len(fvect) /\ up' = "idle" /\ upi' = 0
  /\ UNCHANGED <<fvect, dir, nested, monitor, inq, upf, arrivals, watchHist>>

\* Filevect[i] after erases that left the list shorter: what follows is undefined
Wild ==
  /\ up \in {"flag", "mark", "read"} /\ upi > Len(fvect)
  /\ up' = "lost"
  /\ watchHist' = [watchHist EXCEPT !.wild = TRUE]
  /\ UNCHANGED <<fvect, dir, nested, monitor, inq, upi, upf, arrivals>>

GetFlag ==
  /\ up = "flag" /\ upi <= Len(fvect)
  /\ \/ fvect[upi].flag = 0 /\ up' = "mark" /\ UNCHANGED upi
     \/ fvect[upi].flag = 1 /\ up' = "size" /\ upi' = upi + 1
  /\ UNCHANGED <<fvect, dir, nested, monitor, inq, upf, arrivals, watchHist>>

\* Mutant of GetMark: the entry is not marked
GetUnmarked ==
  /\ up = "mark" /\ upi <= Len(fvect)
  /\ up' = "read"
  /\ UNCHANGED <<fvect, dir, nested, monitor, inq, upi, upf, arrivals, watchHist>>

\* The entry that is at i by now is marked
GetMark ==
  /\ up = "mark" /\ upi <= Len(fvect)
  /\ up' = "read"
  /\ fvect' = [fvect EXCEPT ![upi].flag = 1]
  /\ UNCHANGED <<dir, nested, monitor, inq, upi, upf, arrivals, watchHist>>

\* The path of the entry that is at i by now is handed out
GetPath ==
  /\ up = "read" /\ upi <= Len(fvect)
  /\ up' = "have" /\ upi' = 0 /\ upf' = fvect[upi].filepath
  /\ fvect' = [fvect EXCEPT ![upi].out = 1]
  /\ watchHist' = [watchHist EXCEPT !.twice = @ \/ fvect[upi].out = 1]
  /\ UNCHANGED <<dir, nested, monitor, inq, arrivals>>

\* The file cannot be sent: its entry stays, marked
GiveUp ==
  /\ up = "have" /\ up' = "idle"
  /\ UNCHANGED <<fvect, dir, nested, monitor, inq, upi, upf, arrivals, watchHist>>

clear_filepath ==
  /\ up = IF ClearFirst THEN "have" ELSE "half"
  /\ up' = IF ClearFirst THEN "half" ELSE "idle"
  /\ Erase(upf)
  /\ UNCHANGED <<dir, nested, monitor, inq, upi, upf, arrivals, watchHist>>

\* The file that was sent is deleted
Unlink ==
  /\ up = IF ClearFirst THEN "half" ELSE "have"
  /\ up' = IF ClearFirst THEN "idle" ELSE "half"
  /\ dir' = dir \ {upf}
  /\ IF upf \in dir THEN Post("IN_DELETE", upf) ELSE UNCHANGED inq
  /\ UNCHANGED <<fvect, nested, monitor, upi, upf, arrivals, watchHist>>

WatchNext ==
  \/ \E f \in File : Create(f)
  \/ \E n \in Names : Rename(n) \/ set_filepath(Whole(n))
  \/ Filelist \/ file_monitor_thread \/ watch_inotify_events
  \/ get_filepath \/ GetSize \/ Wild \/ GetFlag \/ GetMark \/ GetPath
  \/ GiveUp \/ clear_filepath \/ Unlink

WatchSpec == WatchInit /\ [][WatchNext]_watchVars

-----------------------------------------------------------------------------
\* When the events are handled every finished file in the directory is listed, however
\* often its name was replaced, sent and deleted meanwhile, or is the one that the uploader
\* has cleared and is about to delete: except files that came between the scan
\* (filelist_inotify.cpp:20) and the watch (line 216), or when the event queue was full.
\* It takes an uploader that clears before it deletes: the other way round clear_filepath
\* (lines 99-115) may erase the entry of a new file of that name.
SettledList ==
  monitor # "scan" /\ inq = <<>>
    => \A f \in dir : \/ f.part \/ f \in watchHist.missed
                      \/ Entries(f) # {}
                      \/ up = "half" /\ upf = f

\* Over any number of calls of get_filepath (filelist_inotify.cpp:81-97), by an uploader that
\* leaves the entries of files it could not send, the marked entries are exactly the ones
\* handed out: none is handed out twice, none is marked and then never handed out, and no
\* index past the end is used.  The one exception: an event for a deleted file (lines
\* 174-187) erased an entry at the index of get_filepath or before it, between two of its
\* unlocked accesses (lines 84, 88, 90, 91), which then work on different entries.
HandOutSound ==
  watchHist.raced \/
    /\ ~watchHist.twice /\ ~watchHist.wild
    /\ \A k \in 1..Len(fvect) :
         fvect[k].flag = fvect[k].out \/ (up = "read" /\ k = upi)
=============================================================================
