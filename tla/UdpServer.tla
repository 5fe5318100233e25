------------------------------ MODULE UdpServer ------------------------------
(***************************************************************************)
(* The receiver of the UDP file transfer                                   *)
(* (filesend/udpfilesend/udp-server.c): one thread that takes a datagram,  *)
(* looks its command and type up in cmd_repose and runs the handler, which *)
(* answers the sender.  All of its state is in globals: the announced file *)
(* (Filemsg, file_creattime), the descriptor fd and the two path buffers,  *)
(* to which a request APPENDS.  No message carries a sequence number.      *)
(*                                                                         *)
(* A path buffer is the sequence of the names appended to it: empty, the   *)
(* path of one file, or a concatenation that names no file.  The file      *)
(* system has inodes, so that an open descriptor keeps writing to a file   *)
(* that "mv" has renamed.                                                  *)
(***************************************************************************)
EXTENDS NetFile

CONSTANTS Inode,     \* inodes of the device mounted on /mnt
          NoInode,
          Nested,    \* the names with a directory part
          FdLimit,   \* RLIMIT_NOFILE less the descriptors nothing here closes
          DiskBlocks,\* the longest file the device has room for
          Torn,      \* what a write that ran out of space stores of a block
          PathRoom   \* the names that fit the 128 bytes of a path buffer

ASSUME NoInodeAssumption == NoInode \notin Inode
ASSUME FdLimitAssumption == FdLimit \in Nat \ {0}
ASSUME DiskBlocksAssumption == DiskBlocks \in Nat
ASSUME TornAssumption == Torn \in Chunk
ASSUME PathRoomAssumption == PathRoom \in Nat

VARIABLES Filemsg,         \* the FileBlock_t of the last request
          fd,              \* what the global descriptor refers to
          file_path,       \* names appended to file_path
          file_path_back,  \* names appended to file_path_back (".filepart")
          nfds,            \* open descriptors, standard input included
          finishing,       \* what cmd_revfilefinsh has still to do: "mv", "utime", or "no"
          dirs,            \* the nested names whose directory exists
          part,            \* directory entries <name>.filepart
          final,           \* directory entries <name>
          inode,           \* what each inode holds: blocks and modification time
          reply            \* the answer of the last handler, if it sent one

memory  == <<Filemsg, fd, file_path, file_path_back, nfds, finishing>>
fs      == <<dirs, part, final, inode>>
srvVars == <<memory, fs, reply>>

NoFd    == [kind |-> "none",  ino |-> NoInode, pos |-> 0]
StdinFd == [kind |-> "stdin", ino |-> NoInode, pos |-> 0]
Fd      == [kind : {"none", "stdin", "file"}, ino : Inode \cup {NoInode}, pos : Nat]
NoReply == ZeroHead

SrvInit ==
  /\ Filemsg = ZeroFileBlock
  /\ fd = StdinFd                             \* int fd = 0
  /\ file_path = <<>> /\ file_path_back = <<>>
  /\ nfds = 1 /\ finishing = "no"
  /\ dirs = {}
  /\ part  = [n \in Name |-> NoInode]
  /\ final = [n \in Name |-> NoInode]
  /\ inode = [i \in Inode |-> [bytes |-> <<>>, mtime |-> NoStamp]]
  /\ reply = NoReply

-----------------------------------------------------------------------------
(* The file system as the handlers use it.                                 *)

UsedInode == {part[n] : n \in Name} \cup {final[n] : n \in Name} \cup {fd.ino}

\* MD5_file of what file_path_back names: ZeroMd5 when it cannot be opened
CanRead == Len(file_path_back) = 1 /\ part[file_path_back[1]] # NoInode /\ nfds < FdLimit
MD5_file == IF CanRead THEN inode[part[file_path_back[1]]].bytes ELSE ZeroMd5

\* access_dir: make the directory of a nested name; the DIR of one that is there
\* stays open
DirLeaks(n) == n \in Nested /\ n \in dirs /\ nfds < FdLimit
FdsAfterDir(n) == nfds + (IF DirLeaks(n) THEN 1 ELSE 0)
access_dir(n) == dirs' = dirs \cup ({n} \cap Nested)

\* Mutant of OpenOld: open with O_TRUNC
OpenOldTruncates(n) ==
  /\ part[n] # NoInode
  /\ fd' = [kind |-> "file", ino |-> part[n], pos |-> 0]
  /\ inode' = [inode EXCEPT ![part[n]].bytes = <<>>]
  /\ UNCHANGED part

\* open(file_path_back, O_WRONLY|O_CREAT): no O_TRUNC, and the old fd is not closed
OpenOld(n) ==
  /\ part[n] # NoInode
  /\ fd' = [kind |-> "file", ino |-> part[n], pos |-> 0]
  /\ UNCHANGED <<part, inode>>
OpenNew(n) ==
  /\ part[n] = NoInode
  /\ \E i \in Inode \ UsedInode :
       /\ fd' = [kind |-> "file", ino |-> i, pos |-> 0]
       /\ part' = [part EXCEPT ![n] = i]
       /\ inode' = [inode EXCEPT ![i] = [bytes |-> <<>>, mtime |-> NoStamp]]

\* Mutant of OpenFails: the announced name alone is opened, not the concatenation
OpenFailsAlone(n) ==
  \/ FdsAfterDir(n) >= FdLimit
  \/ part[n] = NoInode /\ Inode \subseteq UsedInode

\* What a second append makes of the path names no file
OpenFails(n) ==
  \/ file_path_back # <<>>
  \/ FdsAfterDir(n) >= FdLimit
  \/ part[n] = NoInode /\ Inode \subseteq UsedInode

-----------------------------------------------------------------------------
(* The handlers.                                                           *)

\* cmd_repose: which command and type runs which handler
IsReq(m)    == m.cmd = CMD_SEND_FILEMSG_REQ /\ m.type = REQ_NOR
IsData(m)   == m.cmd = CMD_SEND_FILE        /\ m.type = REQ_NORE
IsFinish(m) == m.cmd = CMD_SEND_FINISH      /\ m.type = REQ_NOR

AppendPaths(n) ==
  /\ file_path' = Append(file_path, n)
  /\ file_path_back' = Append(file_path_back, n)

ClearPaths == file_path' = <<>> /\ file_path_back' = <<>>

ReqAccepted(m) ==
  /\ ~OpenFails(m.block.name)
  /\ OpenOld(m.block.name) \/ OpenNew(m.block.name)
  /\ nfds' = FdsAfterDir(m.block.name) + 1
  /\ reply' = Reply(m, ACK_OK)

ReqRefused(m) ==
  /\ OpenFails(m.block.name)
  /\ fd' = NoFd
  /\ nfds' = FdsAfterDir(m.block.name)
  /\ reply' = Reply(m, ACK_FAIL)
  /\ UNCHANGED <<part, inode>>

cmd_reqsend_deel(m) ==
  /\ Len(file_path) < PathRoom      \* past it the strcat overruns the buffer
  /\ Filemsg' = m.block
  /\ AppendPaths(m.block.name)
  /\ access_dir(m.block.name)
  /\ ReqAccepted(m) \/ ReqRefused(m)
  /\ UNCHANGED <<finishing, final>>

\* write() to the open file; a block that only partly fits is written short, and
\* the handler takes that for success.  Torn stands for what is then stored.
WriteFile(m) ==
  /\ fd.kind = "file" /\ fd.pos < DiskBlocks
  /\ \E x \in {m.chunk, Torn} :
       inode' = [inode EXCEPT ![fd.ino] =
                   [bytes |-> Written(@.bytes, fd.pos, x), mtime |-> NoStamp]]
  /\ fd' = [fd EXCEPT !.pos = @ + 1]
  /\ reply' = Reply(m, ACK_OK)
  /\ UNCHANGED <<file_path, file_path_back, nfds>>

\* fd is still 0: the data goes to the terminal
WriteStdin(m) ==
  /\ fd.kind = "stdin"
  /\ reply' = Reply(m, ACK_OK)
  /\ UNCHANGED <<fd, file_path, file_path_back, nfds, inode>>

\* Mutant of WriteFails: a descriptor that is closed already is counted again
WriteFailsTwice(m) ==
  /\ ClearPaths /\ reply' = Reply(m, ACK_NOSP)
  /\ nfds' = nfds - 1 /\ fd' = NoFd /\ UNCHANGED inode

\* Mutant of WriteFails: file_path_back is not cleared
WriteFailsKeepsBack(m) ==
  /\ file_path' = <<>> /\ UNCHANGED file_path_back /\ reply' = Reply(m, ACK_NOSP)
  /\ nfds' = (IF fd.kind = "none" THEN nfds ELSE nfds - 1) /\ fd' = NoFd /\ UNCHANGED inode

\* write() returns -1: no space, an I/O error, or a descriptor that is not open
WriteFails(m) ==
  /\ ClearPaths
  /\ reply' = Reply(m, ACK_NOSP)
  /\ nfds' = IF fd.kind = "none" THEN nfds ELSE nfds - 1
  /\ fd' = NoFd
  /\ UNCHANGED inode

cmd_revfile(m) ==
  /\ WriteFile(m) \/ WriteStdin(m) \/ WriteFails(m)
  /\ UNCHANGED <<Filemsg, finishing, dirs, part, final>>

\* Mutant of cmd_revfilefinsh: the digest is not compared
FinishUnchecked(m) ==
  /\ reply' = Reply(m, ACK_OK) /\ finishing' = "mv"
  /\ UNCHANGED <<Filemsg, fd, nfds, file_path, file_path_back, fs>>

\* cmd_revfilefinsh up to its answer, which it sends before it publishes; fd stays open
cmd_revfilefinsh(m) ==
  /\ \/ /\ MD5_file # Filemsg.md5
        /\ reply' = Reply(m, ACK_FAIL) /\ ClearPaths /\ UNCHANGED finishing
     \/ /\ MD5_file = Filemsg.md5
        /\ reply' = Reply(m, ACK_OK) /\ finishing' = "mv"
        /\ UNCHANGED <<file_path, file_path_back>>
  /\ UNCHANGED <<Filemsg, fd, nfds, fs>>

Movable == Len(file_path) = 1 /\ part[file_path[1]] # NoInode

\* system("mv <file_path_back> <file_path>"): its result is not looked at, and it fails
\* where there is nothing to move or the shell, the device or a name with a space says so
mv ==
  /\ Movable
  /\ final' = [final EXCEPT ![file_path[1]] = part[file_path[1]]]
  /\ part'  = [part EXCEPT ![file_path[1]] = NoInode]
Move ==
  /\ finishing = "mv" /\ finishing' = "utime"
  /\ mv \/ UNCHANGED <<final, part>>
  /\ reply' = NoReply
  /\ UNCHANGED <<Filemsg, fd, nfds, file_path, file_path_back, dirs, inode>>

\* utime(file_path): on what the path names, be it moved there just now or long ago
utime ==
  inode' = IF Len(file_path) = 1 /\ final[file_path[1]] # NoInode
           THEN [inode EXCEPT ![final[file_path[1]]].mtime = Filemsg.timestamp]
           ELSE inode

\* Mutant of SetTime: the path buffers are not cleared
SetTimeKeepsPaths ==
  /\ finishing = "utime" /\ finishing' = "no" /\ utime /\ reply' = NoReply
  /\ UNCHANGED <<Filemsg, fd, nfds, file_path, file_path_back, dirs, part, final>>

SetTime ==
  /\ finishing = "utime" /\ finishing' = "no"
  /\ utime
  /\ ClearPaths
  /\ reply' = NoReply
  /\ UNCHANGED <<Filemsg, fd, nfds, dirs, part, final>>

\* The process ends, in the middle of cmd_revfilefinsh too, and is started again: the
\* globals are as the loader initialises them, the file system stays
Restart ==
  /\ Filemsg' = ZeroFileBlock
  /\ fd' = StdinFd
  /\ ClearPaths
  /\ nfds' = 1 /\ finishing' = "no"
  /\ reply' = NoReply
  /\ UNCHANGED fs

-----------------------------------------------------------------------------
\* socketrev and onrecv: one datagram, one handler; an unknown one is dropped
onrecv(m) ==
  /\ finishing = "no"
  /\ \/ IsReq(m)    /\ cmd_reqsend_deel(m)
     \/ IsData(m)   /\ cmd_revfile(m)
     \/ IsFinish(m) /\ cmd_revfilefinsh(m)
     \/ /\ ~IsReq(m) /\ ~IsData(m) /\ ~IsFinish(m)
        /\ reply' = NoReply /\ UNCHANGED <<memory, fs>>

SrvNext ==
  \/ \E m \in Message_t : onrecv(m)
  \/ Move \/ SetTime
  \/ Restart

SrvSpec == SrvInit /\ [][SrvNext]_srvVars

-----------------------------------------------------------------------------
(* What holds whatever datagrams arrive, in whatever order.                *)

\* Every variable stays in its type; the process never holds more than FdLimit
\* descriptors and never counts one as closed twice.
SrvTypeOK ==
  /\ Filemsg \in [name : Name \cup {NoName}, md5 : Md5, timestamp : Stamp \cup {NoStamp}]
  /\ fd \in Fd
  /\ file_path \in Seq(Name) /\ file_path_back \in Seq(Name)
  /\ nfds \in 0..FdLimit /\ finishing \in {"no", "mv", "utime"}
  /\ dirs \subseteq Nested
  /\ part \in [Name -> Inode \cup {NoInode}] /\ final \in [Name -> Inode \cup {NoInode}]
  /\ inode \in [Inode -> File]
  /\ reply \in MsgHead

\* No two directory entries share an inode: two uploads never write to one file,
\* and an upload in progress is not the published file of that or another name.
LinksDistinct ==
  \A n1, n2 \in Name :
    /\ part[n1] = part[n2] /\ part[n1] # NoInode => n1 = n2
    /\ final[n1] = final[n2] /\ final[n1] # NoInode => n1 = n2
    /\ part[n1] = final[n2] => part[n1] = NoInode

\* The globals agree on the upload in progress although four handlers set them one
\* by one: both path buffers hold the same names, the last of them is the announced
\* file, a descriptor that is open while the buffers hold a path is that of the
\* announced file's .filepart, or of the file it has just become, and once a second name
\* was appended nothing is open.
UploadTarget ==
  /\ file_path = file_path_back
  /\ file_path # <<>> => /\ file_path[Len(file_path)] = Filemsg.name
                         /\ fd.kind \in {"none", "file"}
  /\ Len(file_path) = 1 /\ fd.kind = "file" =>
       \/ part[Filemsg.name] = fd.ino
       \/ finishing = "utime" /\ final[Filemsg.name] = fd.ino
  /\ Len(file_path) > 1 => fd.kind = "none"

\* A .filepart is never truncated: open() has no O_TRUNC and nothing deletes it. What
\* a failed upload left there stays, at least as long as it was, until a FINISH for that
\* name finds exactly the announced contents in it (or cannot read it for want of a
\* descriptor while the announced digest is zero).
LeftoverStays ==
  [][\A n \in Name : part[n] # NoInode =>
       \/ /\ part'[n] = part[n]
          /\ Len(inode'[part[n]].bytes) >= Len(inode[part[n]].bytes)
       \/ /\ n = Filemsg.name /\ final'[n] = part[n]
          /\ \/ inode[part[n]].bytes = Filemsg.md5
             \/ Filemsg.md5 = ZeroMd5 /\ nfds = FdLimit]_srvVars

\* fd is never closed after an upload and the directories access_dir opens are not
\* either: once the descriptors are used up, and the last open() failed, nothing
\* but a restart gives one back, and no verified file is ever published again.
ExhaustedForever ==
  [][nfds = FdLimit /\ fd.kind = "none" =>
       \/ fd'.kind = "stdin"
       \/ /\ nfds' = FdLimit /\ fd'.kind = "none"
          /\ final' # final => Filemsg.md5 = ZeroMd5]_srvVars

\* What a reader of /mnt sees: the published files.
store == [n \in Name |-> IF final[n] = NoInode THEN {} ELSE {inode[final[n]]}]
phase == IF file_path = <<>> THEN "idle"
         ELSE IF finishing = "utime" /\ Len(file_path) = 1 THEN "closing" ELSE "uploading"
Store == INSTANCE UploadStore WITH announced <- Filemsg

\* The handlers implement the abstract store: a published file appears only with
\* the announced contents, gets its time from the announcement in the next step or, after a
\* crash in between, never, and changes otherwise only by a stray block that arrives while
\* no upload is in progress.
StoreSpec == Store!Spec
=============================================================================
