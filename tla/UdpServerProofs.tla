--------------------------- MODULE UdpServerProofs ---------------------------
(***************************************************************************)
(* Proofs about the receiver of the UDP file transfer, for every set of    *)
(* names, blocks and inodes, every descriptor limit and every sequence of  *)
(* datagrams and restarts.                                                 *)
(***************************************************************************)
EXTENDS UdpServer, SequenceTheorems, TLAPS

\* The descriptor that is written to: it refers to an inode, its offset is within
\* the file (writes leave no hole), and it is one of the descriptors counted.
FdValid ==
  /\ fd.kind = "file" => fd.ino \in Inode /\ fd.pos <= Len(inode[fd.ino].bytes)
  /\ fd.kind # "file" => fd.ino = NoInode
  /\ fd.kind # "none" => nfds >= 1

\* What is about to be moved was compared, and only a published file has a time
FinishOK ==
  /\ finishing = "mv" => MD5_file = Filemsg.md5
  /\ \A n \in Name : part[n] # NoInode => inode[part[n]].mtime = NoStamp

\* The inductive invariant
SrvInv == SrvTypeOK /\ LinksDistinct /\ UploadTarget /\ FdValid /\ FinishOK

-----------------------------------------------------------------------------
\* What the buffer of a message holds, by the handler its header selects.
LEMMA MessageFields ==
  ASSUME NEW m \in Message_t
  PROVE  /\ m.cmd \in Command /\ m.type \in Type
         /\ IsReq(m) => m.block \in FileBlock_t
         /\ IsData(m) => m.chunk \in Chunk
BY DEF Message_t, Command, IsReq, IsData, CMD_SEND_FILEMSG_REQ, CMD_SEND_FILE, CMD_SEND_FINISH

\* An answer is a message header.
LEMMA ReplyType ==
  ASSUME NEW m \in Message_t, NEW type \in Type
  PROVE  Reply(m, type) \in MsgHead
BY MessageFields DEF Reply, MsgHead

LEMMA AckTypes == ACK_OK \in Type /\ ACK_FAIL \in Type /\ ACK_NOSP \in Type /\ NoReply \in MsgHead
BY DEF Type, NoReply, ZeroHead, MsgHead, Command

\* A write keeps the contents a sequence of blocks, never shortens it, and leaves
\* room for the next write at the following offset.
LEMMA WrittenLemma ==
  ASSUME NEW bytes \in Seq(Chunk), NEW pos \in Nat, pos <= Len(bytes), NEW x \in Chunk
  PROVE  /\ Written(bytes, pos, x) \in Seq(Chunk)
         /\ Len(Written(bytes, pos, x)) >= Len(bytes)
         /\ pos + 1 <= Len(Written(bytes, pos, x))
<1>1. CASE pos < Len(bytes)
  <2>1. Written(bytes, pos, x) = [bytes EXCEPT ![pos + 1] = x]
    BY <1>1 DEF Written
  <2>2. /\ [bytes EXCEPT ![pos + 1] = x] \in Seq(Chunk)
        /\ Len([bytes EXCEPT ![pos + 1] = x]) = Len(bytes)
    BY <1>1, ExceptSeq
  <2>. QED BY <1>1, <2>1, <2>2
<1>2. CASE pos = Len(bytes)
  BY <1>2 DEF Written
<1>. QED BY <1>1, <1>2

\* The initial state satisfies the inductive invariant.
LEMMA InitInv == SrvInit => SrvInv
BY FdLimitAssumption DEF SrvInit, SrvInv, SrvTypeOK, LinksDistinct, UploadTarget, FdValid, FinishOK, ZeroFileBlock, Md5,
       StdinFd, Fd, File, NoReply, ZeroHead, MsgHead, Type

-----------------------------------------------------------------------------
(* Each handler keeps the inductive invariant.                             *)

\* A request that is accepted: a new .filepart takes an inode nobody uses, an old
\* one is opened again at offset 0.
LEMMA ReqAcceptedInv ==
  ASSUME NEW m \in Message_t, SrvInv, finishing = "no", IsReq(m), cmd_reqsend_deel(m), ReqAccepted(m)
  PROVE  SrvInv'
<1>. DEFINE n == m.block.name
<1>1. m.block \in FileBlock_t /\ n \in Name /\ reply' \in MsgHead
  BY MessageFields, ReplyType, AckTypes DEF ReqAccepted, FileBlock_t
<1>2. file_path = <<>> /\ file_path_back = <<>> /\ FdsAfterDir(n) < FdLimit
      /\ FdsAfterDir(n) \in Nat
  BY FdLimitAssumption DEF ReqAccepted, OpenFails, FdsAfterDir, SrvInv, UploadTarget, SrvTypeOK
<1>3. /\ file_path' = <<n>> /\ file_path_back' = <<n>> /\ Filemsg' = m.block
      /\ nfds' = FdsAfterDir(n) + 1 /\ dirs' = dirs \cup ({n} \cap Nested) /\ final' = final
      /\ finishing' = "no"
  BY <1>2 DEF cmd_reqsend_deel, ReqAccepted, AppendPaths, access_dir
<1>4. CASE OpenOld(n)
  <2>1. fd' = [kind |-> "file", ino |-> part[n], pos |-> 0] /\ part[n] \in Inode
        /\ part' = part /\ inode' = inode
    BY <1>1, <1>4 DEF OpenOld, SrvInv, SrvTypeOK
  <2>2. SrvTypeOK'
    BY <1>1, <1>2, <1>3, <2>1, FdLimitAssumption DEF SrvInv, SrvTypeOK, FileBlock_t, Fd
  <2>3. LinksDistinct'
    BY <1>3, <2>1 DEF SrvInv, LinksDistinct
  <2>4. UploadTarget'
    BY <1>3, <2>1 DEF UploadTarget
  <2>5. FdValid'
    BY <1>2, <1>3, <2>1 DEF FdValid, SrvInv, SrvTypeOK, File
  <2>6. FinishOK'
    BY <1>3, <2>1 DEF SrvInv, FinishOK
  <2>. QED BY <2>2, <2>3, <2>4, <2>5, <2>6 DEF SrvInv
<1>5. CASE OpenNew(n)
  <2>1. PICK i \in Inode \ UsedInode :
          /\ fd' = [kind |-> "file", ino |-> i, pos |-> 0]
          /\ part' = [part EXCEPT ![n] = i]
          /\ inode' = [inode EXCEPT ![i] = [bytes |-> <<>>, mtime |-> NoStamp]]
    BY <1>5 DEF OpenNew
  <2>2. \A q \in Name : part[q] # i /\ final[q] # i
    BY DEF UsedInode
  <2>3. SrvTypeOK'
    <3>1. fd' \in Fd /\ part' \in [Name -> Inode \cup {NoInode}]
      BY <1>1, <2>1 DEF SrvInv, SrvTypeOK, Fd
    <3>2. inode' \in [Inode -> File]
      BY <2>1 DEF SrvInv, SrvTypeOK, File
    <3>. QED BY <1>1, <1>2, <1>3, <3>1, <3>2, FdLimitAssumption DEF SrvInv, SrvTypeOK, FileBlock_t
  <2>4. LinksDistinct'
    BY <1>1, <1>3, <2>1, <2>2, NoInodeAssumption DEF SrvInv, LinksDistinct, SrvTypeOK
  <2>5. UploadTarget'
    BY <1>1, <1>3, <2>1 DEF UploadTarget, SrvInv, SrvTypeOK
  <2>6. FdValid'
    BY <1>2, <1>3, <2>1 DEF FdValid, SrvInv, SrvTypeOK, File
  <2>7. FinishOK'
    <3>1. \A q \in Name : part'[q] # NoInode => inode'[part'[q]].mtime = NoStamp
      BY <1>1, <2>1, <2>2 DEF SrvInv, SrvTypeOK, FinishOK
    <3>. QED BY <1>3, <3>1 DEF FinishOK
  <2>. QED BY <2>3, <2>4, <2>5, <2>6, <2>7 DEF SrvInv
<1>. QED BY <1>4, <1>5 DEF ReqAccepted

\* A request that is refused appends its name all the same and leaves nothing open.
LEMMA ReqRefusedInv ==
  ASSUME NEW m \in Message_t, SrvInv, finishing = "no", IsReq(m), cmd_reqsend_deel(m), ReqRefused(m)
  PROVE  SrvInv'
<1>. DEFINE n == m.block.name
<1>1. m.block \in FileBlock_t /\ n \in Name /\ reply' \in MsgHead
  BY MessageFields, ReplyType, AckTypes DEF ReqRefused, FileBlock_t
<1>2. FdsAfterDir(n) \in 0..FdLimit
  BY FdLimitAssumption DEF FdsAfterDir, DirLeaks, SrvInv, SrvTypeOK
<1>3. /\ file_path' = Append(file_path, n) /\ file_path_back' = Append(file_path_back, n)
      /\ Filemsg' = m.block /\ fd' = NoFd /\ nfds' = FdsAfterDir(n)
      /\ dirs' = dirs \cup ({n} \cap Nested) /\ final' = final /\ part' = part /\ inode' = inode
      /\ finishing' = "no"
  BY DEF cmd_reqsend_deel, ReqRefused, AppendPaths, access_dir
<1>4. SrvTypeOK'
  BY <1>1, <1>2, <1>3 DEF SrvInv, SrvTypeOK, FileBlock_t, Fd, NoFd
<1>5. LinksDistinct'
  BY <1>3 DEF SrvInv, LinksDistinct
<1>6. UploadTarget'
  BY <1>1, <1>3 DEF SrvInv, SrvTypeOK, UploadTarget, NoFd
<1>7. FdValid' /\ FinishOK'
  BY <1>3 DEF FdValid, NoFd, SrvInv, FinishOK
<1>. QED BY <1>4, <1>5, <1>6, <1>7 DEF SrvInv

\* A block that is written, whole or torn, to standard input, or not at all.
LEMMA RevFileInv ==
  ASSUME NEW m \in Message_t, SrvInv, finishing = "no", IsData(m), cmd_revfile(m)
  PROVE  SrvInv'
<1>1. m.chunk \in Chunk /\ Torn \in Chunk
  BY MessageFields, TornAssumption
<1>2. reply' \in MsgHead
  BY ReplyType, AckTypes DEF cmd_revfile, WriteFile, WriteStdin, WriteFails
<1>3. Filemsg' = Filemsg /\ dirs' = dirs /\ part' = part /\ final' = final /\ finishing' = "no"
  BY DEF cmd_revfile
<1>4. LinksDistinct'
  BY <1>3 DEF SrvInv, LinksDistinct
<1>5. CASE WriteFile(m)
  <2>1. PICK x \in Chunk : inode' = [inode EXCEPT ![fd.ino] =
                   [bytes |-> Written(@.bytes, fd.pos, x), mtime |-> NoStamp]]
    BY <1>1, <1>5 DEF WriteFile
  <2>2. fd.ino \in Inode /\ fd.kind = "file" /\ fd.pos \in Nat
        /\ inode[fd.ino].bytes \in Seq(Chunk) /\ fd.pos <= Len(inode[fd.ino].bytes)
    BY <1>5 DEF WriteFile, SrvInv, FdValid, SrvTypeOK, Fd, File
  <2>3. /\ Written(inode[fd.ino].bytes, fd.pos, x) \in Seq(Chunk)
        /\ fd.pos + 1 <= Len(Written(inode[fd.ino].bytes, fd.pos, x))
    BY <2>2, WrittenLemma
  <2>4. /\ fd' = [fd EXCEPT !.pos = fd.pos + 1]
        /\ UNCHANGED <<file_path, file_path_back, nfds>>
    BY <1>5 DEF WriteFile
  <2>5. inode' \in [Inode -> File] /\ fd' \in Fd
    <3>1. fd' \in Fd
      BY <2>2, <2>4 DEF SrvInv, SrvTypeOK, Fd
    <3>2. [bytes |-> Written(inode[fd.ino].bytes, fd.pos, x), mtime |-> NoStamp] \in File
      BY <2>3 DEF File
    <3>3. inode' = [inode EXCEPT ![fd.ino] =
                      [bytes |-> Written(inode[fd.ino].bytes, fd.pos, x), mtime |-> NoStamp]]
      BY <2>1
    <3>. QED BY <2>2, <3>1, <3>2, <3>3 DEF SrvInv, SrvTypeOK
  <2>6. SrvTypeOK'
    BY <1>2, <1>3, <2>4, <2>5 DEF SrvInv, SrvTypeOK
  <2>7. fd'.kind = fd.kind /\ fd'.ino = fd.ino /\ fd'.pos = fd.pos + 1
    BY <2>4 DEF SrvInv, SrvTypeOK, Fd
  <2>8. UploadTarget'
    BY <1>3, <2>4, <2>7 DEF SrvInv, UploadTarget
  <2>9. inode'[fd.ino].bytes = Written(inode[fd.ino].bytes, fd.pos, x)
    BY <2>1, <2>2 DEF SrvInv, SrvTypeOK
  <2>10. FdValid'
    BY <2>2, <2>3, <2>4, <2>7, <2>9 DEF SrvInv, FdValid
  <2>11. FinishOK'
    <3>1. \A i \in Inode : inode'[i].mtime = IF i = fd.ino THEN NoStamp ELSE inode[i].mtime
      BY <2>1, <2>2 DEF SrvInv, SrvTypeOK
    <3>. QED BY <1>3, <3>1 DEF SrvInv, SrvTypeOK, FinishOK
  <2>. QED BY <1>4, <2>6, <2>8, <2>10, <2>11 DEF SrvInv
<1>6. CASE WriteStdin(m)
  BY <1>2, <1>3, <1>4, <1>6 DEF WriteStdin, SrvInv, SrvTypeOK, UploadTarget, FdValid, FinishOK
<1>7. CASE WriteFails(m)
  <2>1. /\ file_path' = <<>> /\ file_path_back' = <<>> /\ fd' = NoFd /\ inode' = inode
        /\ nfds' = IF fd.kind = "none" THEN nfds ELSE nfds - 1
    BY <1>7 DEF WriteFails, ClearPaths
  <2>2. nfds' \in 0..FdLimit
    BY <2>1, FdLimitAssumption DEF SrvInv, FdValid, SrvTypeOK
  <2>3. SrvTypeOK'
    BY <1>2, <1>3, <2>1, <2>2 DEF SrvInv, SrvTypeOK, NoFd, Fd
  <2>4. UploadTarget' /\ FdValid' /\ FinishOK'
    BY <1>3, <2>1 DEF UploadTarget, FdValid, NoFd, SrvInv, FinishOK
  <2>. QED BY <1>4, <2>3, <2>4 DEF SrvInv
<1>. QED BY <1>5, <1>6, <1>7 DEF cmd_revfile

\* FINISH: the upload is given up, or about to be moved; the file system stays.
LEMMA FinishInv ==
  ASSUME NEW m \in Message_t, SrvInv, finishing = "no", IsFinish(m), cmd_revfilefinsh(m)
  PROVE  SrvInv'
<1>1. reply' \in MsgHead
  BY ReplyType, AckTypes DEF cmd_revfilefinsh
<1>2. /\ Filemsg' = Filemsg /\ fd' = fd /\ nfds' = nfds /\ dirs' = dirs
      /\ final' = final /\ part' = part /\ inode' = inode
  BY DEF cmd_revfilefinsh, fs
<1>3. LinksDistinct' /\ FdValid'
  BY <1>2 DEF SrvInv, LinksDistinct, FdValid
<1>4. CASE ClearPaths /\ finishing' = "no"
  <2>1. file_path' = <<>> /\ file_path_back' = <<>>
    BY <1>4 DEF ClearPaths
  <2>2. SrvTypeOK'
    BY <1>1, <1>2, <1>4, <2>1 DEF SrvInv, SrvTypeOK
  <2>3. UploadTarget' /\ FinishOK'
    BY <1>2, <1>4, <2>1 DEF UploadTarget, SrvInv, FinishOK
  <2>. QED BY <1>3, <2>2, <2>3 DEF SrvInv
<1>5. CASE MD5_file = Filemsg.md5 /\ finishing' = "mv" /\ UNCHANGED <<file_path, file_path_back>>
  <2>1. SrvTypeOK'
    BY <1>1, <1>2, <1>5 DEF SrvInv, SrvTypeOK
  <2>2. UploadTarget'
    BY <1>2, <1>5 DEF SrvInv, UploadTarget
  <2>3. MD5_file' = MD5_file
    BY <1>2, <1>5 DEF MD5_file, CanRead
  <2>4. FinishOK'
    BY <1>2, <1>5, <2>3 DEF SrvInv, FinishOK
  <2>. QED BY <1>3, <2>1, <2>2, <2>4 DEF SrvInv
<1>. QED BY <1>4, <1>5 DEF cmd_revfilefinsh

\* What "mv" moves: the announced file's .filepart, whose contents were compared.
LEMMA MovableLemma ==
  ASSUME SrvInv, Movable
  PROVE  /\ file_path # <<>> /\ file_path[1] = Filemsg.name /\ Filemsg.name \in Name
         /\ part[Filemsg.name] \in Inode
         /\ MD5_file # ZeroMd5 => MD5_file = inode[part[Filemsg.name]].bytes
         /\ MD5_file = ZeroMd5 => nfds = FdLimit
<1>1. file_path \in Seq(Name) /\ 1 \in 1..Len(file_path) /\ file_path_back = file_path
  BY DEF Movable, SrvInv, SrvTypeOK, UploadTarget
<1>2. file_path[1] \in Name
  BY <1>1, ElementOfSeq
<1>3. file_path[1] = Filemsg.name /\ file_path # <<>>
  <2>1. file_path # <<>> /\ Len(file_path) = 1
    BY <1>1 DEF Movable
  <2>. QED BY <2>1 DEF SrvInv, UploadTarget
<1>4. part[file_path[1]] \in Inode
  BY <1>2 DEF Movable, SrvInv, SrvTypeOK
<1>5. nfds \in 0..FdLimit /\ inode[part[file_path[1]]].bytes \in Seq(Chunk) /\ FdLimit \in Nat
  BY <1>4, FdLimitAssumption DEF SrvInv, SrvTypeOK, File
<1>6. /\ MD5_file # ZeroMd5 => MD5_file = inode[part[file_path[1]]].bytes
      /\ MD5_file = ZeroMd5 => nfds = FdLimit
  BY <1>1, <1>5, ZeroMd5Assumption DEF Movable, MD5_file, CanRead
<1>. QED BY <1>2, <1>3, <1>4, <1>6

\* "mv": the .filepart becomes the published file, or everything stays.
LEMMA MoveInv ==
  ASSUME SrvInv, Move
  PROVE  SrvInv'
<1>1. /\ reply' \in MsgHead /\ finishing' = "utime"
      /\ Filemsg' = Filemsg /\ fd' = fd /\ nfds' = nfds /\ dirs' = dirs /\ inode' = inode
      /\ file_path' = file_path /\ file_path_back' = file_path_back
  BY AckTypes DEF Move
<1>2. FdValid'
  BY <1>1 DEF SrvInv, FdValid
<1>3. CASE UNCHANGED <<final, part>>
  <2>1. SrvTypeOK' /\ LinksDistinct'
    BY <1>1, <1>3 DEF SrvInv, SrvTypeOK, LinksDistinct
  <2>2. UploadTarget' /\ FinishOK'
    BY <1>1, <1>3 DEF SrvInv, UploadTarget, FinishOK
  <2>. QED BY <1>2, <2>1, <2>2 DEF SrvInv
<1>4. CASE mv
  <2>. DEFINE n == Filemsg.name
  <2>1. file_path[1] = n /\ n \in Name /\ part[n] \in Inode
    BY <1>4, MovableLemma DEF mv
  <2>2. final' = [final EXCEPT ![n] = part[n]] /\ part' = [part EXCEPT ![n] = NoInode]
    BY <1>4, <2>1 DEF mv
  <2>3. SrvTypeOK'
    BY <1>1, <2>1, <2>2 DEF SrvInv, SrvTypeOK
  <2>4. LinksDistinct'
    BY <2>1, <2>2, NoInodeAssumption DEF SrvInv, SrvTypeOK, LinksDistinct
  <2>5. UploadTarget'
    <3>1. final'[n] = part[n]
      BY <2>1, <2>2 DEF SrvInv, SrvTypeOK
    <3>. QED BY <1>1, <3>1 DEF SrvInv, UploadTarget, Move
  <2>6. FinishOK'
    BY <1>1, <2>1, <2>2 DEF SrvInv, SrvTypeOK, FinishOK
  <2>. QED BY <1>2, <2>3, <2>4, <2>5, <2>6 DEF SrvInv
<1>. QED BY <1>3, <1>4 DEF Move

\* What utime does: it sets the time of the published file that the path names, if any.
LEMMA TimeEffect ==
  ASSUME SrvInv, utime
  PROVE  /\ inode' \in [Inode -> File] /\ \A i \in Inode : inode'[i].bytes = inode[i].bytes
         /\ \/ inode' = inode
            \/ /\ Len(file_path) = 1 /\ file_path[1] = Filemsg.name /\ Filemsg.name \in Name
               /\ final[Filemsg.name] \in Inode
               /\ inode' = [inode EXCEPT ![final[Filemsg.name]].mtime = Filemsg.timestamp]
<1>1. CASE inode' = inode
  BY <1>1 DEF SrvInv, SrvTypeOK
<1>2. CASE Len(file_path) = 1 /\ final[file_path[1]] # NoInode
  <2>1. file_path \in Seq(Name) /\ 1 \in 1..Len(file_path)
    BY <1>2 DEF SrvInv, SrvTypeOK
  <2>2. file_path[1] \in Name
    BY <2>1, ElementOfSeq
  <2>3. file_path[1] = Filemsg.name
    <3>1. file_path # <<>>
      BY <1>2
    <3>. QED BY <1>2, <3>1 DEF SrvInv, UploadTarget
  <2>4. final[Filemsg.name] \in Inode /\ Filemsg.timestamp \in Stamp \cup {NoStamp}
    BY <1>2, <2>2, <2>3 DEF SrvInv, SrvTypeOK
  <2>5. inode' = [inode EXCEPT ![final[Filemsg.name]].mtime = Filemsg.timestamp]
    BY <1>2, <2>3 DEF utime
  <2>6. inode' \in [Inode -> File] /\ \A i \in Inode : inode'[i].bytes = inode[i].bytes
    BY <2>4, <2>5 DEF SrvInv, SrvTypeOK, File
  <2>. QED BY <1>2, <2>2, <2>3, <2>4, <2>5, <2>6
<1>. QED BY <1>1, <1>2 DEF utime

\* utime sets the time of a published file only, and the upload is over.
LEMMA SetTimeInv ==
  ASSUME SrvInv, SetTime
  PROVE  SrvInv'
<1>1. /\ reply' \in MsgHead /\ finishing' = "no" /\ file_path' = <<>> /\ file_path_back' = <<>>
      /\ Filemsg' = Filemsg /\ fd' = fd /\ nfds' = nfds /\ dirs' = dirs /\ part' = part /\ final' = final
  BY AckTypes DEF SetTime, ClearPaths
<1>2. inode' \in [Inode -> File] /\ \A i \in Inode : inode'[i].bytes = inode[i].bytes
  BY TimeEffect DEF SetTime
<1>3. SrvTypeOK'
  BY <1>1, <1>2 DEF SrvInv, SrvTypeOK
<1>4. LinksDistinct' /\ UploadTarget'
  BY <1>1 DEF SrvInv, LinksDistinct, UploadTarget
<1>5. FdValid'
  BY <1>1, <1>2 DEF SrvInv, FdValid
<1>6. FinishOK'
  <2>1. \A n \in Name : part[n] # NoInode => inode'[part[n]].mtime = NoStamp
    <3>. SUFFICES ASSUME NEW n \in Name, part[n] # NoInode PROVE inode'[part[n]].mtime = NoStamp
      OBVIOUS
    <3>1. part[n] \in Inode /\ inode[part[n]].mtime = NoStamp
      BY DEF SrvInv, SrvTypeOK, FinishOK
    <3>2. CASE inode' = inode
      BY <3>1, <3>2
    <3>3. CASE /\ Filemsg.name \in Name /\ final[Filemsg.name] \in Inode
               /\ inode' = [inode EXCEPT ![final[Filemsg.name]].mtime = Filemsg.timestamp]
      <4>1. part[n] # final[Filemsg.name]
        BY <3>1, <3>3, NoInodeAssumption DEF SrvInv, LinksDistinct
      <4>. QED BY <3>1, <3>3, <4>1 DEF SrvInv, SrvTypeOK
    <3>. QED BY <3>2, <3>3, TimeEffect DEF SetTime
  <2>. QED BY <1>1, <2>1 DEF FinishOK
<1>. QED BY <1>3, <1>4, <1>5, <1>6 DEF SrvInv

\* A restart clears the globals and keeps the file system.
LEMMA RestartInv ==
  ASSUME SrvInv, Restart
  PROVE  SrvInv'
BY FdLimitAssumption, AckTypes
   DEF Restart, ClearPaths, fs, SrvInv, SrvTypeOK, LinksDistinct, UploadTarget, FdValid, FinishOK,
       StdinFd, Fd, ZeroFileBlock, Md5

\* A step that changes nothing but the answer.
LEMMA RestInv ==
  ASSUME SrvInv, UNCHANGED <<memory, fs>>, reply' \in MsgHead
  PROVE  SrvInv'
<1>1. MD5_file' = MD5_file
  BY DEF memory, fs, MD5_file, CanRead
<1>2. FinishOK'
  BY <1>1 DEF memory, fs, SrvInv, FinishOK
<1>. QED BY <1>2 DEF memory, fs, SrvInv, SrvTypeOK, LinksDistinct, UploadTarget, FdValid

\* Every step of the receiver keeps the inductive invariant.
LEMMA NextInv == SrvInv /\ [SrvNext]_srvVars => SrvInv'
<1>. SUFFICES ASSUME SrvInv, [SrvNext]_srvVars PROVE SrvInv'
  OBVIOUS
<1>1. ASSUME NEW m \in Message_t, onrecv(m) PROVE SrvInv'
  <2>0. finishing = "no"
    BY <1>1 DEF onrecv
  <2>1. CASE IsReq(m) /\ cmd_reqsend_deel(m)
    BY <2>0, <2>1, ReqAcceptedInv, ReqRefusedInv DEF cmd_reqsend_deel
  <2>2. CASE IsData(m) /\ cmd_revfile(m)
    BY <2>0, <2>2, RevFileInv
  <2>3. CASE IsFinish(m) /\ cmd_revfilefinsh(m)
    BY <2>0, <2>3, FinishInv
  <2>4. CASE reply' = NoReply /\ UNCHANGED <<memory, fs>>
    BY <2>4, AckTypes, RestInv
  <2>. QED BY <1>1, <2>1, <2>2, <2>3, <2>4 DEF onrecv
<1>2. CASE Move \/ SetTime
  BY <1>2, MoveInv, SetTimeInv
<1>3. CASE Restart
  BY <1>3, RestartInv
<1>4. CASE UNCHANGED srvVars
  BY <1>4, RestInv DEF srvVars, SrvInv, SrvTypeOK
<1>. QED BY <1>1, <1>2, <1>3, <1>4 DEF SrvNext

\* The receiver's globals and file system always agree (UploadTarget), no two
\* directory entries share an inode, and the types hold.
THEOREM SrvInvariant == SrvSpec => []SrvInv
<1>1. SrvInit => SrvInv
  BY InitInv
<1>2. SrvInv /\ [SrvNext]_srvVars => SrvInv'
  BY NextInv
<1>. QED BY <1>1, <1>2, PTL DEF SrvSpec

\* The type invariant the runs check, for every instance.
THEOREM SrvTypeCorrect == SrvSpec => []SrvTypeOK
BY SrvInvariant, PTL DEF SrvInv

\* No two directory entries share an inode.
THEOREM SrvLinksDistinct == SrvSpec => []LinksDistinct
BY SrvInvariant, PTL DEF SrvInv

\* The globals agree on the upload in progress.
THEOREM SrvUploadTarget == SrvSpec => []UploadTarget
BY SrvInvariant, PTL DEF SrvInv

-----------------------------------------------------------------------------
(* Action properties, from the same invariant.                             *)

\* Once the descriptors are used up and the last open() failed, nothing but a
\* restart gives one back and nothing verified is published.
THEOREM SrvExhausted == SrvSpec => ExhaustedForever
<1>. DEFINE A == nfds = FdLimit /\ fd.kind = "none" =>
                   \/ fd'.kind = "stdin"
                   \/ /\ nfds' = FdLimit /\ fd'.kind = "none"
                      /\ final' # final => Filemsg.md5 = ZeroMd5
<1>1. ASSUME SrvInv, [SrvNext]_srvVars PROVE A
  <2>. SUFFICES ASSUME nfds = FdLimit, fd.kind = "none"
                PROVE  \/ fd'.kind = "stdin"
                       \/ /\ nfds' = FdLimit /\ fd'.kind = "none"
                          /\ final' # final => Filemsg.md5 = ZeroMd5
    OBVIOUS
  <2>0. FdLimit \in Nat
    BY FdLimitAssumption
  <2>1. ASSUME NEW m \in Message_t, IsReq(m), cmd_reqsend_deel(m)
        PROVE  nfds' = FdLimit /\ fd'.kind = "none" /\ final' = final
    <3>1. FdsAfterDir(m.block.name) = FdLimit /\ OpenFails(m.block.name)
      BY <2>0 DEF FdsAfterDir, DirLeaks, OpenFails
    <3>. QED BY <2>1, <3>1 DEF cmd_reqsend_deel, ReqAccepted, ReqRefused, NoFd
  <2>2. ASSUME NEW m \in Message_t, IsData(m), cmd_revfile(m)
        PROVE  nfds' = FdLimit /\ fd'.kind = "none" /\ final' = final
    BY <2>2 DEF cmd_revfile, WriteFile, WriteStdin, WriteFails, NoFd
  <2>3. ASSUME NEW m \in Message_t, IsFinish(m), cmd_revfilefinsh(m)
        PROVE  nfds' = FdLimit /\ fd'.kind = "none" /\ final' = final
    BY <2>3 DEF cmd_revfilefinsh, fs
  <2>4. CASE Restart
    BY <2>4 DEF Restart, StdinFd
  <2>5. CASE UNCHANGED <<memory, fs>>
    BY <2>5 DEF memory, fs
  <2>6. CASE Move
    <3>1. MD5_file = ZeroMd5
      BY <2>0 DEF MD5_file, CanRead
    <3>. QED BY <1>1, <2>6, <3>1 DEF Move, SrvInv, FinishOK
  <2>7. CASE SetTime
    BY <2>7 DEF SetTime
  <2>. QED BY <1>1, <2>1, <2>2, <2>3, <2>4, <2>5, <2>6, <2>7
           DEF SrvNext, onrecv, srvVars
<1>. QED BY <1>1, SrvInvariant, PTL DEF SrvSpec, ExhaustedForever

\* What a write to the open file does, from the invariant.
LEMMA WriteEffect ==
  ASSUME NEW m \in Message_t, SrvInv, IsData(m), WriteFile(m)
  PROVE  /\ fd.kind = "file" /\ fd.ino \in Inode /\ fd.pos \in 0..Len(inode[fd.ino].bytes)
         /\ \E x \in Chunk :
              /\ inode'[fd.ino] = [bytes |-> Written(inode[fd.ino].bytes, fd.pos, x),
                                   mtime |-> NoStamp]
              /\ Len(Written(inode[fd.ino].bytes, fd.pos, x)) >= Len(inode[fd.ino].bytes)
         /\ \A i \in Inode : i # fd.ino => inode'[i] = inode[i]
<1>1. m.chunk \in Chunk /\ Torn \in Chunk
  BY MessageFields, TornAssumption
<1>2. /\ fd.kind = "file" /\ fd.ino \in Inode /\ fd.pos \in Nat
      /\ inode[fd.ino].bytes \in Seq(Chunk) /\ fd.pos <= Len(inode[fd.ino].bytes)
      /\ inode \in [Inode -> File]
  BY DEF WriteFile, SrvInv, FdValid, SrvTypeOK, Fd, File
<1>3. PICK x \in Chunk : inode' = [inode EXCEPT ![fd.ino] =
                 [bytes |-> Written(@.bytes, fd.pos, x), mtime |-> NoStamp]]
  BY <1>1 DEF WriteFile
<1>4. Len(Written(inode[fd.ino].bytes, fd.pos, x)) >= Len(inode[fd.ino].bytes)
  BY <1>2, WrittenLemma
<1>. QED BY <1>2, <1>3, <1>4

\* What a step may do to a .filepart
LeftoverKept(n) ==
  \/ /\ part'[n] = part[n]
     /\ Len(inode'[part[n]].bytes) >= Len(inode[part[n]].bytes)
  \/ /\ n = Filemsg.name /\ final'[n] = part[n]
     /\ \/ inode[part[n]].bytes = Filemsg.md5
        \/ Filemsg.md5 = ZeroMd5 /\ nfds = FdLimit

\* No step truncates a .filepart; a FINISH may publish it.
LEMMA LeftoverStep ==
  ASSUME SrvInv, [SrvNext]_srvVars, NEW n \in Name, part[n] # NoInode
  PROVE  LeftoverKept(n)
<1>. USE DEF LeftoverKept
<1>0. part[n] \in Inode /\ Len(inode[part[n]].bytes) \in Nat
  <2>1. part[n] \in Inode /\ inode[part[n]].bytes \in Seq(Chunk)
    BY DEF SrvInv, SrvTypeOK, File
  <2>. QED BY <2>1, LenProperties
<1>1. CASE UNCHANGED <<part, inode>>
  BY <1>0, <1>1
<1>2. ASSUME NEW m \in Message_t, IsReq(m), cmd_reqsend_deel(m) PROVE LeftoverKept(n)
  <2>1. CASE OpenNew(m.block.name)
    <3>1. PICK i \in Inode \ UsedInode :
            /\ part' = [part EXCEPT ![m.block.name] = i]
            /\ inode' = [inode EXCEPT ![i] = [bytes |-> <<>>, mtime |-> NoStamp]]
      BY <2>1 DEF OpenNew
    <3>2. part[n] # i /\ m.block.name # n
      BY <2>1 DEF UsedInode, OpenNew
    <3>3. part'[n] = part[n] /\ inode'[part[n]] = inode[part[n]]
      BY <1>0, <3>1, <3>2 DEF SrvInv, SrvTypeOK
    <3>. QED BY <1>0, <3>3
  <2>. QED BY <1>1, <1>2, <2>1 DEF cmd_reqsend_deel, ReqAccepted, ReqRefused, OpenOld
<1>3. ASSUME NEW m \in Message_t, IsData(m), cmd_revfile(m) PROVE LeftoverKept(n)
  <2>1. CASE WriteFile(m)
    <3>1. part' = part
      BY <1>3 DEF cmd_revfile
    <3>2. Len(inode'[part[n]].bytes) >= Len(inode[part[n]].bytes)
      <4>1. CASE part[n] = fd.ino
        <5>1. PICK x \in Chunk :
                /\ inode'[fd.ino] = [bytes |-> Written(inode[fd.ino].bytes, fd.pos, x),
                                     mtime |-> NoStamp]
                /\ Len(Written(inode[fd.ino].bytes, fd.pos, x)) >= Len(inode[fd.ino].bytes)
          BY <1>3, <2>1, WriteEffect
        <5>. QED BY <4>1, <5>1
      <4>2. CASE part[n] # fd.ino
        <5>1. inode'[part[n]] = inode[part[n]]
          BY <1>0, <1>3, <2>1, <4>2, WriteEffect
        <5>. QED BY <1>0, <5>1
      <4>. QED BY <4>1, <4>2
    <3>. QED BY <3>1, <3>2
  <2>2. CASE UNCHANGED inode
    BY <1>1, <1>3, <2>2 DEF cmd_revfile
  <2>. QED BY <1>3, <2>1, <2>2 DEF cmd_revfile, WriteStdin, WriteFails
<1>4. CASE Move
  <2>1. CASE UNCHANGED <<final, part>>
    BY <1>1, <1>4, <2>1 DEF Move
  <2>2. CASE mv
    <3>. DEFINE q == Filemsg.name
    <3>1. /\ file_path[1] = q /\ q \in Name
          /\ MD5_file # ZeroMd5 => MD5_file = inode[part[q]].bytes
          /\ MD5_file = ZeroMd5 => nfds = FdLimit
      BY <2>2, MovableLemma DEF mv
    <3>2. final' = [final EXCEPT ![q] = part[q]] /\ part' = [part EXCEPT ![q] = NoInode] /\ inode' = inode
      BY <1>4, <2>2, <3>1 DEF mv, Move
    <3>3. MD5_file = Filemsg.md5
      BY <1>4 DEF Move, SrvInv, FinishOK
    <3>4. CASE n = q
      <4>1. final'[n] = part[n]
        BY <3>1, <3>2, <3>4 DEF SrvInv, SrvTypeOK
      <4>. QED BY <3>1, <3>3, <3>4, <4>1
    <3>5. CASE n # q
      <4>1. part'[n] = part[n]
        BY <3>2, <3>5 DEF SrvInv, SrvTypeOK
      <4>. QED BY <1>0, <3>2, <4>1
    <3>. QED BY <3>4, <3>5
  <2>. QED BY <1>4, <2>1, <2>2 DEF Move
<1>5. CASE SetTime
  <2>1. part' = part /\ inode'[part[n]].bytes = inode[part[n]].bytes
    BY <1>0, <1>5, TimeEffect DEF SetTime
  <2>. QED BY <1>0, <2>1
<1>6. CASE UNCHANGED fs
  BY <1>1, <1>6 DEF fs
<1>. QED BY <1>2, <1>3, <1>4, <1>5, <1>6
         DEF SrvNext, onrecv, cmd_revfilefinsh, Restart, srvVars

\* What a failed upload left in a .filepart stays until exactly the announced
\* contents is found in it.
THEOREM SrvLeftoverStays == SrvSpec => LeftoverStays
<1>. DEFINE A == \A n \in Name : part[n] # NoInode => LeftoverKept(n)
<1>1. SrvInv /\ [SrvNext]_srvVars => A
  BY LeftoverStep
<1>2. A <=> \A n \in Name : part[n] # NoInode =>
              \/ /\ part'[n] = part[n]
                 /\ Len(inode'[part[n]].bytes) >= Len(inode[part[n]].bytes)
              \/ /\ n = Filemsg.name /\ final'[n] = part[n]
                 /\ \/ inode[part[n]].bytes = Filemsg.md5
                    \/ Filemsg.md5 = ZeroMd5 /\ nfds = FdLimit
  BY DEF LeftoverKept
<1>. HIDE DEF A
<1>. QED BY <1>1, <1>2, SrvInvariant, PTL DEF SrvSpec, LeftoverStays

-----------------------------------------------------------------------------
(* The receiver implements the abstract store.                             *)

\* What is published stays as it is when the entries do and no published inode is
\* written to.
LEMMA StoreKept ==
  ASSUME final' = final, \A n \in Name : final[n] # NoInode => inode'[final[n]] = inode[final[n]]
  PROVE  store' = store
BY DEF store

\* A request announces a file.
LEMMA RequestAnnounces ==
  ASSUME NEW m \in Message_t, SrvInv, finishing = "no", IsReq(m), cmd_reqsend_deel(m)
  PROVE  Store!Announce(m.block)
<1>1. m.block \in FileBlock_t
  BY MessageFields
<1>2. Filemsg' = m.block /\ final' = final /\ file_path' = Append(file_path, m.block.name)
  BY DEF cmd_reqsend_deel, AppendPaths
<1>3. file_path' # <<>>
  BY <1>1, <1>2 DEF SrvInv, SrvTypeOK, FileBlock_t
<1>4. \A n \in Name : final[n] # NoInode => inode'[final[n]] = inode[final[n]]
  <2>1. CASE UNCHANGED inode
    BY <2>1
  <2>2. CASE OpenNew(m.block.name)
    <3>1. PICK i \in Inode \ UsedInode :
            inode' = [inode EXCEPT ![i] = [bytes |-> <<>>, mtime |-> NoStamp]]
      BY <2>2 DEF OpenNew
    <3>2. \A n \in Name : final[n] # i
      BY DEF UsedInode
    <3>. QED BY <3>1, <3>2 DEF SrvInv, SrvTypeOK
  <2>. QED BY <2>1, <2>2 DEF cmd_reqsend_deel, ReqAccepted, ReqRefused, OpenOld
<1>5. phase # "closing" /\ phase' = "uploading"
  BY <1>3 DEF phase, cmd_reqsend_deel
<1>. QED BY <1>2, <1>4, <1>5, StoreKept DEF Store!Announce

\* A block written while an upload is in progress shows in no published file; one
\* written between two uploads may.
LEMMA WriteHiddenOrStray ==
  ASSUME NEW m \in Message_t, SrvInv, finishing = "no", IsData(m), cmd_revfile(m), WriteFile(m)
  PROVE  \/ UNCHANGED <<store, Filemsg, phase>>
         \/ \E n \in Name : Store!StrayBlock(n)
<1>1. Filemsg' = Filemsg /\ file_path' = file_path /\ final' = final /\ phase' = phase
  BY DEF cmd_revfile, WriteFile, phase
<1>2. CASE \A n \in Name : final[n] # fd.ino
  <2>1. \A n \in Name : final[n] # NoInode => inode'[final[n]] = inode[final[n]]
    BY <1>2, WriteEffect DEF SrvInv, SrvTypeOK
  <2>. QED BY <1>1, <2>1, StoreKept
<1>3. CASE \E n \in Name : final[n] = fd.ino
  <2>1. PICK n \in Name : final[n] = fd.ino
    BY <1>3
  <2>2. fd.kind = "file" /\ fd.ino \in Inode
    BY WriteEffect
  <2>3. file_path = <<>>
    <3>1. \A q \in Name : part[q] # fd.ino
      BY <2>1, <2>2, NoInodeAssumption DEF SrvInv, LinksDistinct
    <3>2. Len(file_path) # 1
      <4>1. SUFFICES ASSUME Len(file_path) = 1 PROVE FALSE
        OBVIOUS
      <4>2. file_path \in Seq(Name) /\ 1 \in 1..Len(file_path) /\ file_path # <<>>
        <5>1. file_path # <<>>
          BY <4>1
        <5>. QED BY <4>1, <5>1 DEF SrvInv, SrvTypeOK
      <4>3. file_path[1] \in Name
        BY <4>2, ElementOfSeq
      <4>4. Filemsg.name = file_path[1]
        BY <4>1, <4>2 DEF SrvInv, UploadTarget
      <4>5. part[Filemsg.name] = fd.ino
        BY <2>2, <4>1 DEF SrvInv, UploadTarget
      <4>. QED BY <3>1, <4>3, <4>4, <4>5
    <3>3. ~(Len(file_path) > 1)
      BY <2>2 DEF SrvInv, UploadTarget
    <3>4. file_path \in Seq(Name)
      BY DEF SrvInv, SrvTypeOK
    <3>5. SUFFICES ASSUME file_path # <<>> PROVE FALSE
      OBVIOUS
    <3>6. PICK k \in Nat : k = Len(file_path) /\ k # 0
      BY <3>4, <3>5, EmptySeq
    <3>. QED BY <3>2, <3>3, <3>6
  <2>4. store[n] = {inode[fd.ino]}
    BY <2>1, <2>2, NoInodeAssumption DEF store
  <2>5. PICK x \in Chunk :
          inode'[fd.ino] = [bytes |-> Written(inode[fd.ino].bytes, fd.pos, x), mtime |-> NoStamp]
    BY WriteEffect
  <2>6. \A q \in Name : q # n /\ final[q] # NoInode => inode'[final[q]] = inode[final[q]]
    BY <2>1, WriteEffect DEF SrvInv, SrvTypeOK, LinksDistinct
  <2>7. store' = [store EXCEPT ![n] = {inode'[fd.ino]}]
    BY <1>1, <2>1, <2>2, <2>6, NoInodeAssumption DEF store
  <2>8. fd.pos \in 0..Len(inode[fd.ino].bytes)
    BY WriteEffect
  <2>9. Store!StrayBlock(n)
    BY <1>1, <2>3, <2>4, <2>5, <2>7, <2>8 DEF Store!StrayBlock, Written, Store!Written, phase
  <2>. QED BY <2>9
<1>. QED BY <1>2, <1>3

\* A FINISH gives up, or changes nothing yet.
LEMMA FinishGivesUp ==
  ASSUME NEW m \in Message_t, SrvInv, finishing = "no", IsFinish(m), cmd_revfilefinsh(m)
  PROVE  store' = store /\ (Store!GiveUp \/ UNCHANGED <<store, Filemsg, phase>>)
<1>1. Filemsg' = Filemsg /\ store' = store
  BY StoreKept DEF cmd_revfilefinsh, fs
<1>2. CASE ClearPaths /\ finishing' = "no"
  <2>1. phase' = "idle" /\ phase \in {"idle", "uploading"}
    BY <1>2 DEF ClearPaths, phase
  <2>. QED BY <1>1, <2>1 DEF Store!GiveUp
<1>3. CASE finishing' = "mv" /\ file_path' = file_path
  <2>1. phase' = phase
    BY <1>3 DEF phase
  <2>. QED BY <1>1, <2>1
<1>. QED BY <1>2, <1>3 DEF cmd_revfilefinsh

\* "mv" publishes what was announced, or fails.
LEMMA MoveCommits ==
  ASSUME SrvInv, Move
  PROVE  \/ mv /\ (Store!Commit \/ Store!CommitBlind)
         \/ store' = store /\ (Store!CommitFails \/ UNCHANGED <<store, Filemsg, phase>>)
<1>1. /\ Filemsg' = Filemsg /\ file_path' = file_path /\ inode' = inode /\ finishing' = "utime"
      /\ finishing = "mv" /\ MD5_file = Filemsg.md5
  BY DEF Move, SrvInv, FinishOK
<1>2. CASE UNCHANGED <<final, part>>
  <2>1. store' = store
    BY <1>1, <1>2, StoreKept
  <2>2. CASE file_path # <<>> /\ Len(file_path) = 1
    <3>1. phase = "uploading" /\ phase' = "closing"
      BY <1>1, <2>2 DEF phase
    <3>. QED BY <1>1, <2>1, <3>1 DEF Store!CommitFails, Store!Close
  <2>3. CASE file_path = <<>> \/ Len(file_path) # 1
    <3>1. phase' = phase
      BY <1>1, <2>3 DEF phase
    <3>. QED BY <1>1, <2>1, <3>1
  <2>. QED BY <2>2, <2>3
<1>3. CASE mv
  <2>. DEFINE n == Filemsg.name
  <2>1. /\ file_path # <<>> /\ file_path[1] = n /\ n \in Name /\ part[n] \in Inode
        /\ MD5_file # ZeroMd5 => MD5_file = inode[part[n]].bytes
    BY <1>3, MovableLemma DEF mv
  <2>2. final' = [final EXCEPT ![n] = part[n]] /\ Len(file_path) = 1
    BY <1>3, <2>1 DEF mv, Movable
  <2>3. Store!Close
    <3>1. phase = "uploading" /\ phase' = "closing"
      BY <1>1, <2>1, <2>2 DEF phase
    <3>. QED BY <1>1, <3>1 DEF Store!Close
  <2>4. \A q \in Name : q # n => store'[q] = store[q]
    BY <1>1, <2>1, <2>2 DEF store, SrvInv, SrvTypeOK
  <2>5. store'[n] = {inode[part[n]]}
    BY <1>1, <2>1, <2>2, NoInodeAssumption DEF store, SrvInv, SrvTypeOK
  <2>6. CASE Filemsg.md5 = ZeroMd5
    BY <1>3, <2>3, <2>4, <2>6 DEF Store!CommitBlind
  <2>7. CASE Filemsg.md5 # ZeroMd5
    <3>1. inode[part[n]] \in File /\ inode[part[n]].mtime = NoStamp
      BY <2>1, NoInodeAssumption DEF SrvInv, SrvTypeOK, FinishOK
    <3>2. inode[part[n]].bytes = Filemsg.md5
      BY <1>1, <2>1, <2>7
    <3>3. inode[part[n]] = [bytes |-> Filemsg.md5, mtime |-> NoStamp]
      BY <3>1, <3>2 DEF File
    <3>4. store' = [store EXCEPT ![n] = {[bytes |-> Filemsg.md5, mtime |-> NoStamp]}]
      BY <2>1, <2>4, <2>5, <3>3 DEF store
    <3>. QED BY <1>3, <2>3, <2>7, <3>4 DEF Store!Commit
  <2>. QED BY <2>6, <2>7
<1>. QED BY <1>2, <1>3 DEF Move

\* utime gives what is published under the announced name its time.
LEMMA TimeSets ==
  ASSUME SrvInv, SetTime
  PROVE  Store!SetTime \/ Store!GiveUp \/ UNCHANGED <<store, Filemsg, phase>>
<1>1. /\ Filemsg' = Filemsg /\ file_path' = <<>> /\ final' = final /\ finishing = "utime" /\ utime
      /\ phase' = "idle"
  BY DEF SetTime, ClearPaths, phase
<1>2. file_path \in Seq(Name) /\ inode \in [Inode -> File] /\ final \in [Name -> Inode \cup {NoInode}]
  BY DEF SrvInv, SrvTypeOK
<1>3. CASE Len(file_path) = 1
  <2>. DEFINE n == Filemsg.name
  <2>1. phase = "closing" /\ file_path # <<>>
    <3>1. file_path # <<>>
      BY <1>3
    <3>. QED BY <1>1, <1>3, <3>1 DEF phase
  <2>2. file_path[1] = n /\ n \in Name
    <3>1. 1 \in 1..Len(file_path)
      BY <1>3
    <3>2. file_path[1] \in Name
      BY <1>2, <3>1, ElementOfSeq
    <3>. QED BY <1>3, <2>1, <3>2 DEF SrvInv, UploadTarget
  <2>. DEFINE timed == [store EXCEPT ![n] = {[f EXCEPT !.mtime = Filemsg.timestamp] : f \in store[n]}]
  <2>3. CASE final[n] = NoInode
    <3>1. inode' = inode
      BY <1>1, <2>2, <2>3 DEF utime
    <3>2. store' = store
      BY <1>1, <3>1, StoreKept
    <3>3. store[n] = {}
      BY <2>2, <2>3 DEF store
    <3>4. timed = store
      BY <2>2, <3>3 DEF store
    <3>. QED BY <1>1, <2>1, <3>2, <3>4 DEF Store!SetTime
  <2>4. CASE final[n] # NoInode
    <3>1. inode' = [inode EXCEPT ![final[n]].mtime = Filemsg.timestamp] /\ final[n] \in Inode
      BY <1>1, <1>2, <1>3, <2>2, <2>4 DEF utime
    <3>2. inode'[final[n]] = [inode[final[n]] EXCEPT !.mtime = Filemsg.timestamp]
      BY <1>2, <3>1
    <3>3. \A q \in Name : q # n => store'[q] = store[q]
      <4>1. ASSUME NEW q \in Name, q # n, final[q] # NoInode PROVE inode'[final[q]] = inode[final[q]]
        <5>1. final[q] # final[n] /\ final[q] \in Inode
          BY <1>2, <2>2, <4>1 DEF SrvInv, LinksDistinct
        <5>. QED BY <1>2, <3>1, <5>1
      <4>. QED BY <1>1, <4>1 DEF store
    <3>4. store[n] = {inode[final[n]]} /\ store'[n] = {inode'[final[n]]}
      BY <1>1, <2>2, <2>4 DEF store
    <3>5. store'[n] = {[f EXCEPT !.mtime = Filemsg.timestamp] : f \in store[n]}
      BY <3>2, <3>4
    <3>6. store' = timed
      BY <2>2, <3>3, <3>5 DEF store
    <3>. QED BY <1>1, <2>1, <3>6 DEF Store!SetTime
  <2>. QED BY <2>3, <2>4
<1>4. CASE Len(file_path) # 1
  <2>1. store' = store
    <3>1. inode' = inode
      BY <1>1, <1>4 DEF utime
    <3>. QED BY <1>1, <3>1, StoreKept
  <2>2. phase \in {"idle", "uploading"}
    BY <1>4 DEF phase
  <2>. QED BY <1>1, <2>1, <2>2 DEF Store!GiveUp
<1>. QED BY <1>3, <1>4

\* The receiver implements the abstract store, whatever it is sent, and wherever in
\* cmd_revfilefinsh it is killed (udp-server.c:130-237).
THEOREM SrvImplementsStore == SrvSpec => StoreSpec
<1>1. SrvInit => Store!Init
  BY DEF SrvInit, Store!Init, store, phase, ZeroFileBlock, Store!ZeroFileBlock
<1>2. SrvInv /\ [SrvNext]_srvVars => [Store!Next]_<<store, Filemsg, phase>>
  <2>. SUFFICES ASSUME SrvInv, [SrvNext]_srvVars
                PROVE  Store!Next \/ UNCHANGED <<store, Filemsg, phase>>
    OBVIOUS
  <2>1. ASSUME NEW m \in Message_t, finishing = "no", IsReq(m), cmd_reqsend_deel(m) PROVE Store!Next
    <3>1. Store!Announce(m.block) /\ m.block \in FileBlock_t
      BY <2>1, RequestAnnounces, MessageFields
    <3>2. FileBlock_t = Store!FileBlock_t
      BY DEF FileBlock_t, Store!FileBlock_t, Md5, Store!Md5
    <3>. QED BY <3>1, <3>2 DEF Store!Next
  <2>2. ASSUME NEW m \in Message_t, finishing = "no", IsData(m), cmd_revfile(m)
        PROVE  Store!Next \/ UNCHANGED <<store, Filemsg, phase>>
    <3>1. CASE WriteFile(m)
      BY <2>2, <3>1, WriteHiddenOrStray DEF Store!Next
    <3>2. CASE WriteStdin(m)
      BY <2>2, <3>2, StoreKept DEF cmd_revfile, WriteStdin, phase
    <3>3. CASE WriteFails(m)
      <4>1. store' = store /\ Filemsg' = Filemsg
        BY <2>2, <3>3, StoreKept DEF cmd_revfile, WriteFails
      <4>2. phase' = "idle" /\ phase \in {"idle", "uploading"}
        BY <2>2, <3>3 DEF WriteFails, ClearPaths, phase
      <4>. QED BY <4>1, <4>2 DEF Store!Next, Store!GiveUp
    <3>. QED BY <2>2, <3>1, <3>2, <3>3 DEF cmd_revfile
  <2>3. ASSUME NEW m \in Message_t, finishing = "no", IsFinish(m), cmd_revfilefinsh(m)
        PROVE  Store!Next \/ UNCHANGED <<store, Filemsg, phase>>
    BY <2>3, FinishGivesUp DEF Store!Next
  <2>4. CASE Move \/ SetTime
    BY <2>4, MoveCommits, TimeSets DEF Store!Next
  <2>5. CASE Restart
    <3>1. store' = store
      BY <2>5, StoreKept DEF Restart, fs
    <3>. QED BY <2>5, <3>1 DEF Restart, ClearPaths, phase, Store!Next, Store!Forget, ZeroFileBlock, Store!ZeroFileBlock
  <2>6. CASE UNCHANGED <<memory, fs>>
    BY <2>6, StoreKept DEF memory, fs, phase
  <2>. QED BY <2>1, <2>2, <2>3, <2>4, <2>5, <2>6 DEF SrvNext, onrecv, srvVars
<1>. QED BY <1>1, <1>2, SrvInvariant, PTL DEF SrvSpec, StoreSpec, Store!Spec
=============================================================================
