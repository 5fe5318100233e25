------------------------------- MODULE NetFile -------------------------------
(***************************************************************************)
(* The wire format that the UDP file sender and receiver share             *)
(* (filesend/udpfilesend/net_file.h): commands, message types, the         *)
(* description of a file (FileBlock_t) and a message (Message_t).          *)
(*                                                                         *)
(* A 4096 byte block of file data is a model value, the contents of a file *)
(* is the sequence of its blocks, and an MD5 digest is the contents it was *)
(* computed from: the digest is taken to be collision free.  ZeroMd5 is    *)
(* the all-zero digest that MD5_file leaves behind when it cannot open the *)
(* file.                                                                   *)
(***************************************************************************)
EXTENDS Naturals, Sequences

CONSTANTS Name,      \* file names a sender may announce
          NoName,    \* the empty file name of a cleared FileBlock_t
          Chunk,     \* blocks of file data
          Content,   \* contents of the files that exist at the senders
          ZeroMd5,   \* sixteen zero bytes
          Stamp,     \* modification times a sender may announce
          NoStamp    \* time_t -1 or 0: no modification time

ASSUME ContentAssumption == Content \subseteq Seq(Chunk)
ASSUME ZeroMd5Assumption == ZeroMd5 \notin Seq(Chunk)
ASSUME NoNameAssumption == NoName \notin Name
ASSUME NoStampAssumption == NoStamp \notin Stamp

\* enum Command; "ZERO" is the cmd field of a buffer that was cleared
CMD_SEND_FILEMSG_REQ == "FILEMSG_REQ"
CMD_SEND_FILE        == "FILE"
CMD_SEND_FINISH      == "FINISH"
Command == {CMD_SEND_FILEMSG_REQ, CMD_SEND_FILE, CMD_SEND_FINISH}

\* enum Type: REQ_NOR is 0, the type field of a buffer that was cleared
REQ_NOR  == "REQ_NOR"
ACK_OK   == "ACK_OK"
ACK_FAIL == "ACK_FAIL"
ACK_NOSP == "ACK_NOSP"
REQ_NORE == "REQ_NORE"
Type == {REQ_NOR, ACK_OK, ACK_FAIL, ACK_NOSP, REQ_NORE}

Md5 == Content \cup {ZeroMd5}

\* FileBlock_t; file_length is only printed and is left out
FileBlock_t == [name : Name, md5 : Md5, timestamp : Stamp \cup {NoStamp}]
ZeroFileBlock == [name |-> NoName, md5 |-> ZeroMd5, timestamp |-> NoStamp]

\* Message_t: buf holds a FileBlock_t, file data or nothing
Message_t == [cmd : {CMD_SEND_FILEMSG_REQ}, type : Type, block : FileBlock_t]
        \cup [cmd : {CMD_SEND_FILE}, type : Type, chunk : Chunk]
        \cup [cmd : {CMD_SEND_FINISH}, type : Type]

\* The 8 byte header (MESG_HEAD_LEN) that every answer consists of
MsgHead == [cmd : Command \cup {"ZERO"}, type : Type]
ZeroHead == [cmd |-> "ZERO", type |-> REQ_NOR]
Reply(m, type) == [cmd |-> m.cmd, type |-> type]
\* A stored file, and the effect of write() at offset pos: over what is there, or
\* at the end of the file
File == [bytes : Seq(Chunk), mtime : Stamp \cup {NoStamp}]
Written(bytes, pos, x) ==
  IF pos < Len(bytes) THEN [bytes EXCEPT ![pos + 1] = x] ELSE Append(bytes, x)
=============================================================================
