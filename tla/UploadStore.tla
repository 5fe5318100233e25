----------------------------- MODULE UploadStore -----------------------------
(***************************************************************************)
(* What the receiving side of the file transfer promises a reader of /mnt: *)
(* a file is announced, and either appears at once with the announced      *)
(* contents or does not appear; its modification time follows in a second  *)
(* step.  The escapes that the code has are part of the promise: the file  *)
(* may fail to appear, and then the time goes to the one published before; *)
(* an announcement with the zero digest (the sender could not read its own *)
(* file) may publish anything; and between two uploads a stray block may   *)
(* be written into a file that is already published.                       *)
(***************************************************************************)
EXTENDS NetFile

VARIABLES store,      \* per name, the set of at most one published File
          announced,  \* the FileBlock_t announced last
          phase       \* "idle", "uploading", or "closing": the time is to be set

Init ==
  /\ store = [n \in Name |-> {}]
  /\ announced = ZeroFileBlock
  /\ phase = "idle"

Announce(b) ==
  /\ phase # "closing"
  /\ announced' = b /\ phase' = "uploading" /\ UNCHANGED store

GiveUp == phase = "uploading" /\ phase' = "idle" /\ UNCHANGED <<store, announced>>

Close == phase = "uploading" /\ phase' = "closing" /\ UNCHANGED announced

\* The announced contents appear under the announced name
Commit ==
  /\ Close /\ announced.md5 # ZeroMd5
  /\ store' = [store EXCEPT ![announced.name] = {[bytes |-> announced.md5, mtime |-> NoStamp]}]

\* Nothing was announced that the contents could be checked against
CommitBlind ==
  /\ Close /\ announced.md5 = ZeroMd5
  /\ \A n \in Name : n # announced.name => store'[n] = store[n]

CommitFails == Close /\ UNCHANGED store

\* What is published under the announced name gets the announced time
SetTime ==
  /\ phase = "closing" /\ phase' = "idle"
  /\ store' = [store EXCEPT ![announced.name] =
                 {[f EXCEPT !.mtime = announced.timestamp] : f \in @}]
  /\ UNCHANGED announced

\* A block lands in a published file after its upload ended
StrayBlock(n) ==
  /\ phase = "idle"
  /\ \E f \in store[n], x \in Chunk : \E pos \in 0..Len(f.bytes) :
       store' = [store EXCEPT ![n] =
                   {[bytes |-> Written(f.bytes, pos, x), mtime |-> NoStamp]}]
  /\ UNCHANGED <<announced, phase>>

Forget == announced' = ZeroFileBlock /\ phase' = "idle" /\ UNCHANGED store

Next ==
  \/ \E b \in FileBlock_t : Announce(b)
  \/ GiveUp \/ Commit \/ CommitBlind \/ CommitFails \/ SetTime \/ Forget
  \/ \E n \in Name : StrayBlock(n)

Spec == Init /\ [][Next]_<<store, announced, phase>>
=============================================================================
