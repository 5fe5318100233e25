---------------------------- MODULE FilelistData -----------------------------
(***************************************************************************)
(* The list of files to upload (filelist/filelist_data.cpp): a vector with *)
(* a handed-out flag per entry, and a file of fixed-size records that is   *)
(* rewritten whole (fopen "wb", then fwrite and fclose) after each change, *)
(* and read back when the program starts.  The process may die at any      *)
(* point of a rewrite, or a write may fail, which the code does not test;  *)
(* stdio writes Block records at a time.                                   *)
(***************************************************************************)
EXTENDS Naturals, Sequences, SequencesExt

CONSTANTS Paths,       \* the file names, all shorter than MAXLEN
          Block,       \* records stdio writes at a time (4096 / MAXLEN in the code)
          MaxEntries   \* entries the list grows to

ASSUME BlockAssumption == Block \in Nat \ {0} /\ MaxEntries \in Nat

VARIABLES Filevect,    \* entries [flag, data]
          file,        \* the records of FILELISTNAME
          unwritten,   \* what write_to_File has still to write, or could not write
          writing,     \* write_to_File is running
          short        \* history: a write of the last rewrite failed

listVars == <<Filevect, file, unwritten, writing, short>>

Entry == [flag : {0, 1}, data : Paths]
Data(v) == [k \in 1..Len(v) |-> v[k].data]

\* What readFilevect makes of the records of the file
readFilevect == [k \in 1..Len(file) |-> [flag |-> 0, data |-> file[k]]]

ListInit ==
  /\ file = <<>>
  /\ Filevect = <<>>
  /\ unwritten = <<>> /\ writing = FALSE /\ short = FALSE

-----------------------------------------------------------------------------
\* The operations end with write_to_File; fopen has truncated the file when it begins.  If
\* fopen fails fwrite gets NULL and the program dies with the file as it was, as in Restart
write_to_File ==
  /\ writing' = TRUE /\ short' = FALSE
  /\ file' = <<>>
  /\ unwritten' = Data(Filevect')

\* A full buffer, or fclose
Flush ==
  /\ writing
  /\ LET n == IF Len(unwritten) < Block THEN Len(unwritten) ELSE Block IN
       /\ file' = file \o SubSeq(unwritten, 1, n)
       /\ unwritten' = SubSeq(unwritten, n + 1, Len(unwritten))
       /\ writing' = (n < Len(unwritten))
  /\ UNCHANGED <<Filevect, short>>

\* The disk is full: fwrite or fclose fails, and the list goes on as if it were written
FlushFails ==
  /\ writing /\ writing' = FALSE /\ unwritten # <<>>
  /\ short' = TRUE
  /\ UNCHANGED <<Filevect, file, unwritten>>

\* Mutant of set_data_writefile: the file is not rewritten
set_data_only(data) ==
  /\ ~writing /\ Len(Filevect) < MaxEntries
  /\ Filevect' = Append(Filevect, [flag |-> 0, data |-> data])
  /\ UNCHANGED <<file, unwritten, writing, short>>

set_data_writefile(data) ==
  /\ ~writing /\ Len(Filevect) < MaxEntries
  /\ Filevect' = Append(Filevect, [flag |-> 0, data |-> data])
  /\ write_to_File

Fresh == {k \in 1..Len(Filevect) : Filevect[k].flag = 0}
IsFirst(k, S) == k \in S /\ \A j \in S : k <= j

\* Mutant of get_data: the last entry that has not been handed out
get_data_last ==
  /\ ~writing /\ Fresh # {}
  /\ Filevect' = [Filevect EXCEPT ![CHOOSE k \in Fresh : \A j \in Fresh : j <= k].flag = 1]
  /\ UNCHANGED <<file, unwritten, writing, short>>

\* Hands out the first entry that has not been handed out
get_data ==
  /\ ~writing
  /\ \E k \in Fresh : IsFirst(k, Fresh) /\ Filevect' = [Filevect EXCEPT ![k].flag = 1]
  /\ UNCHANGED <<file, unwritten, writing, short>>

Matching(data) == {k \in 1..Len(Filevect) : Filevect[k].data = data}

\* Erases the first entry for data, if there is one
clear_data(data) ==
  \/ Matching(data) = {} /\ Filevect' = Filevect
  \/ \E k \in Matching(data) :
       IsFirst(k, Matching(data)) /\ Filevect' = RemoveAt(Filevect, k)

clear_data_writefile(data) ==
  /\ ~writing
  /\ clear_data(data)
  /\ write_to_File

\* The program dies and starts again
Restart ==
  /\ Filevect' = readFilevect
  /\ unwritten' = <<>> /\ writing' = FALSE /\ short' = FALSE
  /\ UNCHANGED file

ListNext ==
  \/ Flush \/ FlushFails \/ get_data \/ Restart
  \/ \E data \in Paths : set_data_writefile(data) \/ clear_data_writefile(data)

ListSpec == ListInit /\ [][ListNext]_listVars

-----------------------------------------------------------------------------
\* At every point of a rewrite (filelist_data.cpp:52-58), also of one that a failing fwrite
\* or fclose cut short, the file is the beginning of the list in memory, and what is not
\* written is the rest; when no rewrite is running and none of its writes failed the file is
\* the list, so that a restart then loses nothing.  A restart in the middle of a rewrite, or
\* after one that failed, may lose the tail of the list, but never brings back an entry that
\* was cleared.
FileIsList ==
  /\ file \o unwritten = Data(Filevect)
  /\ ~writing /\ ~short => unwritten = <<>>

\* The entries that were handed out are the first ones, whatever was cleared in between:
\* so of several entries for one path the one that clear_data erases
\* (filelist_data.cpp:102-114) was handed out if any of them was.
HandedFirst ==
  \A i, j \in 1..Len(Filevect) : i < j /\ Filevect[j].flag = 1 => Filevect[i].flag = 1
=============================================================================
