----------------------------- MODULE SemCounter ------------------------------
(***************************************************************************)
(* The two-thread word counter (sem/sem.c): main scans a word into buf and *)
(* posts sem, the child reports strlen(buf) and clears it.  Nothing stops  *)
(* main from scanning the next word while the child is still at work, so   *)
(* scanf stores its characters one by one.  At the end of the input scanf  *)
(* returns -1, which the loop takes for a word: main goes on posting.      *)
(***************************************************************************)
EXTENDS Naturals, Sequences, SequencesExt

CONSTANTS Words,     \* the words a user types, sequences of characters
          BufSize,   \* cells of buf (100 in the code), NUL included
          MaxWords,  \* words typed in a behaviour
          SemMax,    \* SEM_VALUE_MAX: sem_post fails, unnoticed, beyond it
          MaxCounts  \* lengths reported in a behaviour

End == <<"e", "n", "d">>
NUL == "nul"

ASSUME BufAssumption ==
  BufSize \in Nat /\ BufSize > Len(End) /\ \A w \in Words : w \in Seq(STRING \ {NUL}) /\ Len(w) < BufSize
ASSUME MaxWordsAssumption == MaxWords \in Nat /\ SemMax \in Nat \ {0} /\ MaxCounts \in Nat

VARIABLES buf, sem, flag,
          pc,        \* main: scan, store, compare, gone
          left,      \* what scanf has still to store, its NUL included
          child,     \* child: wait, report, clear
          typed,     \* the words scanned so far
          counts,    \* the lengths reported so far
          eof,       \* the input has come to its end
          hasty      \* a word was typed before the last one was counted

semVars == <<buf, sem, flag, pc, left, child, typed, counts, eof, hasty>>

\* Mutant of SemInit: sem_init(&sem, 0, 1)
InitPosted ==
  /\ buf = [i \in 1..BufSize |-> NUL]
  /\ sem = 1 /\ flag = 0 /\ pc = "scan" /\ left = <<>> /\ child = "wait"
  /\ typed = <<>> /\ counts = <<>> /\ eof = FALSE /\ hasty = FALSE

SemInit ==
  /\ buf = [i \in 1..BufSize |-> NUL]
  /\ sem = 0 /\ flag = 0
  /\ pc = "scan" /\ left = <<>>
  /\ child = "wait"
  /\ typed = <<>> /\ counts = <<>> /\ eof = FALSE /\ hasty = FALSE

strlen == CHOOSE n \in 0..BufSize :
            /\ n < BufSize => buf[n + 1] = NUL
            /\ \A i \in 1..n : buf[i] # NUL

-----------------------------------------------------------------------------
(* main.                                                                   *)

\* A word arrives on the terminal
Type(w) ==
  /\ pc = "scan" /\ ~eof /\ Len(typed) < MaxWords
  /\ hasty' = (hasty \/ child # "wait" \/ sem > 0)
  /\ typed' = Append(typed, w)
  /\ left' = Append(w, NUL)
  /\ pc' = "store"
  /\ UNCHANGED <<buf, sem, flag, child, counts, eof>>

\* scanf stores the next character, and goes on to the test after the NUL
Store ==
  /\ pc = "store"
  /\ buf' = [buf EXCEPT ![Len(Last(typed)) + 2 - Len(left)] = Head(left)]
  /\ left' = Tail(left)
  /\ pc' = IF Len(left) = 1 THEN "compare" ELSE "store"
  /\ UNCHANGED <<sem, flag, child, typed, counts, eof, hasty>>

\* The input is at its end: scanf stores nothing and returns -1, again at every call
EndOfInput ==
  /\ pc = "scan"
  /\ eof' = TRUE
  /\ pc' = "compare"
  /\ UNCHANGED <<buf, sem, flag, left, child, typed, counts, hasty>>

\* Mutant of IsEnd: as if scanf left the newline in buf
IsEndLine == SubSeq(buf, 1, 4) = Append(End, "newline")

\* strncmp(buf, "end", 3)
IsEnd == SubSeq(buf, 1, 3) = End

sem_post == sem' = IF sem < SemMax THEN sem + 1 ELSE sem

\* "flag==1" is a comparison, not an assignment; main leaves its loop and returns
Ends ==
  /\ pc = "compare" /\ IsEnd
  /\ sem_post
  /\ pc' = "gone"
  /\ UNCHANGED <<buf, flag, left, child, typed, counts, eof, hasty>>

Counts ==
  /\ pc = "compare" /\ ~IsEnd
  /\ sem_post
  /\ pc' = "scan"
  /\ UNCHANGED <<buf, flag, left, child, typed, counts, eof, hasty>>

\* return 0 ends the process, the child with it, whatever the child was doing
Exit ==
  /\ pc = "gone" /\ child # "ended"
  /\ child' = "ended"
  /\ UNCHANGED <<buf, sem, flag, pc, left, typed, counts, eof, hasty>>

-----------------------------------------------------------------------------
(* func.                                                                   *)

sem_wait ==
  /\ child = "wait" /\ sem > 0
  /\ sem' = sem - 1
  /\ child' = IF flag = 0 THEN "report" ELSE "ended"
  /\ UNCHANGED <<buf, flag, pc, left, typed, counts, eof, hasty>>

Report ==
  /\ child = "report" /\ Len(counts) < MaxCounts
  /\ counts' = Append(counts, strlen)
  /\ child' = "clear"
  /\ UNCHANGED <<buf, sem, flag, pc, left, typed, eof, hasty>>

Clear ==
  /\ child = "clear"
  /\ buf' = [i \in 1..BufSize |-> NUL]
  /\ child' = "wait"
  /\ UNCHANGED <<sem, flag, pc, left, typed, counts, eof, hasty>>

SemNext ==
  \/ \E w \in Words : Type(w)
  \/ EndOfInput
  \/ Store \/ Ends \/ Counts \/ Exit
  \/ sem_wait \/ Report \/ Clear

SemSpec == SemInit /\ [][SemNext]_semVars

-----------------------------------------------------------------------------
\* "Counts the characters and shows them" (sem.c:1): for a user who waits for each
\* answer, the lengths shown are those of the words typed, in order.  However fast the user,
\* a length that no word was typed for is shown or due only after the end of the input,
\* where the loop (sem.c:42) goes on posting and the child shows the length of a cleared buf.
CountsMatch ==
  /\ ~eof => Len(counts) + sem <= Len(typed)
  /\ ~hasty => \A k \in 1..Len(counts) :
                 counts[k] = IF k <= Len(typed) THEN Len(typed[k]) ELSE 0

\* "If it is end, quit" (sem.c:44): for that user the word "end" is never taken for one to
\* be counted, though the child clears buf (sem.c:22) behind main's back, and the end of the
\* input, where buf is compared again (sem.c:45), is not taken for the word.
EndRecognised ==
  ~hasty => /\ pc = "scan" => \A k \in 1..Len(typed) : typed[k] # End
            /\ pc = "gone" => ~eof /\ IsPrefix(End, Last(typed))

\* "If it is not [end], go on" (sem.c:44, and "end" alone at sem.c:1): main quits only
\* after the word "end" (for a user who waits for each answer).
OnlyEndEnds == pc = "gone" /\ ~hasty => Last(typed) = End
=============================================================================
