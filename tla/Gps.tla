--------------------------------- MODULE Gps ---------------------------------
(***************************************************************************)
(* The GPS reader (gps/gps.cpp): a thread reads NMEA sentences from a      *)
(* serial line character by character and keeps is_positioning_; a caller  *)
(* waits in WaitPositioningComplete, which tests the flag before it takes  *)
(* the mutex and waits once, while the thread signals without the mutex.   *)
(*                                                                         *)
(* A sentence is a sequence of symbols: "," and words that stand for runs  *)
(* of characters ("RMC" for $GNRMC).  read returns 0 when the line was     *)
(* silent for three seconds (VTIME 30, VMIN 0); ch then still holds the    *)
(* character before, which is taken for a new one: a doubled word is a     *)
(* word with its last character doubled, and no longer that word.          *)
(***************************************************************************)
EXTENDS Integers, Sequences, SequencesExt

CONSTANTS Sentences,   \* what the receiver sends: [said, text], the status (A, V or no)
                       \* it means to tell and its symbols without the line end
          MaxSent,     \* sentences in a behaviour
          MaxPauses,   \* silences of three seconds
          MaxWaits     \* calls of WaitPositioningComplete

EOL == "\n"

\* A sentence that tells a status is $GNRMC, a field without a status (the time), the status and
\* more fields perhaps; the others are not $GNRMC
RMC(said, text) ==
  \E q \in 3..(Len(text) - 1) :
    /\ text[1] = "RMC" /\ text[2] = "," /\ text[q] = "," /\ text[q + 1] = said
    /\ \A i \in 3..(q - 1) : text[i] \notin {",", "A", "V"}
    /\ Len(text) > q + 1 => text[q + 2] = ","

ASSUME SentenceAssumption ==
  \A s \in Sentences :
    /\ s.text \in Seq(Range(s.text)) /\ EOL \notin Range(s.text)
    /\ \/ s.said \in {"A", "V"} /\ RMC(s.said, s.text)
       \/ s.said = "no" /\ s.text # <<>> /\ s.text[1] # "RMC"

VARIABLES is_positioning_,
          wire,        \* what is still to come of the sentence being sent, its line end too
          ch, line,    \* locals of GPSReceiveThread
          reader,      \* off: open failed; read; signal: at pthread_cond_signal
          waiter,      \* idle; lock: has seen no fix; wait: in timedwait; woken
          result,      \* of the last call
          sky,         \* history of the sentences, see GpsInit
          call         \* history of the last call: the fixes before it, and in the end during it

gpsVars == <<is_positioning_, wire, ch, line, reader, waiter, result, sky, call>>

\* The flag is never initialised, nor is ch: a stray character at first.
\* sky: said is the status of the sentence on its way and hurt that it paused; may holds
\* what the flag may be, given the sentences; fixes and damaged count the sentences that
\* reported a fix, whole and with a pause
GpsInit ==
  /\ is_positioning_ \in BOOLEAN
  /\ wire = <<>> /\ ch = "stray" /\ line = <<>>
  /\ reader \in {"off", "read"}
  /\ waiter = "idle" /\ result = "none"
  /\ sky = [said |-> "no", hurt |-> FALSE, may |-> {is_positioning_}, start |-> is_positioning_,
            fixes |-> 0, damaged |-> 0, sent |-> 0, pauses |-> 0]
  /\ call = [waits |-> 0, fixes |-> 0, window |-> FALSE, late |-> FALSE, unasked |-> FALSE]

-----------------------------------------------------------------------------
(* GPSReceiveThread.                                                       *)

\* The fields between the commas
StringToArray(str) ==
  FoldLeft(LAMBDA list, c : IF c = "," THEN Append(list, <<>>)
                            ELSE [list EXCEPT ![Len(list)] = Append(@, c)],
           <<<<>>>>, str)

\* data[2] of a sentence that is $GNRMC
Status(data) == IF data[1] = <<"RMC">> THEN data[3] ELSE <<>>

SendSentence(s) ==
  /\ wire = <<>> /\ sky.sent < MaxSent
  /\ wire' = Append(s.text, EOL)
  /\ sky' = [sky EXCEPT !.sent = @ + 1, !.said = s.said]
  /\ UNCHANGED <<is_positioning_, ch, line, reader, waiter, result, call>>

\* Mutant of OnGPSReceived: V leaves the flag alone
OnGPSReceivedKeeps(data) ==
  /\ is_positioning_' = (is_positioning_ \/ Status(data) = <<"A">>)
  /\ reader' = IF Status(data) = <<"A">> THEN "signal" ELSE "read"

\* $GNGGA only takes and releases location_mutex_: what it converts is not stored
OnGPSReceived(data) ==
  /\ is_positioning_' = CASE Status(data) = <<"A">> -> TRUE
                          [] Status(data) = <<"V">> -> FALSE
                          [] OTHER                  -> is_positioning_
  /\ reader' = IF Status(data) = <<"A">> THEN "signal" ELSE "read"

\* c is what ch holds when read has returned 1 or 0
Process(c) ==
  IF c # EOL THEN line' = Append(line, c) /\ UNCHANGED <<is_positioning_, reader>>
  ELSE /\ line' = <<>>
       /\ IF line = <<>> THEN UNCHANGED <<is_positioning_, reader>>
          ELSE OnGPSReceived(StringToArray(line))

\* History: the sentence on its way has ended
Ended ==
  [sky EXCEPT !.hurt = FALSE,
              !.may = IF sky.said = "no" THEN @
                      ELSE (IF sky.hurt THEN @ ELSE {}) \cup {sky.said = "A"},
              !.fixes = @ + IF sky.said = "A" /\ ~sky.hurt THEN 1 ELSE 0,
              !.damaged = @ + IF sky.said = "A" /\ sky.hurt THEN 1 ELSE 0]

ReadChar ==
  /\ reader = "read" /\ wire # <<>>
  /\ ch' = Head(wire) /\ wire' = Tail(wire)
  /\ Process(Head(wire))
  /\ sky' = IF Head(wire) = EOL THEN Ended ELSE sky
  /\ UNCHANGED <<waiter, result, call>>

\* Three seconds of silence, within a sentence or between two
ReadNothing ==
  /\ reader = "read" /\ sky.pauses < MaxPauses
  /\ Process(ch)
  /\ sky' = [sky EXCEPT !.pauses = @ + 1, !.hurt = @ \/ ch # EOL]
  /\ UNCHANGED <<wire, ch, waiter, result, call>>

\* Mutant of Signal: nobody is woken
SignalNot ==
  /\ reader = "signal" /\ reader' = "read"
  /\ call' = [call EXCEPT !.window = @ \/ waiter = "lock"]
  /\ UNCHANGED <<is_positioning_, wire, ch, line, waiter, result, sky>>

\* pthread_cond_signal, without the mutex: only a caller that waits already hears it
Signal ==
  /\ reader = "signal"
  /\ reader' = "read"
  /\ waiter' = IF waiter = "wait" THEN "woken" ELSE waiter
  /\ call' = [call EXCEPT !.window = @ \/ waiter = "lock"]
  /\ UNCHANGED <<is_positioning_, wire, ch, line, result, sky>>

-----------------------------------------------------------------------------
(* WaitPositioningComplete.                                                *)

\* The flag is tested before the mutex is taken
TestFlag ==
  /\ waiter = "idle" /\ call.waits < MaxWaits
  /\ waiter' = IF is_positioning_ THEN "idle" ELSE "lock"
  /\ result' = IF is_positioning_ THEN "true" ELSE "none"
  /\ call' = [waits |-> call.waits + 1, fixes |-> sky.fixes,
              window |-> FALSE, late |-> FALSE, unasked |-> FALSE]
  /\ UNCHANGED <<is_positioning_, wire, ch, line, reader, sky>>

LockAndWait ==
  /\ waiter = "lock" /\ waiter' = "wait"
  /\ UNCHANGED <<is_positioning_, wire, ch, line, reader, result, sky, call>>

\* pthread_cond_timedwait may return 0 without a signal
WakeUnasked ==
  /\ waiter = "wait" /\ waiter' = "woken"
  /\ call' = [call EXCEPT !.unasked = TRUE]
  /\ UNCHANGED <<is_positioning_, wire, ch, line, reader, result, sky>>

\* The time is up, perhaps between line 138 and the signal
TimedOut ==
  /\ waiter = "wait" /\ waiter' = "idle"
  /\ result' = "false"
  /\ call' = [call EXCEPT !.late = (reader = "signal"), !.fixes = sky.fixes - @]
  /\ UNCHANGED <<is_positioning_, wire, ch, line, reader, sky>>

\* The flag is not tested again
Woken ==
  /\ waiter = "woken" /\ waiter' = "idle"
  /\ result' = "true"
  /\ UNCHANGED <<is_positioning_, wire, ch, line, reader, sky, call>>

GpsNext ==
  \/ \E s \in Sentences : SendSentence(s)
  \/ ReadChar \/ ReadNothing \/ Signal
  \/ TestFlag \/ LockAndWait \/ WakeUnasked \/ TimedOut \/ Woken

GpsSpec == GpsInit /\ [][GpsNext]_gpsVars

-----------------------------------------------------------------------------
\* What WaitPositioningComplete (gps.cpp:188-210) answers is right but for the cases it
\* does not guard against.  "true": a fix has been reported, unless the flag was set from
\* the start (it is never initialised) or the wait ended unasked.  "false":
\* no whole sentence reported a fix during the call, unless one came between the unlocked
\* test (line 193) and the wait (line 200), or as the time ran out.
WaitIsRight ==
  /\ result = "true" => sky.fixes + sky.damaged > 0 \/ sky.start \/ call.unasked
  /\ result = "false" => call.fixes = 0 \/ call.window \/ call.late

\* Between sentences the flag is what the last one with a status said (gps.cpp:116, 141).
\* A pause, which doubles a character (gps.cpp:222), may keep it at what it was before,
\* but never makes a status up, and does no harm between sentences.
FlagFollows == wire = <<>> => is_positioning_ \in sky.may
=============================================================================
