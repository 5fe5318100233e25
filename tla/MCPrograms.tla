------------------------------ MODULE MCPrograms -----------------------------
(***************************************************************************)
(* The small programs, drivers and classes that share nothing: a behaviour *)
(* runs one of them, and the variables of the others rest.  Words shorter  *)
(* and longer than "end", and one that begins with it; NMEA sentences with *)
(* a fix, without one, and of another kind; settings that a port supports, *)
(* knows under one program only, or cannot set; users that start bursts    *)
(* and delays of the UART LED and switch the others; a modem's driver that *)
(* is loaded, bound, suspended; two sysfs tools and a modem program; the   *)
(* upload lists, the timers, MD5's blocks and the traffic meter.           *)
(***************************************************************************)
EXTENDS SemCounter, Gps, SerialPort, LedDriver, IoPower, SysGpio,
        FilelistData, FilelistWatch, Timers, Md5Stream, Netspeed

VARIABLE running

MCWords == {<<"a">>, End, <<"e", "n", "d", "s">>, <<"b", "e", "a", "n">>}

MCSentences ==
  {[said |-> "A",  text |-> <<"RMC", ",", "time", ",", "A">>],
   [said |-> "V",  text |-> <<"RMC", ",", ",", "V">>],
   [said |-> "no", text |-> <<"GGA", ",", "time">>]}

MCInits ==
  {[nSpeed |-> 1000000, nBits |-> 8, nEvent |-> "N", nStop |-> 1],
   [nSpeed |-> 9600,    nBits |-> 7, nEvent |-> "E", nStop |-> 2],
   [nSpeed |-> 115200,  nBits |-> 8, nEvent |-> "O", nStop |-> 1],
   [nSpeed |-> 2400,    nBits |-> 6, nEvent |-> "N", nStop |-> 1]}

MCCommands == {<<49, 49>>, <<51, 49>>, <<51, 51>>}
MCText == [p \in SysPrograms |-> IF p \in {"s1", "s2"} THEN "sys_gpio" ELSE "modem"]

\* The name of an interface ends in the device's
MCIfLists == {<<<<"lo">>, <<"eth0">>>>, <<<<"v", "eth0">>, <<"eth0">>>>}
MCMillis == -3..5
MCStrides == {-7, -1, 1, 5}

threadVars == <<semVars, gpsVars, serVars>>
pinVars == <<ledVars, ioVars, sysVars>>
classVars == <<listVars, watchVars, timerVars, md5Vars, netVars>>
programVars == <<threadVars, pinVars, classVars, running>>

\* What does not run has one initial state
ProgramsInit ==
  /\ running \in {"sem", "gps", "serial", "led", "iopower", "sysfs",
                  "list", "watch", "timer", "md5", "net"}
  /\ SemInit /\ GpsInit /\ SerInit
  /\ LedInit /\ IoInit /\ SysInit
  /\ ListInit /\ WatchInit /\ TimerInit /\ MD5Init /\ NetInit
  /\ running # "gps" => reader = "off" /\ ~is_positioning_
  /\ running # "serial" => program = "uart" /\ init.nSpeed = 9600
  /\ running # "iopower" => foreign = {}
  /\ running # "sysfs" => taken = {}
  /\ running # "watch" => dir = {} /\ nested = {}
  /\ running # "net" => shown = 20 /\ ifs[1].name = <<"lo">>

ThreadStep ==
  \/ running = "sem" /\ SemNext /\ UNCHANGED <<gpsVars, serVars>>
  \/ running = "gps" /\ GpsNext /\ UNCHANGED <<semVars, serVars>>
  \/ running = "serial" /\ SerNext /\ UNCHANGED <<semVars, gpsVars>>

PinStep ==
  \/ running = "led" /\ LedNext /\ UNCHANGED <<ioVars, sysVars>>
  \/ running = "iopower" /\ IoNext /\ UNCHANGED <<ledVars, sysVars>>
  \/ running = "sysfs" /\ SysNext /\ UNCHANGED <<ledVars, ioVars>>

ClassStep ==
  \/ running = "list" /\ ListNext /\ UNCHANGED <<watchVars, timerVars, md5Vars, netVars>>
  \/ running = "watch" /\ WatchNext /\ UNCHANGED <<listVars, timerVars, md5Vars, netVars>>
  \/ running = "timer" /\ TimerNext /\ UNCHANGED <<listVars, watchVars, md5Vars, netVars>>
  \/ running = "md5" /\ Md5Next /\ UNCHANGED <<listVars, watchVars, timerVars, netVars>>
  \/ running = "net" /\ NetNext /\ UNCHANGED <<listVars, watchVars, timerVars, md5Vars>>

ProgramsNext ==
  \/ ThreadStep /\ UNCHANGED <<pinVars, classVars, running>>
  \/ PinStep /\ UNCHANGED <<threadVars, classVars, running>>
  \/ ClassStep /\ UNCHANGED <<threadVars, pinVars, running>>

\* Fairness is the LED driver's: the kernel runs its timer
ProgramsSpec == ProgramsInit /\ [][ProgramsNext]_programVars /\ LedFairness
=============================================================================
