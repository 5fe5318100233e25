------------------------------- MODULE SysGpio -------------------------------
(***************************************************************************)
(* Pins driven through /sys/class/gpio: sys_gpio.c, the class of           *)
(* gpio_class.cpp (a second copy is in RS485), and modem.cpp, which uses   *)
(* the class.  Programs run their calls one after the other, each in two   *)
(* steps: the file is opened, then written by fclose, or read.  Nothing    *)
(* looks at what a write returns, and fclose is called on NULL too when    *)
(* the file cannot be opened, because it is not there or for a reason of   *)
(* the program's own, which ends the program.  Several programs run at a   *)
(* time, and some of the pins may belong to a kernel driver.               *)
(***************************************************************************)
EXTENDS Integers, Sequences

CONSTANTS SysPrograms,  \* the programs that run, each with a program text:
          Text,         \* "sys_gpio" or "modem"
          Takes         \* which pins a kernel driver may own: a set of sets

ASSUME TextAssumption == Text \in [SysPrograms -> {"sys_gpio", "modem"}]

GPIO_PIN == 18
pwren_4g == 85
pwrkey_4g == 97
SysPins == {GPIO_PIN, pwren_4g, pwrkey_4g}

Gpio_init(n) == [call |-> "export", pin |-> n]
Gpio_destroy(n) == [call |-> "unexport", pin |-> n]
GpioSetDirection(n, d) == [call |-> "direction", pin |-> n, to |-> d]
GpioSetValue(n, v) == [call |-> "value", pin |-> n, to |-> v]
GpioGetDirection(n) == [call |-> "direction?", pin |-> n]
GpioGetValue(n) == [call |-> "value?", pin |-> n]

\* sys_gpio.c
SysGpioMain ==
  <<Gpio_init(GPIO_PIN), GpioSetDirection(GPIO_PIN, "out"), GpioSetValue(GPIO_PIN, 1),
    GpioGetDirection(GPIO_PIN), GpioGetValue(GPIO_PIN), Gpio_destroy(GPIO_PIN)>>

\* modem.cpp: the constructors of the two globals
Constructors == <<Gpio_init(pwren_4g), Gpio_init(pwrkey_4g)>>

\* Mutant of modem_init: a pin's value is set before its direction
modem_init_value_first ==
  <<GpioSetValue(pwren_4g, 1), GpioSetDirection(pwren_4g, "out"),
    GpioSetDirection(pwrkey_4g, "out"), GpioSetValue(pwrkey_4g, 0)>>

modem_init ==
  <<GpioSetDirection(pwren_4g, "out"), GpioSetDirection(pwrkey_4g, "out"),
    GpioSetValue(pwren_4g, 1), GpioSetValue(pwrkey_4g, 0)>>

ModemMain == Constructors \o modem_init \o <<GpioGetDirection(pwren_4g), GpioGetValue(pwren_4g)>>

Calls(p) == IF Text[p] = "modem" THEN ModemMain ELSE SysGpioMain

VARIABLES taken,     \* the pins of kernel drivers
          exported,  \* pin -> how its files are numbered: 0 not exported, else which export
          exports,   \* how often pins were exported
          pindir, val,  \* the pins
          at,        \* program -> the call it is at
          opened,    \* program -> the file it has opened: 0 none, or the number of the export
          got,       \* program -> what the getters returned
          fallen,    \* the programs that called fclose(NULL)
          denied     \* the programs that could not open a file that was there

sysVars == <<taken, exported, exports, pindir, val, at, opened, got, fallen, denied>>

SysInit ==
  /\ taken \in Takes
  /\ exported = [n \in SysPins |-> 0] /\ exports = 0
  /\ pindir = [n \in SysPins |-> "in"] /\ val = [n \in SysPins |-> 0]
  /\ at = [p \in SysPrograms |-> 1] /\ opened = [p \in SysPrograms |-> 0]
  /\ got = [p \in SysPrograms |-> <<>>]
  /\ fallen = {} /\ denied = {}

Runs(p) == p \notin fallen /\ at[p] <= Len(Calls(p))
Now(p) == Calls(p)[at[p]]
Getter(c) == c.call \in {"direction?", "value?"}
Control(c) == c.call \in {"export", "unexport"}

\* Two files are always there, the others while the pin is exported
Openable(c) == Control(c) \/ exported[c.pin] > 0

\* An open fails: there is no such file, or there is and the program may not open it, has
\* no descriptor left or no memory
OpenRefused(p) ==
  /\ Runs(p) /\ opened[p] = 0
  /\ denied' = IF Openable(Now(p)) THEN denied \cup {p} ELSE denied

-----------------------------------------------------------------------------
fopen(p) ==
  /\ Runs(p) /\ opened[p] = 0 /\ Openable(Now(p))
  /\ opened' = [opened EXCEPT ![p] = IF Control(Now(p)) THEN 1 ELSE exported[Now(p).pin]]
  /\ UNCHANGED <<taken, exported, exports, pindir, val, at, got, fallen, denied>>

\* A setter goes on to fclose(NULL)
fcloseNull(p) ==
  /\ OpenRefused(p) /\ ~Getter(Now(p))
  /\ fallen' = fallen \cup {p}
  /\ UNCHANGED <<taken, exported, exports, pindir, val, at, opened, got>>

Returns(p) ==
  /\ at' = [at EXCEPT ![p] = @ + 1]
  /\ opened' = [opened EXCEPT ![p] = 0]

\* A getter returns -1
GetFails(p) ==
  /\ Runs(p) /\ Getter(Now(p))
  /\ \/ OpenRefused(p)
     \/ opened[p] # 0 /\ exported[Now(p).pin] # opened[p] /\ UNCHANGED denied
  /\ got' = [got EXCEPT ![p] = Append(@, -1)]
  /\ Returns(p)
  /\ UNCHANGED <<taken, exported, exports, pindir, val, fallen>>

Get(p) ==
  /\ Runs(p) /\ Getter(Now(p))
  /\ opened[p] # 0 /\ exported[Now(p).pin] = opened[p]
  /\ LET n == Now(p).pin IN
       got' = [got EXCEPT ![p] =
                 Append(@, IF Now(p).call = "value?" THEN val[n] ELSE IF pindir[n] = "in" THEN 1 ELSE 0)]
  /\ Returns(p)
  /\ UNCHANGED <<taken, exported, exports, pindir, val, fallen, denied>>

\* fclose writes: the pin must be free to be exported, exported to be given back, and the
\* export still the one whose file was opened; an input takes no value, and "out" is low
Export(n) ==
  /\ n \notin taken /\ exported[n] = 0
  /\ exports' = exports + 1
  /\ exported' = [exported EXCEPT ![n] = exports + 1]
  /\ UNCHANGED <<pindir, val>>

Unexport(n) ==
  /\ exported[n] > 0
  /\ exported' = [exported EXCEPT ![n] = 0]
  /\ UNCHANGED <<exports, pindir, val>>

SetDir(p, c) ==
  /\ exported[c.pin] = opened[p]
  /\ pindir' = [pindir EXCEPT ![c.pin] = c.to]
  /\ val' = IF c.to = "out" THEN [val EXCEPT ![c.pin] = 0] ELSE val
  /\ UNCHANGED <<exported, exports>>

SetVal(p, c) ==
  /\ exported[c.pin] = opened[p] /\ pindir[c.pin] = "out"
  /\ val' = [val EXCEPT ![c.pin] = c.to]
  /\ UNCHANGED <<exported, exports, pindir>>

Written(p) ==
  LET c == Now(p) IN
  \/ c.call = "export" /\ Export(c.pin)
  \/ c.call = "unexport" /\ Unexport(c.pin)
  \/ c.call = "direction" /\ SetDir(p, c)
  \/ c.call = "value" /\ SetVal(p, c)

Refused(p) ==
  LET c == Now(p) IN
  CASE c.call = "export"    -> c.pin \in taken \/ exported[c.pin] > 0
    [] c.call = "unexport"  -> exported[c.pin] = 0
    [] c.call = "direction" -> exported[c.pin] # opened[p]
    [] c.call = "value"     -> exported[c.pin] # opened[p] \/ pindir[c.pin] # "out"

fclose(p) ==
  /\ Runs(p) /\ opened[p] # 0 /\ ~Getter(Now(p))
  /\ \/ Written(p)
     \/ Refused(p) /\ UNCHANGED <<exported, exports, pindir, val>>
  /\ Returns(p)
  /\ UNCHANGED <<taken, got, fallen, denied>>

SysNext == \E p \in SysPrograms : fopen(p) \/ fcloseNull(p) \/ GetFails(p) \/ Get(p) \/ fclose(p)

SysSpec == SysInit /\ [][SysNext]_sysVars

-----------------------------------------------------------------------------
PinsOf(p) == {Calls(p)[k].pin : k \in 1..Len(Calls(p))}
Destroys(p, n) == \E k \in 1..(at[p] - 1) : Calls(p)[k] = Gpio_destroy(n)
SysEnded == \A p \in SysPrograms : ~Runs(p)

\* Programs share pins without knowing of each other (gpio_class.cpp:14-45, modem.cpp:6-13):
\* one that could open every file that was there falls over fclose(NULL) only if a driver
\* owns a pin of it or another program has destroyed one meanwhile, and its getters fail for
\* the second reason only.  However their calls mix, when the modem programs have all come
\* to their end the supply is high and the key low, though each of them has pulled the
\* other's supply low in passing.
GpioSettled ==
  /\ \A p \in fallen \ denied : \E n \in PinsOf(p) :
       n \in taken \/ \E q \in SysPrograms \ {p} : Destroys(q, n)
  /\ \A p \in SysPrograms \ denied : \A k \in 1..Len(got[p]) :
       got[p][k] = -1 => \E n \in PinsOf(p) : \E q \in SysPrograms \ {p} : Destroys(q, n)
  /\ SysEnded /\ (\A p \in fallen : Text[p] # "modem") /\ (\E p \in SysPrograms : Text[p] = "modem")
       => pindir[pwren_4g] = "out" /\ val[pwren_4g] = 1 /\ pindir[pwrkey_4g] = "out" /\ val[pwrkey_4g] = 0
=============================================================================
