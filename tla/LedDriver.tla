------------------------------ MODULE LedDriver ------------------------------
(***************************************************************************)
(* The LED driver (ingenic_drv/led/led_drv.c): a timer that re-arms itself *)
(* drives three LEDs from three states, which write() sets and which the   *)
(* timer itself moves on when a burst or a delay is over.                  *)
(*                                                                         *)
(* write() returns an uninitialised byte: a caller that is told that fewer *)
(* bytes were taken than it gave writes the rest again, as a new command.  *)
(* On one processor the timer's interrupt comes between any two steps of   *)
(* write() and of the module's exit function; on two it overlaps them.     *)
(*                                                                         *)
(* The results of gpio_request_one are not looked at: the driver goes on   *)
(* with a pin another driver holds, drives it, and frees it at its end.    *)
(***************************************************************************)
EXTENDS Integers, Sequences

CONSTANTS CountRange,  \* 2^16 in the code: the range of COUNT
          Commands,    \* what user programs write: pairs of characters
          MaxWrites,   \* writes in a behaviour
          Contended,   \* the pins that other drivers may use
          OneCpu       \* the callback runs to its end before anything else goes on

ASSUME CountAssumption == CountRange \in Nat \ {0} /\ MaxWrites \in Nat /\ OneCpu \in BOOLEAN

VARIABLES LED_SYS_STATE, LED_GPRS_STATE, LED_UART_STATE,
          COUNT, LED_UART_WINK_TIME, LED_ON_DELAY_TIME,
          led,         \* the levels of the pins: sys, net, uart
          pinOwner,    \* who has requested each pin: none, led, other
          refused,     \* the pins led_drv_init asked for and did not get
          disturbed,   \* history: pins of others that the last tick or gpio_free touched
          timer,       \* idle, pending, running: the callback is at mod_timer
          module,      \* unloaded, loaded, or the next step of led_drv_exit
          rest,        \* what the last write was told it has not taken
          writes

states == <<LED_SYS_STATE, LED_GPRS_STATE, LED_UART_STATE>>
counters == <<COUNT, LED_UART_WINK_TIME, LED_ON_DELAY_TIME>>
gpioVars == <<led, pinOwner, refused, disturbed>>
ledVars == <<states, counters, gpioVars, timer, module, rest, writes>>

LED_ON == 0
LED_WINK_FAST == 1
LED_WINK_SLOW == 2
LED_ON_DELAY == 3

Leds == {"sys", "net", "uart"}

LedInit ==
  /\ LED_SYS_STATE = 0 /\ LED_GPRS_STATE = 2 /\ LED_UART_STATE = 7
  /\ COUNT = 0 /\ LED_UART_WINK_TIME = 6 /\ LED_ON_DELAY_TIME = 5
  /\ led = [l \in Leds |-> 0] /\ pinOwner = [l \in Leds |-> "none"]
  /\ refused = {} /\ disturbed = {} /\ timer = "idle" /\ module = "unloaded"
  /\ rest = <<>> /\ writes = 0

-----------------------------------------------------------------------------
(* LED_CORL; c is COUNT after its increment.                               *)

Wink(c, n) == IF c % n = 0 THEN 0 ELSE 1

SysLed(c) ==
  CASE LED_SYS_STATE = LED_ON        -> 1
    [] LED_SYS_STATE = LED_WINK_FAST -> Wink(c, 2)
    [] LED_SYS_STATE = LED_WINK_SLOW -> Wink(c, 5)
    [] OTHER                         -> 0

NetLed(c) == IF LED_GPRS_STATE = LED_WINK_FAST THEN Wink(c, 2) ELSE 1

UartLed(c) ==
  CASE LED_UART_STATE \in {LED_ON, LED_ON_DELAY} -> 1
    [] LED_UART_STATE = LED_WINK_FAST            -> Wink(c, 2)
    [] LED_UART_STATE = LED_WINK_SLOW            -> Wink(c, 5)
    [] OTHER                                     -> 0

\* The pins a tick calls gpio_set_value for; it calls it whoever holds the pin
Driven(c) ==
  {l \in Leds :
     /\ l = "net" => \/ LED_GPRS_STATE \in {LED_ON, LED_WINK_FAST}
                     \/ LED_GPRS_STATE = LED_WINK_SLOW /\ c % 25 = 0
     /\ l = "uart" => /\ LED_UART_STATE = LED_WINK_FAST => LED_UART_WINK_TIME > 0
                      /\ LED_UART_STATE = LED_ON_DELAY => LED_ON_DELAY_TIME > 0}

\* The burst and the delay count down; the tick after the last one moves on
BurstStep ==
  IF LED_UART_STATE # LED_WINK_FAST THEN UNCHANGED LED_UART_WINK_TIME
  ELSE LED_UART_WINK_TIME' = IF LED_UART_WINK_TIME > 0 THEN LED_UART_WINK_TIME - 1 ELSE 6

DelayStep ==
  IF LED_UART_STATE # LED_ON_DELAY THEN UNCHANGED LED_ON_DELAY_TIME
  ELSE LED_ON_DELAY_TIME' = IF LED_ON_DELAY_TIME > 0 THEN LED_ON_DELAY_TIME - 1 ELSE 5

\* Mutant of UartStep: the end of a delay does not switch the LED off
UartStepStays ==
  LED_UART_STATE' = IF LED_UART_STATE = LED_WINK_FAST /\ LED_UART_WINK_TIME = 0
                    THEN 2 ELSE LED_UART_STATE

UartStep ==
  LED_UART_STATE' =
    CASE LED_UART_STATE = LED_WINK_FAST /\ LED_UART_WINK_TIME = 0 -> 2
      [] LED_UART_STATE = LED_ON_DELAY /\ LED_ON_DELAY_TIME = 0   -> 7
      [] OTHER                                                    -> LED_UART_STATE

\* The pins of other drivers that this one drives or frees, and where it is
Disturb(touched, by) ==
  disturbed' =
    {[pin |-> l, by |-> by, at |-> module] : l \in {k \in touched : pinOwner[k] = "other"}}

LED_CORL ==
  LET c == (COUNT + 1) % CountRange IN
  /\ COUNT' = c
  /\ led' = [l \in Leds |->
              IF l \notin Driven(c) THEN led[l]
              ELSE CASE l = "sys" -> SysLed(c) [] l = "net" -> NetLed(c) [] l = "uart" -> UartLed(c)]
  /\ Disturb(Driven(c), "tick")
  /\ BurstStep /\ DelayStep /\ UartStep
  /\ UNCHANGED <<LED_SYS_STATE, LED_GPRS_STATE>>

-----------------------------------------------------------------------------
(* The timer.                                                              *)

timer_function ==
  /\ timer = "pending"
  /\ timer' = "running"
  /\ LED_CORL
  /\ UNCHANGED <<pinOwner, refused, module, rest, writes>>

mod_timer ==
  /\ timer = "running"
  /\ timer' = "pending"
  /\ UNCHANGED <<states, counters, gpioVars, module, rest, writes>>

NotInterrupted == OneCpu => timer # "running"

-----------------------------------------------------------------------------
(* The module and its file operations.                                     *)

\* gpio_request_one of the three pins, and timer_init
led_drv_init ==
  /\ module = "unloaded"
  /\ module' = "loaded"
  /\ refused' = {l \in Leds : pinOwner[l] = "other"}
  /\ pinOwner' = [l \in Leds |-> IF pinOwner[l] = "none" THEN "led" ELSE pinOwner[l]]
  /\ led' = [l \in Leds |-> IF pinOwner[l] = "none" THEN 0 ELSE led[l]]
  /\ timer' = "pending"
  /\ UNCHANGED <<states, counters, disturbed, rest, writes>>

\* Another driver requests a free pin, or frees one it has
OtherDriver(l) ==
  /\ pinOwner[l] # "led" /\ NotInterrupted
  /\ pinOwner' = [pinOwner EXCEPT ![l] = IF @ = "none" THEN "other" ELSE "none"]
  /\ UNCHANGED <<states, counters, led, refused, disturbed, timer, module, rest, writes>>

Digit(ch) == (ch - 48) % 256

\* buf holds one or two characters; a missing second one is NUL (led_buf is zeroed)
led_drv_write(buf) ==
  LET v == Digit(IF Len(buf) > 1 THEN buf[2] ELSE 0) IN
  /\ module = "loaded" /\ NotInterrupted
  /\ LED_GPRS_STATE' = IF buf[1] = 49 THEN v ELSE LED_GPRS_STATE
  /\ LED_SYS_STATE' = IF buf[1] = 50 THEN v ELSE LED_SYS_STATE
  /\ LED_UART_STATE' = IF buf[1] = 51 THEN v ELSE LED_UART_STATE
  /\ \E ret \in 0..Len(buf) : rest' = SubSeq(buf, ret + 1, Len(buf))   \* more counts as all
  /\ UNCHANGED <<counters, gpioVars, timer, module>>

WriteCommand ==
  /\ rest = <<>> /\ writes < MaxWrites
  /\ writes' = writes + 1
  /\ \E buf \in Commands : led_drv_write(buf)

WriteRest == rest # <<>> /\ led_drv_write(rest) /\ UNCHANGED writes

\* gpio_free of a pin, whoever has requested it
gpio_free(l, next) ==
  /\ NotInterrupted
  /\ pinOwner' = [pinOwner EXCEPT ![l] = "none"]
  /\ Disturb({l}, "free")
  /\ module' = next
  /\ UNCHANGED <<states, counters, led, refused, timer, rest, writes>>

\* led_drv_exit: the pins are freed one by one before the timer is deleted
FreeUart == module = "loaded" /\ rest = <<>> /\ gpio_free("uart", "free2")
FreeNet  == module = "free2" /\ gpio_free("net", "free0")
FreeSys  == module = "free0" /\ gpio_free("sys", "del_timer")

\* Mutant of DelTimer: the timer is not deleted
DelTimerNot ==
  /\ module = "del_timer" /\ NotInterrupted
  /\ module' = "gone"
  /\ UNCHANGED <<states, counters, gpioVars, timer, rest, writes>>

\* del_timer removes a pending timer; it does not wait for a running callback
DelTimer ==
  /\ module = "del_timer" /\ NotInterrupted
  /\ module' = "gone"
  /\ timer' = IF timer = "pending" THEN "idle" ELSE timer
  /\ UNCHANGED <<states, counters, gpioVars, rest, writes>>

LedNext ==
  \/ timer_function \/ mod_timer
  \/ led_drv_init \/ WriteCommand \/ WriteRest
  \/ FreeUart \/ FreeNet \/ FreeSys \/ DelTimer
  \/ \E l \in Leds \cap Contended : OtherDriver(l)

LedSpec == LedInit /\ [][LedNext]_ledVars

\* The kernel runs a timer that has expired
LedFairness == WF_ledVars(timer_function) /\ WF_ledVars(mod_timer)

LedFairSpec == LedSpec /\ LedFairness

-----------------------------------------------------------------------------
\* The pins led_drv_exit has freed when it is at a step
FreedAt(m) ==
  CASE m = "free2" -> {"uart"} [] m = "free0" -> {"uart", "net"} [] m = "del_timer" -> Leds
    [] OTHER -> {}

\* A pin that another driver holds is driven or freed (led_drv.c:145-149, 237-239) only if
\* this driver's own request was refused and not looked at (224-226), or, driven, when exit
\* has freed it and another driver got it before del_timer (240): never while the driver has
\* its pins, and on one processor never once exit has returned.
DisturbedHasCause ==
  \A d \in disturbed :
    d.at # "gone" /\ (d.pin \in refused \/ (d.by = "tick" /\ d.pin \in FreedAt(d.at)))

\* A burst or a delay of the UART LED comes to its end, whatever is written meanwhile
\* and wherever an earlier one was cut off, or the module is unloaded.
BurstEnds ==
  LED_UART_STATE \in {LED_WINK_FAST, LED_ON_DELAY}
    ~> (LED_UART_STATE \notin {LED_WINK_FAST, LED_ON_DELAY} \/ module = "gone")
=============================================================================
