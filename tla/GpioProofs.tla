------------------------------ MODULE GpioProofs -----------------------------
(***************************************************************************)
(* Proofs about what switches pins: the LED driver, for any commands, any  *)
(* number of writes and any range of its counter; the modem's platform     *)
(* driver, for any number of faults, loads, binds and suspends; and the    *)
(* programs that use sysfs, for any number of them.                        *)
(***************************************************************************)
EXTENDS LedDriver, IoPower, SysGpio, SequenceTheorems, TLAPS

-----------------------------------------------------------------------------
(* The LED driver.                                                         *)

\* The timer is armed when the module is loaded and not before; on one processor exit sees
\* it pending, never running.  A pin that was granted and not yet freed is this driver's
LedInv ==
  /\ timer \in {"idle", "pending", "running"}
  /\ module \in {"unloaded", "loaded", "free2", "free0", "del_timer", "gone"}
  /\ pinOwner \in [Leds -> {"none", "led", "other"}]
  /\ module \in {"unloaded", "gone"} => timer = "idle"
  /\ module = "unloaded" => disturbed = {} /\ \A l \in Leds : pinOwner[l] # "led"
  /\ module \in {"loaded", "free2", "free0", "del_timer"} =>
       \A l \in Leds : l \in refused \/ l \in FreedAt(module) \/ pinOwner[l] = "led"

-----------------------------------------------------------------------------
\* What is disturbed in a step has a cause.
LEMMA DisturbStep ==
  ASSUME NEW touched, NEW by, Disturb(touched, by), UNCHANGED refused,
         module # "gone",
         \A l \in touched : pinOwner[l] = "other" =>
             l \in refused \/ (by = "tick" /\ l \in FreedAt(module))
  PROVE  DisturbedHasCause'
<1>. SUFFICES ASSUME NEW d \in disturbed'
              PROVE  d.at # "gone" /\ (d.pin \in refused \/ (d.by = "tick" /\ d.pin \in FreedAt(d.at)))
  BY DEF DisturbedHasCause, FreedAt
<1>. PICK l \in touched : pinOwner[l] = "other" /\ d = [pin |-> l, by |-> by, at |-> module]
  BY DEF Disturb
<1>. QED OBVIOUS

\* A step of led_drv_exit that frees a pin.
LEMMA FreeStep ==
  ASSUME LedInv, DisturbedHasCause, NEW l \in Leds,
         NEW next \in {"free2", "free0", "del_timer"}, gpio_free(l, next),
         module \in {"loaded", "free2", "free0"}, l \notin FreedAt(module),
         FreedAt(next) = FreedAt(module) \cup {l}
  PROVE  LedInv' /\ DisturbedHasCause'
<1>1. \A k \in {l} : pinOwner[k] = "other" => k \in refused
  BY DEF LedInv
<1>2. DisturbedHasCause'
  BY <1>1, DisturbStep DEF gpio_free
<1>3. /\ pinOwner' = [pinOwner EXCEPT ![l] = "none"] /\ module' = next
      /\ UNCHANGED <<refused, timer>>
  BY DEF gpio_free
<1>4. FreedAt(module)' = FreedAt(next)
  BY <1>3 DEF FreedAt
<1>5. \A k \in Leds : k \in refused' \/ k \in FreedAt(module)' \/ pinOwner'[k] = "led"
  BY <1>3, <1>4 DEF LedInv
<1>. QED BY <1>2, <1>3, <1>5 DEF LedInv

\* Every step keeps the invariant when a callback is not overlapped.
LEMMA LedStepInv ==
  ASSUME OneCpu, LedInv, DisturbedHasCause, [LedNext]_ledVars
  PROVE  LedInv' /\ DisturbedHasCause'
<1>1. CASE timer_function
  <2>1. timer = "pending" /\ timer' = "running" /\ UNCHANGED <<pinOwner, refused, module>>
    BY <1>1 DEF timer_function
  <2>2. module \in {"loaded", "free2", "free0", "del_timer"}
    BY <2>1 DEF LedInv
  <2>3. PICK touched \in SUBSET Leds : Disturb(touched, "tick")
    BY <1>1 DEF timer_function, LED_CORL, Driven
  <2>4. \A l \in touched : pinOwner[l] = "other" => l \in refused \/ l \in FreedAt(module)
    BY <2>2 DEF LedInv
  <2>5. DisturbedHasCause'
    BY <2>1, <2>2, <2>3, <2>4, DisturbStep
  <2>6. FreedAt(module)' = FreedAt(module)
    BY <2>1 DEF FreedAt
  <2>. QED BY <2>1, <2>2, <2>5, <2>6 DEF LedInv
<1>2. CASE mod_timer
  <2>1. UNCHANGED <<pinOwner, refused, disturbed, module>> /\ timer = "running" /\ timer' = "pending"
    BY <1>2 DEF mod_timer, gpioVars
  <2>. QED BY <2>1 DEF LedInv, DisturbedHasCause, FreedAt
<1>3. CASE led_drv_init
  <2>1. /\ module = "unloaded" /\ module' = "loaded" /\ timer' = "pending"
        /\ refused' = {l \in Leds : pinOwner[l] = "other"} /\ disturbed' = disturbed
        /\ pinOwner' = [l \in Leds |-> IF pinOwner[l] = "none" THEN "led" ELSE pinOwner[l]]
    BY <1>3 DEF led_drv_init
  <2>2. disturbed' = {}
    BY <2>1 DEF LedInv
  <2>3. \A l \in Leds : l \in refused' \/ pinOwner'[l] = "led"
    BY <2>1 DEF LedInv
  <2>4. pinOwner' \in [Leds -> {"none", "led", "other"}]
    BY <2>1 DEF LedInv
  <2>. QED BY <2>1, <2>2, <2>3, <2>4 DEF LedInv, DisturbedHasCause
<1>4. ASSUME NEW buf, led_drv_write(buf)
      PROVE  LedInv' /\ DisturbedHasCause'
  <2>1. UNCHANGED <<pinOwner, refused, disturbed, module, timer>>
    BY <1>4 DEF led_drv_write, gpioVars
  <2>. QED BY <2>1 DEF LedInv, DisturbedHasCause, FreedAt
<1>5. CASE WriteCommand \/ WriteRest
  BY <1>4, <1>5 DEF WriteCommand, WriteRest
<1>6. CASE FreeUart
  BY <1>6, FreeStep DEF FreeUart, FreedAt, Leds
<1>7. CASE FreeNet
  BY <1>7, FreeStep DEF FreeNet, FreedAt, Leds
<1>8. CASE FreeSys
  BY <1>8, FreeStep DEF FreeSys, FreedAt, Leds
<1>9. CASE DelTimer
  <2>1. /\ UNCHANGED <<pinOwner, refused, disturbed>> /\ module = "del_timer" /\ module' = "gone"
        /\ timer' = "idle"
    BY <1>9 DEF DelTimer, NotInterrupted, LedInv, gpioVars
  <2>. QED BY <2>1 DEF LedInv, DisturbedHasCause, FreedAt
<1>10. ASSUME NEW l \in Leds, OtherDriver(l)
       PROVE  LedInv' /\ DisturbedHasCause'
  <2>1. /\ UNCHANGED <<refused, disturbed, module, timer>> /\ pinOwner[l] # "led"
        /\ pinOwner' = [pinOwner EXCEPT ![l] = IF @ = "none" THEN "other" ELSE "none"]
    BY <1>10 DEF OtherDriver
  <2>2. /\ pinOwner' \in [Leds -> {"none", "led", "other"}]
        /\ \A k \in Leds : (pinOwner'[k] = "led") = (pinOwner[k] = "led")
    BY <2>1 DEF LedInv
  <2>3. FreedAt(module)' = FreedAt(module)
    BY <2>1 DEF FreedAt
  <2>4. DisturbedHasCause'
    BY <2>1 DEF DisturbedHasCause, FreedAt
  <2>. QED BY <2>1, <2>2, <2>3, <2>4 DEF LedInv
<1>11. CASE UNCHANGED ledVars
  <2>1. UNCHANGED <<pinOwner, refused, disturbed, module, timer>>
    BY <1>11 DEF ledVars, gpioVars
  <2>. QED BY <2>1 DEF LedInv, DisturbedHasCause, FreedAt
<1>. QED BY <1>1, <1>2, <1>3, <1>5, <1>6, <1>7, <1>8, <1>9, <1>10, <1>11 DEF LedNext

\* On one processor a pin of another driver is driven or freed only after a request that was
\* refused, or, driven, between the frees and del_timer of led_drv_exit (led_drv.c:145-149,
\* 217-242): for any commands and any range of the counter, and whatever other drivers do.
THEOREM LedDisturbedHasCause == ASSUME OneCpu PROVE LedSpec => []DisturbedHasCause
<1>1. LedInit => LedInv /\ DisturbedHasCause
  BY DEF LedInit, LedInv, DisturbedHasCause
<1>2. LedInv /\ DisturbedHasCause /\ [LedNext]_ledVars => LedInv' /\ DisturbedHasCause'
  BY LedStepInv
<1>. QED BY <1>1, <1>2, PTL DEF LedSpec

-----------------------------------------------------------------------------
(* The modem's platform driver.                                            *)

IoTypes ==
  /\ ioDriver \in BOOLEAN /\ bound \in BOOLEAN /\ asleep \in BOOLEAN /\ dark \in BOOLEAN
  /\ probing \in 0..8
  /\ requested \subseteq IoPins
  /\ level \in [IoPins -> {0, 1}]
  /\ presses \in 0..1

\* How far a running probe has come: the pins it has, and what it has put on them
ProbePins ==
  /\ probing \in 2..3 => requested = {PWREN}
  /\ probing \in 4..5 => requested = {PWREN, CTRL}
  /\ probing \in 6..8 => requested = IoPins

ProbeLevels ==
  /\ probing \in 2..8 => presses = 0
  /\ probing \in 2..7 => level[POWERKEY] = 0
  /\ probing = 8 => level[POWERKEY] = 1
  /\ probing \in 3..8 => level[PWREN] = 1
  /\ probing \in 5..8 => level[CTRL] = 1

\* A driver without its first pin has never touched the power key
Untouched == PWREN \notin requested => requested = {} /\ presses = 0 /\ level[POWERKEY] = 0

\* The inductive invariant
IoInv ==
  /\ IoTypes /\ ProbePins /\ ProbeLevels /\ Untouched
  /\ probing # 0 => ~bound /\ ~asleep
  /\ bound \/ probing # 0 => ioDriver
  /\ ModemPowered

-----------------------------------------------------------------------------
\* The calls of iopower_probe (gpio-quectel.c:41-79), one by one.
LEMMA ProbeText ==
  /\ Len(iopower_probe) = 8
  /\ iopower_probe[1].call = "request" /\ iopower_probe[1].pin = PWREN
  /\ iopower_probe[2].call = "output" /\ iopower_probe[2].pin = PWREN /\ iopower_probe[2].val = 1
  /\ iopower_probe[3].call = "request" /\ iopower_probe[3].pin = CTRL
  /\ iopower_probe[4].call = "output" /\ iopower_probe[4].pin = CTRL /\ iopower_probe[4].val = 1
  /\ iopower_probe[5].call = "request" /\ iopower_probe[5].pin = POWERKEY
  /\ iopower_probe[6].call = "output" /\ iopower_probe[6].pin = POWERKEY /\ iopower_probe[6].val = 0
  /\ iopower_probe[7].call = "set" /\ iopower_probe[7].pin = POWERKEY /\ iopower_probe[7].val = 1
  /\ iopower_probe[8].call = "set" /\ iopower_probe[8].pin = POWERKEY /\ iopower_probe[8].val = 0
BY DEF iopower_probe

LEMMA ThreePins == /\ IoPins = {PWREN, CTRL, POWERKEY}
                   /\ PWREN # CTRL /\ PWREN # POWERKEY /\ CTRL # POWERKEY
BY DEF IoPins, PWREN, CTRL, POWERKEY

\* The initial state satisfies the inductive invariant.
LEMMA IoInitInv == IoInit => IoInv
<1>. SUFFICES ASSUME IoInit PROVE IoInv
  OBVIOUS
<1>1. /\ ioDriver \in BOOLEAN /\ bound \in BOOLEAN /\ asleep \in BOOLEAN /\ dark \in BOOLEAN
      /\ ~bound /\ ~asleep
  BY Zenon DEF IoInit
<1>2. /\ probing = 0 /\ requested = {} /\ presses = 0
      /\ level = [p \in IoPins |-> 0]
  BY DEF IoInit
<1>. QED
  BY <1>1, <1>2, ThreePins DEF IoInv, IoTypes, ProbePins, ProbeLevels, Untouched, ModemPowered

\* A call of probe that succeeds keeps the invariant: requests.
LEMMA RequestStep ==
  ASSUME IoInv, ProbeCall, probing \in {1, 3, 5}
  PROVE  IoInv'
<1>1. /\ requested' = requested \cup {iopower_probe[probing].pin}
      /\ iopower_probe[probing].pin \notin requested
      /\ level' = level /\ presses' = presses
      /\ probing' = probing + 1 /\ bound' = (probing = 8) /\ asleep' = asleep /\ dark' = dark
      /\ ioDriver' = ioDriver
  BY ProbeText DEF ProbeCall, gpio_request
<1>2. CASE probing = 1
  BY <1>1, <1>2, ProbeText, ThreePins
  DEF IoInv, IoTypes, ProbePins, ProbeLevels, Untouched, ModemPowered
<1>3. CASE probing = 3
  BY <1>1, <1>3, ProbeText, ThreePins
  DEF IoInv, IoTypes, ProbePins, ProbeLevels, Untouched, ModemPowered
<1>4. CASE probing = 5
  BY <1>1, <1>4, ProbeText, ThreePins
  DEF IoInv, IoTypes, ProbePins, ProbeLevels, Untouched, ModemPowered
<1>. QED BY <1>2, <1>3, <1>4

\* A call of probe that succeeds keeps the invariant: pins that are set.
LEMMA SetStep ==
  ASSUME IoInv, ProbeCall, probing \in {2, 4, 6, 7, 8}
  PROVE  IoInv'
<1>1. /\ gpio_set(iopower_probe[probing].pin, iopower_probe[probing].val)
      /\ probing' = (IF probing = 8 THEN 0 ELSE probing + 1) /\ bound' = (probing = 8)
      /\ asleep' = asleep /\ dark' = dark /\ ioDriver' = ioDriver
  BY ProbeText DEF ProbeCall
<1>2. CASE probing = 2
  BY <1>1, <1>2, ProbeText, ThreePins
  DEF gpio_set, IoInv, IoTypes, ProbePins, ProbeLevels, Untouched, ModemPowered
<1>3. CASE probing = 4
  BY <1>1, <1>3, ProbeText, ThreePins
  DEF gpio_set, IoInv, IoTypes, ProbePins, ProbeLevels, Untouched, ModemPowered
<1>4. CASE probing = 6
  BY <1>1, <1>4, ProbeText, ThreePins
  DEF gpio_set, IoInv, IoTypes, ProbePins, ProbeLevels, Untouched, ModemPowered
<1>5. CASE probing = 7
  BY <1>1, <1>5, ProbeText, ThreePins
  DEF gpio_set, IoInv, IoTypes, ProbePins, ProbeLevels, Untouched, ModemPowered
<1>6. CASE probing = 8
  BY <1>1, <1>6, ProbeText, ThreePins
  DEF gpio_set, IoInv, IoTypes, ProbePins, ProbeLevels, Untouched, ModemPowered
<1>. QED BY <1>2, <1>3, <1>4, <1>5, <1>6

\* The power management callbacks keep the invariant.
LEMMA PowerStep ==
  ASSUME IoInv, iopower_suspend \/ SuspendFails \/ iopower_resume \/ ResumeFails
  PROVE  IoInv'
<1>1. CASE iopower_suspend
  BY <1>1, ThreePins
  DEF iopower_suspend, Idle, Cycle, gpio_set, registry, pins, IoInv, IoTypes, ProbePins, ProbeLevels,
      Untouched, ModemPowered
<1>2. CASE SuspendFails
  BY <1>2 DEF SuspendFails, registry, pins, IoInv, IoTypes, ProbePins, ProbeLevels, Untouched, ModemPowered
<1>3. CASE iopower_resume
  BY <1>3, ThreePins
  DEF iopower_resume, registry, IoInv, IoTypes, ProbePins, ProbeLevels, Untouched, ModemPowered
<1>4. CASE ResumeFails
  BY <1>4, ThreePins
  DEF ResumeFails, registry, IoInv, IoTypes, ProbePins, ProbeLevels, Untouched, ModemPowered
<1>. QED BY <1>1, <1>2, <1>3, <1>4

\* Loading, unloading, binding and unbinding keep the invariant.
LEMMA RegistryStep ==
  ASSUME IoInv, iopower_init \/ InitHalf \/ iopower_exit \/ Bind \/ iopower_remove
  PROVE  IoInv'
<1>1. CASE iopower_init \/ Bind
  <2>1. /\ probing' = 1 /\ bound' = bound /\ asleep' = asleep /\ dark' = dark
        /\ requested' = requested /\ level' = level /\ presses' = presses /\ ~asleep /\ ioDriver'
    BY <1>1 DEF iopower_init, Bind, StartProbe, Idle, pins, registry
  <2>2. ~bound
    BY <1>1 DEF iopower_init, Bind, IoInv
  <2>. QED BY <2>1, <2>2 DEF IoInv, IoTypes, ProbePins, ProbeLevels, Untouched, ModemPowered
<1>2. CASE InitHalf
  BY <1>2 DEF InitHalf, pins, IoInv, IoTypes, ProbePins, ProbeLevels, Untouched, ModemPowered
<1>3. CASE iopower_exit \/ iopower_remove
  BY <1>3 DEF iopower_exit, iopower_remove, Idle, pins, IoInv, IoTypes, ProbePins, ProbeLevels, Untouched,
              ModemPowered
<1>. QED BY <1>1, <1>2, <1>3

\* What others do with a pin, a probe that fails and stuttering keep the invariant.
LEMMA OtherStep ==
  ASSUME IoInv, ProbeFails \/ OtherFrees \/ UNCHANGED ioVars
  PROVE  IoInv'
<1>1. CASE ProbeFails
  BY <1>1 DEF ProbeFails, registry, pins, IoInv, IoTypes, ProbePins, ProbeLevels, Untouched, ModemPowered
<1>2. CASE OtherFrees
  BY <1>2 DEF OtherFrees, registry, IoInv, IoTypes, ProbePins, ProbeLevels, Untouched, ModemPowered
<1>3. CASE UNCHANGED ioVars
  BY <1>3 DEF ioVars, IoInv, IoTypes, ProbePins, ProbeLevels, Untouched, ModemPowered
<1>. QED BY <1>1, <1>2, <1>3

LEMMA IoStepInv == IoInv /\ [IoNext]_ioVars => IoInv'
<1>. SUFFICES ASSUME IoInv, [IoNext]_ioVars PROVE IoInv'
  OBVIOUS
<1>1. CASE ProbeCall
  <2>1. probing \in {1, 3, 5} \/ probing \in {2, 4, 6, 7, 8}
    BY <1>1 DEF ProbeCall, IoInv, IoTypes
  <2>. QED BY <1>1, <2>1, RequestStep, SetStep
<1>2. CASE iopower_init \/ InitHalf \/ iopower_exit \/ Bind \/ iopower_remove
  BY <1>2, RegistryStep
<1>3. CASE iopower_suspend \/ SuspendFails \/ iopower_resume \/ ResumeFails
  BY <1>3, PowerStep
<1>4. CASE ProbeFails \/ OtherFrees \/ UNCHANGED ioVars
  BY <1>4, OtherStep
<1>. QED BY <1>1, <1>2, <1>3, <1>4 DEF IoNext

\* The inductive invariant holds throughout (gpio-quectel.c:38-182).
THEOREM IoInvariant == IoSpec => []IoInv
<1>. QED BY IoInitInv, IoStepInv, PTL DEF IoSpec

\* The power key is pressed at most once, and a bound driver that is awake keeps the modem's
\* supplies on unless a resume failed, however often it is loaded, bound and suspended.
THEOREM IoModemPowered == IoSpec => []ModemPowered
<1>1. IoInv => ModemPowered
  BY DEF IoInv
<1>. QED BY <1>1, IoInvariant, PTL

\* The first pin is requested, and no probe is under way that got it
Spent == PWREN \in requested /\ ~bound /\ probing \in {0, 1}

\* A driver that has lost its device, by a failed probe (gpio-quectel.c:41-74), unbind or
\* exit (143-147, 178-182), never gets it again: no step leads out of Spent.
THEOREM IoSpentForever == IoSpec => [][Spent => Spent']_ioVars
<1>1. IoInv /\ [IoNext]_ioVars => [Spent => Spent']_ioVars
  <2>. SUFFICES ASSUME IoInv, IoNext, Spent PROVE Spent'
    BY DEF ioVars
  <2>1. ~ProbeCall
    BY ProbeText DEF Spent, ProbeCall, gpio_request
  <2>2. CASE ProbeFails \/ OtherFrees
    BY <2>2 DEF ProbeFails, OtherFrees, registry, pins, Spent
  <2>3. CASE iopower_init \/ InitHalf \/ iopower_exit \/ Bind \/ iopower_remove
    BY <2>3 DEF iopower_init, InitHalf, iopower_exit, Bind, iopower_remove, StartProbe, registry, pins, Spent
  <2>4. CASE iopower_suspend \/ SuspendFails \/ iopower_resume \/ ResumeFails
    BY <2>4 DEF iopower_suspend, SuspendFails, iopower_resume, ResumeFails, gpio_set, registry, pins, Spent
  <2>. QED BY <2>1, <2>2, <2>3, <2>4 DEF IoNext
<1>. QED BY <1>1, IoInvariant, PTL DEF IoSpec

-----------------------------------------------------------------------------
(* The programs that use sysfs.                                            *)

\* The calls of modem.cpp one by one.
LEMMA ModemText ==
  /\ Len(ModemMain) = 8
  /\ ModemMain[1] = Gpio_init(pwren_4g) /\ ModemMain[2] = Gpio_init(pwrkey_4g)
  /\ ModemMain[3] = GpioSetDirection(pwren_4g, "out")
  /\ ModemMain[4] = GpioSetDirection(pwrkey_4g, "out")
  /\ ModemMain[5] = GpioSetValue(pwren_4g, 1) /\ ModemMain[6] = GpioSetValue(pwrkey_4g, 0)
  /\ ModemMain[7] = GpioGetDirection(pwren_4g) /\ ModemMain[8] = GpioGetValue(pwren_4g)
BY DEF ModemMain, Constructors, modem_init

\* The calls of sys_gpio.c one by one.
LEMMA SysText ==
  /\ Len(SysGpioMain) = 6
  /\ SysGpioMain[1] = Gpio_init(GPIO_PIN) /\ SysGpioMain[2] = GpioSetDirection(GPIO_PIN, "out")
  /\ SysGpioMain[3] = GpioSetValue(GPIO_PIN, 1) /\ SysGpioMain[4] = GpioGetDirection(GPIO_PIN)
  /\ SysGpioMain[5] = GpioGetValue(GPIO_PIN) /\ SysGpioMain[6] = Gpio_destroy(GPIO_PIN)
BY DEF SysGpioMain

\* What the proofs need to know of the program texts: a pin is exported before it is used,
\* given a direction before it is asked for, destroyed in the end and by sys_gpio.c only;
\* and where modem.cpp sets its two pins.
TextOK(p) ==
  \A k \in 1..Len(Calls(p)) :
    LET c == Calls(p)[k] IN
    /\ c.call \in {"export", "unexport", "direction", "value", "direction?", "value?"}
    /\ c.pin \in SysPins
    /\ c.call = "export" => c = Gpio_init(c.pin)
    /\ c.call = "unexport" => c = Gpio_destroy(c.pin) /\ c.pin = GPIO_PIN
    /\ c.call = "direction" => c.to = "out"
    /\ c.call = "value" => c.to \in {0, 1}
    /\ c.call \notin {"export", "unexport"} => \E j \in 1..(k - 1) : Calls(p)[j] = Gpio_init(c.pin)
    /\ c.call # "unexport" => \A j \in 1..k : Calls(p)[j].call # "unexport"
    /\ Getter(c) => \E j \in 1..(k - 1) : Calls(p)[j].call = "direction" /\ Calls(p)[j].pin = c.pin
    /\ c.pin = pwren_4g /\ c.call = "direction" => Text[p] = "modem" /\ k = 3
    /\ c.pin = pwren_4g /\ c.call = "value" => Text[p] = "modem" /\ k = 5 /\ c.to = 1
    /\ c.pin = pwrkey_4g /\ c.call = "direction" => Text[p] = "modem" /\ k = 4
    /\ c.pin = pwrkey_4g /\ c.call = "value" => Text[p] = "modem" /\ k = 6 /\ c.to = 0
    /\ Text[p] = "modem" /\ k = 3 => c.call = "direction" /\ c.pin = pwren_4g
    /\ Text[p] = "modem" /\ k = 4 => c.call = "direction" /\ c.pin = pwrkey_4g
    /\ Text[p] = "modem" /\ k = 5 => c.call = "value" /\ c.pin = pwren_4g

\* Both program texts are as TextOK says.
LEMMA TextLemma ==
  ASSUME NEW p \in SysPrograms
  PROVE  TextOK(p) /\ Len(Calls(p)) \in {6, 8} /\ (Text[p] = "modem" => Len(Calls(p)) = 8)
<1>. USE DEF Gpio_init, Gpio_destroy, GpioSetDirection, GpioSetValue, GpioGetDirection, GpioGetValue,
             GPIO_PIN, pwren_4g, pwrkey_4g, SysPins, Getter
<1>1. CASE Text[p] = "modem"
  <2>1. Calls(p) = ModemMain
    BY <1>1 DEF Calls
  <2>2. Len(Calls(p)) = 8
    BY <2>1, ModemText
  <2>3. TextOK(p)
    <3>. SUFFICES ASSUME NEW k \in 1..8 PROVE TextOK(p)!(k)
      BY <2>2 DEF TextOK
    <3>1. CASE k = 1
      BY <1>1, <2>1, <3>1, ModemText DEF TextOK
    <3>2. CASE k = 2
      BY <1>1, <2>1, <3>2, ModemText DEF TextOK
    <3>3. CASE k = 3
      BY <1>1, <2>1, <3>3, ModemText DEF TextOK
    <3>4. CASE k = 4
      BY <1>1, <2>1, <3>4, ModemText DEF TextOK
    <3>5. CASE k = 5
      BY <1>1, <2>1, <3>5, ModemText DEF TextOK
    <3>6. CASE k = 6
      BY <1>1, <2>1, <3>6, ModemText DEF TextOK
    <3>7. CASE k = 7
      BY <1>1, <2>1, <3>7, ModemText DEF TextOK
    <3>8. CASE k = 8
      BY <1>1, <2>1, <3>8, ModemText DEF TextOK
    <3>. QED BY <3>1, <3>2, <3>3, <3>4, <3>5, <3>6, <3>7, <3>8
  <2>. QED BY <2>2, <2>3
<1>2. CASE Text[p] # "modem"
  <2>1. Calls(p) = SysGpioMain
    BY <1>2 DEF Calls
  <2>2. Len(Calls(p)) = 6
    BY <2>1, SysText
  <2>3. TextOK(p)
    <3>. SUFFICES ASSUME NEW k \in 1..6 PROVE TextOK(p)!(k)
      BY <2>2 DEF TextOK
    <3>1. CASE k = 1
      BY <1>2, <2>1, <3>1, SysText DEF TextOK
    <3>2. CASE k = 2
      BY <1>2, <2>1, <3>2, SysText DEF TextOK
    <3>3. CASE k = 3
      BY <1>2, <2>1, <3>3, SysText DEF TextOK
    <3>4. CASE k = 4
      BY <1>2, <2>1, <3>4, SysText DEF TextOK
    <3>5. CASE k = 5
      BY <1>2, <2>1, <3>5, SysText DEF TextOK
    <3>6. CASE k = 6
      BY <1>2, <2>1, <3>6, SysText DEF TextOK
    <3>. QED BY <3>1, <3>2, <3>3, <3>4, <3>5, <3>6
  <2>. QED BY <1>2, <2>2, <2>3
<1>. QED BY <1>1, <1>2

SysTypeOK ==
  /\ exported \in [SysPins -> Nat] /\ exports \in Nat
  /\ pindir \in [SysPins -> {"in", "out"}] /\ val \in [SysPins -> {0, 1}]
  /\ at \in [SysPrograms -> Nat] /\ opened \in [SysPrograms -> Nat]
  /\ \A p \in SysPrograms : at[p] \in 1..(Len(Calls(p)) + 1)
  /\ got \in [SysPrograms -> Seq(Int)]
  /\ fallen \subseteq SysPrograms

\* Another program has destroyed the pin
Other(p, n) == \E q \in SysPrograms \ {p} : Destroys(q, n)

\* A driver's pin is never exported; a pin that a program has exported still is, unless it is
\* a driver's or was destroyed; so is the one of a file that is open, as it was when it was
\* opened; and a program that has set a direction did not do so for a driver's pin
ExportInv ==
  /\ \A n \in SysPins : n \in taken => exported[n] = 0
  /\ \A p \in SysPrograms, n \in SysPins : \A k \in 1..(at[p] - 1) :
       Calls(p)[k] = Gpio_init(n) =>
         n \in taken \/ exported[n] > 0 \/ \E q \in SysPrograms : Destroys(q, n)
  /\ \A p \in SysPrograms : at[p] <= Len(Calls(p)) /\ opened[p] # 0 /\ ~Control(Now(p)) =>
       /\ Now(p).pin \notin taken
       /\ exported[Now(p).pin] = opened[p] \/ Other(p, Now(p).pin)
  /\ \A p \in SysPrograms : \A k \in 1..(at[p] - 1) :
       Calls(p)[k].call = "direction" => Calls(p)[k].pin \notin taken

\* Why programs fall, and why getters fail
CauseInv ==
  /\ \A p \in fallen : p \in denied \/ \E n \in PinsOf(p) : n \in taken \/ Other(p, n)
  /\ \A p \in SysPrograms : \A k \in 1..Len(got[p]) :
       got[p][k] = -1 => p \in denied \/ \E n \in PinsOf(p) : Other(p, n)

\* The modem's pins: after a program has set the supply's direction the supply is on, or a
\* program is between pulling it low and switching it on; the key is never high
ModemInv ==
  /\ val[pwrkey_4g] = 0
  /\ \A p \in SysPrograms : Text[p] = "modem" /\ at[p] > 3 =>
       /\ pindir[pwren_4g] = "out"
       /\ val[pwren_4g] = 1 \/ \E q \in SysPrograms : Text[q] = "modem" /\ at[q] \in {4, 5}
  /\ \A p \in SysPrograms : Text[p] = "modem" /\ at[p] > 4 => pindir[pwrkey_4g] = "out"

SysInv == SysTypeOK /\ ExportInv /\ CauseInv /\ ModemInv

\* A running program's call is one of its text, with the facts of TextOK at hand.
LEMMA NowLemma ==
  ASSUME SysTypeOK, NEW p \in SysPrograms, at[p] <= Len(Calls(p))
  PROVE  /\ at[p] \in 1..Len(Calls(p)) /\ Now(p) = Calls(p)[at[p]]
         /\ Now(p).pin \in SysPins /\ Now(p).pin \in PinsOf(p)
         /\ Now(p).call \in {"export", "unexport", "direction", "value", "direction?", "value?"}
<1>1. at[p] \in 1..Len(Calls(p)) /\ Now(p) = Calls(p)[at[p]]
  BY TextLemma DEF SysTypeOK, Now
<1>2. TextOK(p)
  BY TextLemma
<1>. QED BY <1>1, <1>2 DEF TextOK, PinsOf

\* Nobody destroys a pin of the modem, and a program that still has pins to use has
\* destroyed none.
LEMMA DestroysLemma ==
  ASSUME SysTypeOK, NEW p \in SysPrograms, NEW n
  PROVE  /\ Destroys(p, n) => n = GPIO_PIN
         /\ at[p] <= Len(Calls(p)) /\ Now(p).call # "unexport" => ~Destroys(p, n)
<1>. SUFFICES ASSUME NEW k \in 1..(at[p] - 1), Calls(p)[k] = Gpio_destroy(n)
              PROVE  n = GPIO_PIN /\ ~(at[p] <= Len(Calls(p)) /\ Now(p).call # "unexport")
  BY DEF Destroys
<1>1. at[p] \in 1..(Len(Calls(p)) + 1) /\ Len(Calls(p)) \in Nat /\ TextOK(p)
  BY TextLemma DEF SysTypeOK
<1>2. k \in 1..Len(Calls(p)) /\ k \in 1..at[p]
  BY <1>1
<1>3. Calls(p)[k].call = "unexport" /\ Calls(p)[k].pin = n
  BY DEF Gpio_destroy
<1>4. n = GPIO_PIN
  BY <1>1, <1>2, <1>3 DEF TextOK
<1>5. ASSUME at[p] <= Len(Calls(p)), Now(p).call # "unexport" PROVE FALSE
  <2>1. at[p] \in 1..Len(Calls(p)) /\ Now(p) = Calls(p)[at[p]]
    BY <1>1, <1>5 DEF Now
  <2>2. \A j \in 1..at[p] : Calls(p)[j].call # "unexport"
    BY <1>1, <1>5, <2>1 DEF TextOK
  <2>. QED BY <1>2, <1>3, <2>2
<1>. QED BY <1>4, <1>5

\* What a step leaves alone when a program goes on to its next call
Goes(p) ==
  /\ at' = [at EXCEPT ![p] = @ + 1]
  /\ opened' = [opened EXCEPT ![p] = 0]
  /\ UNCHANGED taken

\* A program that goes on leaves its last call behind, and no destroyed pin is forgotten.
LEMMA GoesLemma ==
  ASSUME SysTypeOK, NEW p \in SysPrograms, Goes(p), at[p] <= Len(Calls(p))
  PROVE  /\ at' \in [SysPrograms -> Nat] /\ opened' \in [SysPrograms -> Nat]
         /\ \A q \in SysPrograms : at'[q] \in 1..(Len(Calls(q)) + 1)
         /\ at'[p] = at[p] + 1 /\ opened'[p] = 0
         /\ \A q \in SysPrograms : q # p => at'[q] = at[q] /\ opened'[q] = opened[q] /\ Now(q)' = Now(q)
         /\ \A q \in SysPrograms : \A n : Destroys(q, n) => Destroys(q, n)'
         /\ \A q \in SysPrograms : \A n : Other(q, n) => Other(q, n)'
         /\ \A q \in SysPrograms : \A k \in 1..(at'[q] - 1) :
              k \in 1..(at[q] - 1) \/ (q = p /\ k = at[p] /\ Calls(q)[k] = Now(p))
<1>1. at \in [SysPrograms -> Nat] /\ opened \in [SysPrograms -> Nat]
      /\ \A q \in SysPrograms : at[q] \in 1..(Len(Calls(q)) + 1) /\ Len(Calls(q)) \in Nat
  BY TextLemma DEF SysTypeOK
<1>2. /\ at'[p] = at[p] + 1 /\ opened'[p] = 0
      /\ at' \in [SysPrograms -> Nat] /\ opened' \in [SysPrograms -> Nat]
  BY <1>1 DEF Goes
<1>3. \A q \in SysPrograms : q # p => at'[q] = at[q] /\ opened'[q] = opened[q]
  BY <1>1 DEF Goes
<1>4. \A q \in SysPrograms : q # p => Now(q)' = Now(q)
  BY <1>3 DEF Now, Calls
<1>5. \A q \in SysPrograms : at'[q] \in 1..(Len(Calls(q)) + 1)
  <2>1. at'[p] \in 1..(Len(Calls(p)) + 1)
    <3>1. at[p] \in 1..(Len(Calls(p)) + 1) /\ Len(Calls(p)) \in Nat
      BY <1>1
    <3>. QED BY <1>2, <3>1
  <2>. QED BY <1>1, <1>3, <2>1
<1>6. \A q \in SysPrograms : at[q] \in Nat /\ at'[q] \in Nat /\ at[q] <= at'[q]
  <2>1. \A q \in SysPrograms : at[q] \in Nat /\ at'[q] \in Nat
    BY <1>1, <1>2
  <2>2. at[p] <= at'[p]
    BY <1>2, <2>1
  <2>3. \A q \in SysPrograms : q # p => at[q] <= at'[q]
    BY <1>3, <2>1
  <2>. QED BY <2>1, <2>2, <2>3
<1>7. \A q \in SysPrograms : \A k \in 1..(at[q] - 1) : k \in 1..(at'[q] - 1)
  BY <1>6
<1>8. \A q \in SysPrograms : \A n : Destroys(q, n) => Destroys(q, n)'
  BY <1>7 DEF Destroys, Calls
<1>9. \A q \in SysPrograms : \A n : Other(q, n) => Other(q, n)'
  BY <1>8 DEF Other
<1>10. \A q \in SysPrograms : \A k \in 1..(at'[q] - 1) :
         k \in 1..(at[q] - 1) \/ (q = p /\ k = at[p] /\ Calls(q)[k] = Now(p))
  BY <1>1, <1>2, <1>3, SMTT(30) DEF Now
<1>. QED BY <1>2, <1>3, <1>4, <1>5, <1>8, <1>9, <1>10

\* Opening a file keeps the invariant: the pin is exported as it is opened.
LEMMA FopenKeeps == ASSUME SysInv, NEW p \in SysPrograms, fopen(p) PROVE SysInv'
<1>0. SysTypeOK /\ ExportInv /\ CauseInv /\ ModemInv
  BY DEF SysInv
<1>1. /\ at[p] <= Len(Calls(p)) /\ Openable(Now(p))
      /\ opened' = [opened EXCEPT ![p] = IF Control(Now(p)) THEN 1 ELSE exported[Now(p).pin]]
      /\ UNCHANGED <<taken, exported, exports, pindir, val, at, got, fallen, denied>>
  BY DEF fopen, Runs
<1>2. Now(p).pin \in SysPins /\ exported[Now(p).pin] \in Nat
  BY <1>0, <1>1, NowLemma DEF SysTypeOK
<1>3. opened' \in [SysPrograms -> Nat] /\ (\A q \in SysPrograms : q # p => opened'[q] = opened[q])
      /\ (~Control(Now(p)) => opened'[p] = exported[Now(p).pin])
  BY <1>0, <1>1, <1>2 DEF SysTypeOK
<1>4. \A q \in SysPrograms : Now(q)' = Now(q) /\ at'[q] = at[q] /\ (Calls(q) = Calls(q)')
  BY <1>1 DEF Now, Calls
<1>5. \A q \in SysPrograms : \A n : (Destroys(q, n)' <=> Destroys(q, n)) /\ (Other(q, n)' <=> Other(q, n))
  BY <1>1 DEF Destroys, Calls, Other
<1>6. SysTypeOK'
  BY <1>0, <1>1, <1>3, <1>4 DEF SysTypeOK
<1>7. ExportInv'
  <2>1. ASSUME NEW q \in SysPrograms, at'[q] <= Len(Calls(q)), opened'[q] # 0, ~Control(Now(q))
        PROVE  /\ Now(q).pin \notin taken
               /\ exported[Now(q).pin] = opened'[q] \/ Other(q, Now(q).pin)
    <3>1. CASE q = p
      <4>1. exported[Now(p).pin] > 0
        BY <1>1, <2>1, <3>1 DEF Openable
      <4>2. Now(p).pin \notin taken
        BY <1>0, <1>2, <4>1 DEF ExportInv
      <4>. QED BY <1>3, <2>1, <3>1, <4>2
    <3>2. CASE q # p
      BY <1>0, <1>1, <1>3, <2>1, <3>2 DEF ExportInv
    <3>. QED BY <3>1, <3>2
  <2>2. \A n \in SysPins : n \in taken' => exported'[n] = 0
    BY <1>0, <1>1 DEF ExportInv
  <2>3. \A q \in SysPrograms, n \in SysPins : \A k \in 1..(at'[q] - 1) :
          Calls(q)[k] = Gpio_init(n) =>
            n \in taken' \/ exported'[n] > 0 \/ \E r \in SysPrograms : Destroys(r, n)'
    BY <1>0, <1>1, <1>5 DEF ExportInv
  <2>4. \A q \in SysPrograms : \A k \in 1..(at'[q] - 1) :
          Calls(q)[k].call = "direction" => Calls(q)[k].pin \notin taken'
    BY <1>0, <1>1 DEF ExportInv
  <2>. QED BY <1>1, <1>4, <1>5, <2>1, <2>2, <2>3, <2>4 DEF ExportInv, Gpio_init, Control
<1>8. CauseInv'
  BY <1>0, <1>1, <1>5 DEF CauseInv, PinsOf, Calls, SysTypeOK
<1>9. ModemInv'
  BY <1>0, <1>1 DEF ModemInv
<1>. QED BY <1>6, <1>7, <1>8, <1>9 DEF SysInv

\* A program that falls has a reason: it was denied a file that was there, or it exported the
\* pin, which is not exported now.
LEMMA FallKeeps == ASSUME SysInv, NEW p \in SysPrograms, fcloseNull(p) PROVE SysInv'
<1>0. SysTypeOK /\ ExportInv /\ CauseInv /\ ModemInv
  BY DEF SysInv
<1>1. /\ at[p] <= Len(Calls(p)) /\ ~Getter(Now(p)) /\ fallen' = fallen \cup {p}
      /\ UNCHANGED <<taken, exported, exports, pindir, val, at, opened, got>>
      /\ denied' = IF Openable(Now(p)) THEN denied \cup {p} ELSE denied
  BY DEF fcloseNull, Runs, OpenRefused
<1>2. \A q \in SysPrograms : \A n : (Destroys(q, n)' <=> Destroys(q, n)) /\ (Other(q, n)' <=> Other(q, n))
  BY <1>1 DEF Destroys, Calls, Other
<1>3. SysTypeOK'
  BY <1>0, <1>1 DEF SysTypeOK, Calls
<1>4. ExportInv'
  BY <1>0, <1>1, <1>2 DEF ExportInv, Now, Calls, Gpio_init, Control
<1>5. ~Openable(Now(p)) => Now(p).pin \in PinsOf(p) /\ (Now(p).pin \in taken \/ Other(p, Now(p).pin))
  <2>. HAVE ~Openable(Now(p))
  <2>1. /\ at[p] \in 1..Len(Calls(p)) /\ Now(p) = Calls(p)[at[p]] /\ Now(p).pin \in SysPins
        /\ Now(p).pin \in PinsOf(p) /\ TextOK(p)
    BY <1>0, <1>1, NowLemma, TextLemma
  <2>2. ~Control(Now(p)) /\ exported[Now(p).pin] \in Nat /\ ~(exported[Now(p).pin] > 0)
    BY <1>0, <1>1, <2>1 DEF Openable, SysTypeOK
  <2>3. PICK j \in 1..(at[p] - 1) : Calls(p)[j] = Gpio_init(Now(p).pin)
    BY <2>1, <2>2 DEF TextOK, Control
  <2>4. Now(p).pin \in taken \/ \E q \in SysPrograms : Destroys(q, Now(p).pin)
    BY <1>0, <2>1, <2>2, <2>3 DEF ExportInv
  <2>5. ~Destroys(p, Now(p).pin)
    BY <1>0, <1>1, <2>2, DestroysLemma DEF Control
  <2>. QED BY <2>1, <2>4, <2>5 DEF Other
<1>6. CauseInv'
  <2>0. denied \subseteq denied' /\ (Openable(Now(p)) => p \in denied')
    BY <1>1
  <2>1. \A q \in fallen' : q \in denied' \/ \E n \in PinsOf(q) : n \in taken' \/ Other(q, n)'
    BY <1>0, <1>1, <1>2, <1>5, <2>0 DEF CauseInv, SysTypeOK
  <2>2. \A q \in SysPrograms : \A k \in 1..Len(got'[q]) :
          got'[q][k] = -1 => q \in denied' \/ \E n \in PinsOf(q) : Other(q, n)'
    BY <1>0, <1>1, <1>2, <2>0 DEF CauseInv
  <2>. QED BY <2>1, <2>2 DEF CauseInv, PinsOf, Calls
<1>7. ModemInv'
  BY <1>0, <1>1 DEF ModemInv
<1>. QED BY <1>3, <1>4, <1>6, <1>7 DEF SysInv

\* How the exports change while a program goes on to its next call: a free pin is
\* exported, or the program's call is to give the pin back
ExportsMove(p) ==
  /\ \A n \in SysPins :
       \/ exported'[n] = exported[n]
       \/ exported[n] = 0 /\ n \notin taken /\ exported'[n] > 0
       \/ Now(p) = Gpio_destroy(n) /\ exported'[n] = 0
  /\ \A n \in SysPins : Now(p) = Gpio_init(n) => n \in taken \/ exported'[n] > 0
  /\ Now(p).call = "direction" => Now(p).pin \notin taken

\* A program that goes on keeps what is known of the exports.
LEMMA GoesExport ==
  ASSUME SysTypeOK, SysTypeOK', ExportInv, NEW p \in SysPrograms, Goes(p), at[p] <= Len(Calls(p)),
         ExportsMove(p)
  PROVE  ExportInv'
<1>1. /\ at'[p] = at[p] + 1 /\ opened'[p] = 0
      /\ \A q \in SysPrograms : q # p => at'[q] = at[q] /\ opened'[q] = opened[q] /\ Now(q)' = Now(q)
      /\ \A q \in SysPrograms : \A n : Destroys(q, n) => Destroys(q, n)'
      /\ \A q \in SysPrograms : \A n : Other(q, n) => Other(q, n)'
      /\ \A q \in SysPrograms : \A k \in 1..(at'[q] - 1) :
           k \in 1..(at[q] - 1) \/ (q = p /\ k = at[p] /\ Calls(q)[k] = Now(p))
  BY GoesLemma
<1>2. taken' = taken /\ exported \in [SysPins -> Nat] /\ exported' \in [SysPins -> Nat]
      /\ \A q \in SysPrograms : Calls(q)' = Calls(q)
  BY DEF Goes, SysTypeOK, Calls
<1>3. \A n : Now(p) = Gpio_destroy(n) => Destroys(p, n)'
  <2>1. at[p] \in 1..(at'[p] - 1) /\ Calls(p)[at[p]] = Now(p)
    BY <1>1 DEF SysTypeOK, Now
  <2>. QED BY <1>2, <2>1 DEF Destroys, Gpio_destroy
<1>4. \A n \in SysPins : n \in taken' => exported'[n] = 0
  BY <1>2 DEF ExportInv, ExportsMove
<1>5. ASSUME NEW q \in SysPrograms, NEW n \in SysPins, NEW k \in 1..(at'[q] - 1), Calls(q)[k] = Gpio_init(n)
      PROVE  n \in taken' \/ exported'[n] > 0 \/ \E r \in SysPrograms : Destroys(r, n)'
  <2>1. CASE k \in 1..(at[q] - 1)
    <3>1. n \in taken \/ exported[n] > 0 \/ \E r \in SysPrograms : Destroys(r, n)
      BY <1>5, <2>1 DEF ExportInv
    <3>2. CASE n \in taken \/ \E r \in SysPrograms : Destroys(r, n)
      BY <1>1, <1>2, <3>2
    <3>3. CASE exported[n] > 0
      BY <1>2, <1>3, <3>3 DEF ExportsMove
    <3>. QED BY <3>1, <3>2, <3>3
  <2>2. CASE Calls(q)[k] = Now(p)
    BY <1>2, <1>5, <2>2 DEF ExportsMove
  <2>. QED BY <1>1, <2>1, <2>2
<1>6. ASSUME NEW q \in SysPrograms, at'[q] <= Len(Calls(q)), opened'[q] # 0, ~Control(Now(q)')
      PROVE  /\ Now(q)'.pin \notin taken'
             /\ exported'[Now(q)'.pin] = opened'[q] \/ Other(q, Now(q).pin)'
  <2>1. q # p /\ at'[q] = at[q] /\ opened'[q] = opened[q] /\ Now(q)' = Now(q)
    BY <1>1, <1>6
  <2>2. PICK n \in SysPins : n = Now(q).pin
    BY <1>6, <2>1, NowLemma
  <2>3. n \notin taken /\ (exported[n] = opened[q] \/ Other(q, n))
    BY <1>6, <2>1, <2>2 DEF ExportInv
  <2>4. CASE Other(q, n)
    <3>1. Other(q, n)'
      BY <1>1, <2>4
    <3>2. n = Now(q).pin'
      BY <2>1, <2>2
    <3>. QED BY <1>2, <2>1, <2>2, <2>3, <3>1, <3>2 DEF Other, Destroys, Gpio_destroy
  <2>5. CASE exported[n] = opened[q]
    <3>1. exported[n] # 0
      BY <1>6, <2>1, <2>5
    <3>2. exported'[n] = exported[n] \/ Now(p) = Gpio_destroy(n)
      BY <3>1 DEF ExportsMove
    <3>3. CASE exported'[n] = exported[n]
      BY <1>2, <2>1, <2>2, <2>3, <2>5, <3>3
    <3>4. CASE Now(p) = Gpio_destroy(n)
      <4>1. Other(q, n)'
        BY <1>3, <2>1, <3>4 DEF Other
      <4>. QED BY <1>2, <2>1, <2>2, <2>3, <4>1 DEF Other, Destroys, Gpio_destroy
    <3>. QED BY <3>2, <3>3, <3>4
  <2>. QED BY <2>3, <2>4, <2>5
<1>7. \A q \in SysPrograms : \A k \in 1..(at'[q] - 1) :
        Calls(q)[k].call = "direction" => Calls(q)[k].pin \notin taken'
  BY <1>1, <1>2 DEF ExportInv, ExportsMove
<1>. QED BY <1>2, <1>4, <1>5, <1>6, <1>7 DEF ExportInv, Gpio_init, Control

\* A program that goes on and falls not, with a reason for each -1 it gets, keeps the reasons.
LEMMA GoesCause ==
  ASSUME SysTypeOK, CauseInv, NEW p \in SysPrograms, Goes(p), at[p] <= Len(Calls(p)), UNCHANGED fallen,
         denied \subseteq denied',
         \A q \in SysPrograms : \A k \in 1..Len(got'[q]) : got'[q][k] = -1 =>
           \/ k \in 1..Len(got[q]) /\ got'[q][k] = got[q][k]
           \/ q \in denied' \/ \E n \in PinsOf(q) : Other(q, n)
  PROVE  CauseInv'
<1>1. \A q \in SysPrograms : \A n : Other(q, n) => Other(q, n)'
  BY GoesLemma
<1>2. \A q \in SysPrograms : \A k \in 1..Len(got'[q]) :
        got'[q][k] = -1 => q \in denied' \/ \E n \in PinsOf(q) : Other(q, n)'
  BY <1>1 DEF CauseInv
<1>3. \A q \in fallen' : q \in denied' \/ \E n \in PinsOf(q) : n \in taken' \/ Other(q, n)'
  BY <1>1 DEF CauseInv, Goes, SysTypeOK
<1>. QED BY <1>2, <1>3 DEF CauseInv, PinsOf, Calls

\* How the modem's pins change while a program goes on to its next call
PinsMove(p) ==
  /\ val'[pwrkey_4g] = 0
  /\ pindir[pwren_4g] = "out" => pindir'[pwren_4g] = "out"
  /\ pindir[pwrkey_4g] = "out" => pindir'[pwrkey_4g] = "out"
  /\ Text[p] = "modem" /\ at[p] = 3 => pindir'[pwren_4g] = "out"
  /\ Text[p] = "modem" /\ at[p] = 4 => pindir'[pwrkey_4g] = "out"
  /\ Text[p] = "modem" /\ at[p] = 5 => val'[pwren_4g] = 1
  /\ ~(Text[p] = "modem" /\ at[p] \in {3, 5}) => val'[pwren_4g] = val[pwren_4g]

\* A program that goes on keeps what is known of the modem's pins.
LEMMA GoesModem ==
  ASSUME SysTypeOK, ModemInv, NEW p \in SysPrograms, Goes(p), at[p] <= Len(Calls(p)), PinsMove(p)
  PROVE  ModemInv'
<1>1. /\ at'[p] = at[p] + 1 /\ \A q \in SysPrograms : at[q] \in Nat /\ at'[q] \in Nat
      /\ \A q \in SysPrograms : q # p => at'[q] = at[q]
  BY GoesLemma DEF SysTypeOK
<1>2. val'[pwrkey_4g] = 0
  BY DEF PinsMove
<1>3. ASSUME NEW q \in SysPrograms, Text[q] = "modem", at'[q] > 3
      PROVE  /\ pindir'[pwren_4g] = "out"
             /\ val'[pwren_4g] = 1 \/ \E r \in SysPrograms : Text[r] = "modem" /\ at'[r] \in {4, 5}
  <2>1. CASE Text[p] = "modem" /\ at[p] = 3
    <3>1. at'[p] \in {4, 5}
      BY <1>1, <2>1
    <3>. QED BY <2>1, <3>1 DEF PinsMove
  <2>2. CASE Text[p] = "modem" /\ at[p] = 5
    <3>1. pindir[pwren_4g] = "out"
      BY <2>2 DEF ModemInv
    <3>. QED BY <2>2, <3>1 DEF PinsMove
  <2>3. CASE ~(Text[p] = "modem" /\ at[p] \in {3, 5})
    <3>1. at[q] > 3
      BY <1>1, <1>3, <2>3
    <3>2. pindir[pwren_4g] = "out" /\ (val[pwren_4g] = 1 \/ \E r \in SysPrograms : Text[r] = "modem" /\ at[r] \in {4, 5})
      BY <1>3, <3>1 DEF ModemInv
    <3>3. ASSUME NEW r \in SysPrograms, Text[r] = "modem", at[r] \in {4, 5} PROVE at'[r] \in {4, 5}
      BY <1>1, <2>3, <3>3
    <3>. QED BY <2>3, <3>2, <3>3 DEF PinsMove
  <2>. QED BY <2>1, <2>2, <2>3
<1>4. ASSUME NEW q \in SysPrograms, Text[q] = "modem", at'[q] > 4 PROVE pindir'[pwrkey_4g] = "out"
  <2>1. CASE q = p /\ at[p] = 4
    BY <1>4, <2>1 DEF PinsMove
  <2>2. CASE ~(q = p /\ at[p] = 4)
    <3>1. at[q] > 4
      BY <1>1, <1>4, <2>2
    <3>. QED BY <1>4, <3>1 DEF ModemInv, PinsMove
  <2>. QED BY <2>1, <2>2
<1>. QED BY <1>2, <1>3, <1>4 DEF ModemInv

\* A getter, with a value or a failure for which there is a reason, keeps the invariant.
LEMMA GetterKeeps ==
  ASSUME SysInv, NEW p \in SysPrograms, at[p] <= Len(Calls(p)), Getter(Now(p)), Goes(p),
         UNCHANGED <<exported, exports, pindir, val, fallen>>, denied \subseteq denied',
         NEW x \in Int, got' = [got EXCEPT ![p] = Append(@, x)],
         x = -1 => p \in denied' \/ \E n \in PinsOf(p) : Other(p, n)
  PROVE  SysInv'
<1>0. SysTypeOK /\ ExportInv /\ CauseInv /\ ModemInv
  BY DEF SysInv
<1>1. /\ got'[p] = Append(got[p], x) /\ got[p] \in Seq(Int) /\ got' \in [SysPrograms -> Seq(Int)]
      /\ \A q \in SysPrograms : q # p => got'[q] = got[q]
  BY <1>0 DEF SysTypeOK
<1>2. SysTypeOK'
  BY <1>0, <1>1, GoesLemma DEF SysTypeOK, Calls
<1>3. ExportInv'
  <2>1. Now(p).call \in {"direction?", "value?"}
    BY DEF Getter
  <2>2. ExportsMove(p)
    BY <2>1 DEF ExportsMove, Gpio_init
  <2>. QED BY <1>0, <1>2, <2>2, GoesExport
<1>4. CauseInv'
  <2>1. ASSUME NEW q \in SysPrograms, NEW k \in 1..Len(got'[q]), got'[q][k] = -1
        PROVE  \/ k \in 1..Len(got[q]) /\ got'[q][k] = got[q][k]
               \/ q \in denied' \/ \E n \in PinsOf(q) : Other(q, n)
    <3>1. CASE q = p
      <4>1. (k \in 1..Len(got[p]) /\ got'[p][k] = got[p][k]) \/ got'[p][k] = x
        BY <1>1, <3>1
      <4>. QED BY <2>1, <3>1, <4>1
    <3>2. CASE q # p
      BY <1>1, <3>2
    <3>. QED BY <3>1, <3>2
  <2>. QED BY <1>0, <2>1, GoesCause
<1>5. ModemInv'
  <2>1. at[p] \in 1..Len(Calls(p)) /\ Now(p) = Calls(p)[at[p]] /\ TextOK(p)
    BY <1>0, NowLemma, TextLemma
  <2>2. ~(Text[p] = "modem" /\ at[p] \in {3, 4, 5})
    BY <2>1 DEF TextOK, Getter
  <2>3. PinsMove(p)
    BY <1>0, <2>2 DEF PinsMove, ModemInv
  <2>. QED BY <1>0, <2>3, GoesModem
<1>. QED BY <1>2, <1>3, <1>4, <1>5 DEF SysInv

\* A getter that fails has a reason: the program was denied the file, or it had set the pin's
\* direction, so that no driver owns it, and the pin is not exported as it was.
LEMMA GetFailsKeeps == ASSUME SysInv, NEW p \in SysPrograms, GetFails(p) PROVE SysInv'
<1>0. SysTypeOK /\ ExportInv
  BY DEF SysInv
<1>1. /\ at[p] <= Len(Calls(p)) /\ Getter(Now(p)) /\ Goes(p)
      /\ got' = [got EXCEPT ![p] = Append(@, -1)]
      /\ UNCHANGED <<exported, exports, pindir, val, fallen>>
      /\ \/ opened[p] = 0 /\ denied' = IF Openable(Now(p)) THEN denied \cup {p} ELSE denied
         \/ opened[p] # 0 /\ exported[Now(p).pin] # opened[p] /\ denied' = denied
  BY DEF GetFails, Runs, Returns, Goes, OpenRefused
<1>2. /\ at[p] \in 1..Len(Calls(p)) /\ Now(p) = Calls(p)[at[p]] /\ Now(p).pin \in SysPins
      /\ Now(p).pin \in PinsOf(p) /\ TextOK(p) /\ ~Control(Now(p)) /\ Now(p).call # "unexport"
  BY <1>0, <1>1, NowLemma, TextLemma DEF Control, Getter
<1>3. p \in denied' \/ Other(p, Now(p).pin)
  <2>1. CASE opened[p] = 0 /\ ~Openable(Now(p))
    <3>1. exported[Now(p).pin] \in Nat /\ ~(exported[Now(p).pin] > 0)
      BY <1>0, <1>2, <2>1 DEF Openable, SysTypeOK
    <3>2. PICK j \in 1..(at[p] - 1) : Calls(p)[j] = Gpio_init(Now(p).pin)
      BY <1>2 DEF TextOK, Control
    <3>3. PICK i \in 1..(at[p] - 1) : Calls(p)[i].call = "direction" /\ Calls(p)[i].pin = Now(p).pin
      BY <1>1, <1>2 DEF TextOK
    <3>4. Now(p).pin \notin taken
      BY <1>0, <3>3 DEF ExportInv
    <3>5. \E q \in SysPrograms : Destroys(q, Now(p).pin)
      BY <1>0, <1>2, <3>1, <3>2, <3>4 DEF ExportInv
    <3>6. ~Destroys(p, Now(p).pin)
      BY <1>0, <1>1, <1>2, DestroysLemma
    <3>. QED BY <3>5, <3>6 DEF Other
  <2>2. CASE opened[p] # 0 /\ exported[Now(p).pin] # opened[p]
    BY <1>0, <1>1, <1>2, <2>2 DEF ExportInv
  <2>3. CASE opened[p] = 0 /\ Openable(Now(p))
    BY <1>1, <2>3
  <2>. QED BY <1>1, <2>1, <2>2, <2>3
<1>4. denied \subseteq denied'
  BY <1>1
<1>. QED BY <1>1, <1>2, <1>3, <1>4, -1 \in Int, GetterKeeps

\* A getter that succeeds keeps the invariant.
LEMMA GetKeeps == ASSUME SysInv, NEW p \in SysPrograms, Get(p) PROVE SysInv'
<1>0. SysTypeOK
  BY DEF SysInv
<1>1. /\ at[p] <= Len(Calls(p)) /\ Getter(Now(p)) /\ Goes(p)
      /\ UNCHANGED <<exported, exports, pindir, val, fallen, denied>>
  BY DEF Get, Runs, Returns, Goes
<1>2. Now(p).pin \in SysPins
  BY <1>0, <1>1, NowLemma
<1>3. PICK x : x = IF Now(p).call = "value?" THEN val[Now(p).pin] ELSE IF pindir[Now(p).pin] = "in" THEN 1 ELSE 0
  OBVIOUS
<1>4. x \in {0, 1}
  BY <1>0, <1>2, <1>3 DEF SysTypeOK
<1>5. got' = [got EXCEPT ![p] = Append(@, x)]
  BY <1>3 DEF Get
<1>6. x \in Int /\ x # -1
  BY <1>4
<1>. QED BY <1>1, <1>5, <1>6, GetterKeeps

\* What a write does to the pins leaves their types alone, moves the exports as
\* ExportsMove says and the modem's pins as PinsMove says.
LEMMA FcloseMoves ==
  ASSUME SysInv, NEW p \in SysPrograms, fclose(p)
  PROVE  /\ exported' \in [SysPins -> Nat] /\ exports' \in Nat
         /\ pindir' \in [SysPins -> {"in", "out"}] /\ val' \in [SysPins -> {0, 1}]
         /\ ExportsMove(p) /\ PinsMove(p)
<1>0. SysTypeOK /\ ExportInv /\ CauseInv /\ ModemInv
  BY DEF SysInv
<1>1. /\ at[p] <= Len(Calls(p)) /\ opened[p] # 0 /\ ~Getter(Now(p))
      /\ Written(p) \/ (Refused(p) /\ UNCHANGED <<exported, exports, pindir, val>>)
  BY DEF fclose, Runs
<1>2. /\ at[p] \in 1..Len(Calls(p)) /\ Now(p) = Calls(p)[at[p]] /\ TextOK(p)
      /\ Now(p).call \in {"export", "unexport", "direction", "value"}
  BY <1>0, <1>1, NowLemma, TextLemma DEF Getter
<1>3. PICK n \in SysPins : n = Now(p).pin
  BY <1>0, <1>1, NowLemma
<1>4. /\ exported \in [SysPins -> Nat] /\ exports \in Nat
      /\ pindir \in [SysPins -> {"in", "out"}] /\ val \in [SysPins -> {0, 1}]
      /\ pwren_4g \in SysPins /\ pwrkey_4g \in SysPins /\ GPIO_PIN \in SysPins
      /\ pwren_4g # pwrkey_4g /\ pwren_4g # GPIO_PIN /\ pwrkey_4g # GPIO_PIN
      /\ val[pwrkey_4g] = 0
  BY <1>0 DEF SysTypeOK, SysPins, pwren_4g, pwrkey_4g, GPIO_PIN, ModemInv
<1>5. CASE Now(p).call = "export"
  <2>1. ~(Text[p] = "modem" /\ at[p] \in {3, 4, 5}) /\ Now(p) = Gpio_init(n)
    BY <1>2, <1>3, <1>5 DEF TextOK
  <2>2. \A m \in SysPins : Now(p) = Gpio_init(m) => m = n
    BY <1>3 DEF Gpio_init
  <2>3. CASE Written(p)
    <3>1. Export(n)
      BY <1>3, <1>5, <2>3 DEF Written
    <3>2. /\ n \notin taken /\ exported[n] = 0 /\ exports' = exports + 1 /\ pindir' = pindir /\ val' = val
          /\ exported' = [exported EXCEPT ![n] = exports + 1]
      BY <3>1 DEF Export
    <3>3. exported' \in [SysPins -> Nat] /\ exported'[n] > 0 /\ \A m \in SysPins : m # n => exported'[m] = exported[m]
      BY <1>4, <3>2
    <3>4. ExportsMove(p)
      BY <1>5, <2>2, <3>2, <3>3 DEF ExportsMove
    <3>5. PinsMove(p)
      BY <1>4, <2>1, <3>2 DEF PinsMove
    <3>. QED BY <1>4, <3>2, <3>3, <3>4, <3>5
  <2>4. CASE Refused(p) /\ UNCHANGED <<exported, exports, pindir, val>>
    <3>1. n \in taken \/ exported[n] > 0
      BY <1>3, <1>5, <2>4 DEF Refused
    <3>2. ExportsMove(p)
      BY <1>5, <2>2, <2>4, <3>1 DEF ExportsMove
    <3>3. PinsMove(p)
      BY <1>4, <2>1, <2>4 DEF PinsMove
    <3>. QED BY <1>4, <2>4, <3>2, <3>3
  <2>. QED BY <1>1, <2>3, <2>4
<1>6. CASE Now(p).call = "unexport"
  <2>1. ~(Text[p] = "modem" /\ at[p] \in {3, 4, 5}) /\ Now(p) = Gpio_destroy(n)
    BY <1>2, <1>3, <1>6 DEF TextOK
  <2>2. \A m \in SysPins : Now(p) # Gpio_init(m)
    BY <1>6 DEF Gpio_init
  <2>3. CASE Written(p)
    <3>1. Unexport(n)
      BY <1>3, <1>6, <2>3 DEF Written
    <3>2. exported' = [exported EXCEPT ![n] = 0] /\ exports' = exports /\ pindir' = pindir /\ val' = val
      BY <3>1 DEF Unexport
    <3>3. exported' \in [SysPins -> Nat] /\ exported'[n] = 0 /\ \A m \in SysPins : m # n => exported'[m] = exported[m]
      BY <1>4, <3>2
    <3>4. ExportsMove(p)
      BY <1>6, <2>1, <2>2, <3>2, <3>3 DEF ExportsMove
    <3>5. PinsMove(p)
      BY <1>4, <2>1, <3>2 DEF PinsMove
    <3>. QED BY <1>4, <3>2, <3>3, <3>4, <3>5
  <2>4. CASE Refused(p) /\ UNCHANGED <<exported, exports, pindir, val>>
    <3>1. ExportsMove(p)
      BY <1>6, <2>2, <2>4 DEF ExportsMove
    <3>2. PinsMove(p)
      BY <1>4, <2>1, <2>4 DEF PinsMove
    <3>. QED BY <1>4, <2>4, <3>1, <3>2
  <2>. QED BY <1>1, <2>3, <2>4
<1>7. CASE Now(p).call \in {"direction", "value"}
  <2>1. /\ n \notin taken /\ (exported[n] = opened[p] \/ Other(p, n))
        /\ \A m \in SysPins : Now(p) # Gpio_init(m)
    BY <1>0, <1>1, <1>3, <1>7 DEF ExportInv, Control, Gpio_init
  <2>2. n # GPIO_PIN => exported[n] = opened[p]
    BY <1>0, <2>1, DestroysLemma DEF Other
  <2>3. exported' = exported /\ exports' = exports
    BY <1>1, <1>7 DEF Written, SetDir, SetVal
  <2>4. ExportsMove(p)
    BY <1>3, <2>1, <2>3 DEF ExportsMove
  <2>5. CASE Now(p).call = "direction"
    <3>1. Now(p).to = "out" /\ (n = pwren_4g <=> Text[p] = "modem" /\ at[p] = 3)
          /\ (n = pwrkey_4g <=> Text[p] = "modem" /\ at[p] = 4) /\ ~(Text[p] = "modem" /\ at[p] = 5)
      BY <1>2, <1>3, <1>4, <2>5 DEF TextOK
    <3>2. CASE Written(p)
      <4>1. SetDir(p, Now(p))
        BY <2>5, <3>2 DEF Written
      <4>2. pindir' = [pindir EXCEPT ![n] = "out"] /\ val' = [val EXCEPT ![n] = 0]
        BY <1>3, <3>1, <4>1 DEF SetDir
      <4>3. pindir' \in [SysPins -> {"in", "out"}] /\ val' \in [SysPins -> {0, 1}]
            /\ pindir'[n] = "out" /\ val'[n] = 0
            /\ \A m \in SysPins : m # n => pindir'[m] = pindir[m] /\ val'[m] = val[m]
        BY <1>4, <4>2
      <4>4. PinsMove(p)
        BY <1>4, <3>1, <4>3 DEF PinsMove
      <4>. QED BY <1>4, <2>3, <2>4, <4>3, <4>4
    <3>3. CASE Refused(p) /\ UNCHANGED <<exported, exports, pindir, val>>
      <4>1. exported[n] # opened[p]
        BY <1>3, <2>5, <3>3 DEF Refused
      <4>2. n # pwren_4g /\ n # pwrkey_4g
        BY <1>4, <2>2, <4>1
      <4>3. PinsMove(p)
        BY <1>4, <3>1, <3>3, <4>2 DEF PinsMove
      <4>. QED BY <1>4, <2>4, <3>3, <4>3
    <3>. QED BY <1>1, <3>2, <3>3
  <2>6. CASE Now(p).call = "value"
    <3>1. Now(p).to \in {0, 1} /\ (n = pwren_4g <=> Text[p] = "modem" /\ at[p] = 5)
          /\ (n = pwren_4g => Now(p).to = 1) /\ (n = pwrkey_4g => Now(p).to = 0)
          /\ ~(Text[p] = "modem" /\ at[p] \in {3, 4})
      BY <1>2, <1>3, <1>4, <2>6 DEF TextOK
    <3>2. CASE Written(p)
      <4>1. SetVal(p, Now(p))
        BY <2>6, <3>2 DEF Written
      <4>2. val' = [val EXCEPT ![n] = Now(p).to] /\ pindir' = pindir
        BY <1>3, <4>1 DEF SetVal
      <4>3. val' \in [SysPins -> {0, 1}] /\ val'[n] = Now(p).to /\ \A m \in SysPins : m # n => val'[m] = val[m]
        BY <1>4, <3>1, <4>2
      <4>4. PinsMove(p)
        BY <1>4, <3>1, <4>2, <4>3 DEF PinsMove
      <4>. QED BY <1>4, <2>3, <2>4, <4>2, <4>3, <4>4
    <3>3. CASE Refused(p) /\ UNCHANGED <<exported, exports, pindir, val>>
      <4>1. exported[n] # opened[p] \/ pindir[n] # "out"
        BY <1>3, <2>6, <3>3 DEF Refused
      <4>2. n # pwren_4g
        <5>. SUFFICES ASSUME n = pwren_4g PROVE FALSE
          OBVIOUS
        <5>1. Text[p] = "modem" /\ at[p] = 5
          BY <3>1
        <5>2. pindir[n] = "out"
          BY <1>0, <5>1 DEF ModemInv
        <5>. QED BY <1>4, <2>2, <4>1, <5>2
      <4>3. PinsMove(p)
        BY <1>4, <3>1, <3>3, <4>2 DEF PinsMove
      <4>. QED BY <1>4, <2>4, <3>3, <4>3
    <3>. QED BY <1>1, <3>2, <3>3
  <2>. QED BY <1>7, <2>5, <2>6
<1>. QED BY <1>2, <1>5, <1>6, <1>7

\* A write, done or refused, keeps the invariant.
LEMMA FcloseKeeps == ASSUME SysInv, NEW p \in SysPrograms, fclose(p) PROVE SysInv'
<1>0. SysTypeOK /\ ExportInv /\ CauseInv /\ ModemInv
  BY DEF SysInv
<1>1. at[p] <= Len(Calls(p)) /\ Goes(p) /\ UNCHANGED <<got, fallen, denied>>
  BY DEF fclose, Runs, Returns, Goes
<1>2. SysTypeOK'
  BY <1>0, <1>1, GoesLemma, FcloseMoves DEF SysTypeOK, Calls
<1>3. ExportInv'
  BY <1>0, <1>1, <1>2, GoesExport, FcloseMoves
<1>4. CauseInv'
  BY <1>0, <1>1, GoesCause
<1>5. ModemInv'
  BY <1>0, <1>1, GoesModem, FcloseMoves
<1>. QED BY <1>2, <1>3, <1>4, <1>5 DEF SysInv

\* The inductive invariant of the sysfs programs (gpio_class.cpp:14-129, modem.cpp:6-13,
\* sys_gpio.c), for any number of programs, any pins owned by drivers and any opens that fail.
THEOREM SysInvariant == SysSpec => []SysInv
<1>1. SysInit => SysInv
  <2>. SUFFICES ASSUME SysInit PROVE SysInv
    OBVIOUS
  <2>1. /\ exported = [n \in SysPins |-> 0] /\ exports = 0 /\ pindir = [n \in SysPins |-> "in"]
        /\ val = [n \in SysPins |-> 0] /\ at = [p \in SysPrograms |-> 1]
        /\ opened = [p \in SysPrograms |-> 0] /\ got = [p \in SysPrograms |-> <<>>] /\ fallen = {}
    BY DEF SysInit
  <2>2. SysTypeOK
    BY <2>1, TextLemma DEF SysTypeOK
  <2>3. ExportInv
    BY <2>1 DEF ExportInv
  <2>4. CauseInv
    <3>1. \A p \in SysPrograms : Len(got[p]) = 0
      BY <2>1
    <3>. QED BY <2>1, <3>1 DEF CauseInv
  <2>5. ModemInv
    BY <2>1 DEF ModemInv, SysPins
  <2>. QED BY <2>2, <2>3, <2>4, <2>5 DEF SysInv
<1>2. SysInv /\ [SysNext]_sysVars => SysInv'
  <2>. SUFFICES ASSUME SysInv, [SysNext]_sysVars PROVE SysInv'
    OBVIOUS
  <2>1. CASE UNCHANGED sysVars
    <3>1. UNCHANGED <<taken, exported, exports, pindir, val, at, opened, got, fallen, denied>>
      BY <2>1 DEF sysVars
    <3>2. SysTypeOK' /\ ModemInv'
      BY <3>1 DEF SysInv, SysTypeOK, ModemInv, Calls
    <3>3. \A q \in SysPrograms : \A n : (Destroys(q, n)' <=> Destroys(q, n)) /\ (Other(q, n)' <=> Other(q, n))
      BY <3>1 DEF Destroys, Calls, Other
    <3>4. ExportInv'
      BY <3>1, <3>3 DEF SysInv, ExportInv, Now, Calls, Gpio_init, Control
    <3>5. CauseInv'
      BY <3>1, <3>3 DEF SysInv, CauseInv, PinsOf, Calls, SysTypeOK
    <3>. QED BY <3>2, <3>4, <3>5 DEF SysInv
  <2>. QED BY <2>1, FopenKeeps, FallKeeps, GetFailsKeeps, GetKeeps, FcloseKeeps DEF SysNext
<1>. QED BY <1>1, <1>2, PTL DEF SysSpec

\* However the calls of any number of programs mix and whichever opens fail: fclose(NULL) and
\* failing getters have their causes, and when the modem programs have come to their end the
\* supply is high and the key low (gpio_class.cpp:14-129, modem.cpp:6-13).
THEOREM SysGpioSettled == SysSpec => []GpioSettled
<1>1. SysInv => GpioSettled
  <2>. SUFFICES ASSUME SysInv PROVE GpioSettled
    OBVIOUS
  <2>1. SysTypeOK /\ CauseInv /\ ModemInv
    BY DEF SysInv
  <2>2. ASSUME SysEnded, \A q \in fallen : Text[q] # "modem", NEW p \in SysPrograms, Text[p] = "modem"
        PROVE  pindir[pwren_4g] = "out" /\ val[pwren_4g] = 1 /\ pindir[pwrkey_4g] = "out" /\ val[pwrkey_4g] = 0
    <3>1. \A q \in SysPrograms : Text[q] = "modem" => at[q] \in Nat /\ at[q] > 8
      <4>. SUFFICES ASSUME NEW q \in SysPrograms, Text[q] = "modem" PROVE at[q] \in Nat /\ at[q] > 8
        OBVIOUS
      <4>1. Len(Calls(q)) = 8 /\ at[q] \in Nat
        BY <2>1, TextLemma DEF SysTypeOK
      <4>2. ~(at[q] <= Len(Calls(q)))
        BY <2>2 DEF SysEnded, Runs
      <4>. QED BY <4>1, <4>2
    <3>2. at[p] > 3 /\ at[p] > 4
      BY <2>2, <3>1
    <3>3. ~\E q \in SysPrograms : Text[q] = "modem" /\ at[q] \in {4, 5}
      BY <3>1
    <3>. QED BY <2>1, <2>2, <3>2, <3>3 DEF ModemInv
  <2>. QED BY <2>1, <2>2 DEF GpioSettled, CauseInv, Other
<1>. QED BY <1>1, SysInvariant, PTL
=============================================================================
