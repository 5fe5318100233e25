------------------------------- MODULE IoPower -------------------------------
(***************************************************************************)
(* The modem's platform driver (ingenic_drv/gpio-quectel.c): probe takes   *)
(* three pins, switches the modem's supplies on and presses its power key  *)
(* once; suspend and resume switch one supply.  No path gives a pin back:  *)
(* neither a probe that fails half way nor remove nor the exit function.   *)
(* Another user may hold a pin, and switching a pin may fail.              *)
(***************************************************************************)
EXTENDS Naturals, Sequences

CONSTANTS MaxIoFaults,   \* pin operations that fail in a behaviour
          MaxIoCycles    \* loads, binds and suspends in a behaviour

ASSUME IoAssumption == MaxIoFaults \in Nat /\ MaxIoCycles \in Nat

PWREN == "MODEL_PWREN"
CTRL == "MODEL_CTRL"
POWERKEY == "MODEL_POWERKEY"
IoPins == {PWREN, CTRL, POWERKEY}

VARIABLES ioDevice,      \* iopower_device is registered
          ioDriver,      \* iopower_device_driver is registered
          bound,         \* the driver core has bound the two: probe returned 0
          probing,       \* the next call of iopower_probe, 0 when it is not running
          requested,     \* the pins this driver has requested
          foreign,       \* the pins others have requested
          level,         \* the pins
          asleep,        \* the system is suspended
          dark,          \* the last resume failed
          presses,       \* how often the power key was pressed
          ioFaults, ioCycles

ioVars == <<ioDevice, ioDriver, bound, probing, requested, foreign, level, asleep, dark,
            presses, ioFaults, ioCycles>>
registry == <<ioDevice, ioDriver, bound>>
pins == <<requested, foreign, level, presses>>
budget == <<ioFaults, ioCycles>>

IoInit ==
  /\ ioDevice = FALSE /\ ioDriver = FALSE /\ bound = FALSE /\ probing = 0
  /\ requested = {} /\ foreign \in {{}, {CTRL}}
  /\ level = [p \in IoPins |-> 0]
  /\ asleep = FALSE /\ dark = FALSE /\ presses = 0
  /\ ioFaults = 0 /\ ioCycles = 0

Idle == probing = 0 /\ ~asleep
Cycle == ioCycles < MaxIoCycles /\ ioCycles' = ioCycles + 1 /\ UNCHANGED ioFaults
Fault == ioFaults < MaxIoFaults /\ ioFaults' = ioFaults + 1 /\ UNCHANGED ioCycles

-----------------------------------------------------------------------------
(* iopower_probe: what it calls, in this order; each may fail but the last  *)
(* two, which press the power key.                                         *)

iopower_probe ==
  <<[call |-> "request", pin |-> PWREN],    [call |-> "output", pin |-> PWREN, val |-> 1],
    [call |-> "request", pin |-> CTRL],     [call |-> "output", pin |-> CTRL, val |-> 1],
    [call |-> "request", pin |-> POWERKEY], [call |-> "output", pin |-> POWERKEY, val |-> 0],
    [call |-> "set", pin |-> POWERKEY, val |-> 1], [call |-> "set", pin |-> POWERKEY, val |-> 0]>>

StartProbe == probing' = 1

gpio_request(p) ==
  /\ p \notin requested \cup foreign
  /\ requested' = requested \cup {p}
  /\ UNCHANGED <<foreign, level, presses>>

\* The key acts when it is released
gpio_set(p, v) ==
  /\ level' = [level EXCEPT ![p] = v]
  /\ presses' = IF p = POWERKEY /\ level[p] = 1 /\ v = 0 THEN presses + 1 ELSE presses
  /\ UNCHANGED <<requested, foreign>>

ProbeCall ==
  /\ probing > 0
  /\ LET c == iopower_probe[probing] IN
       \/ c.call = "request" /\ gpio_request(c.pin)
       \/ c.call # "request" /\ gpio_set(c.pin, c.val)
  /\ probing' = IF probing = Len(iopower_probe) THEN 0 ELSE probing + 1
  /\ bound' = (probing = Len(iopower_probe))
  /\ UNCHANGED <<ioDevice, ioDriver, asleep, dark, budget>>

\* A call fails: probe returns, and the pins it has got so far stay requested
ProbeFails ==
  /\ probing > 0
  /\ LET c == iopower_probe[probing] IN
       \/ c.call = "request" /\ c.pin \in requested \cup foreign /\ UNCHANGED budget
       \/ c.call = "output" /\ Fault
  /\ probing' = 0
  /\ UNCHANGED <<registry, pins, asleep, dark>>

-----------------------------------------------------------------------------
(* The module.  Registering the driver succeeds whether probe does or not. *)

iopower_init ==
  /\ Idle /\ ~ioDevice /\ ~ioDriver /\ Cycle
  /\ ioDevice' = TRUE /\ ioDriver' = TRUE
  /\ StartProbe
  /\ UNCHANGED <<bound, pins, asleep, dark>>

\* The driver cannot be registered: the module goes, its device stays registered, and no
\* later platform_device_register succeeds
InitHalf ==
  /\ Idle /\ ~ioDevice /\ ~ioDriver /\ Fault
  /\ ioDevice' = TRUE
  /\ UNCHANGED <<ioDriver, bound, probing, pins, asleep, dark>>

\* Mutant of iopower_exit: remove gives the pins back
ExitFrees ==
  /\ Idle /\ ioDriver
  /\ ioDevice' = FALSE /\ ioDriver' = FALSE /\ bound' = FALSE /\ requested' = {}
  /\ UNCHANGED <<probing, foreign, level, presses, asleep, dark, budget>>

\* Unregistering the device calls iopower_remove, which does nothing
iopower_exit ==
  /\ Idle /\ ioDriver
  /\ ioDevice' = FALSE /\ ioDriver' = FALSE /\ bound' = FALSE
  /\ UNCHANGED <<probing, pins, asleep, dark, budget>>

\* The driver core's bind and unbind files
Bind ==
  /\ Idle /\ ioDevice /\ ioDriver /\ ~bound /\ Cycle
  /\ StartProbe
  /\ UNCHANGED <<registry, pins, asleep, dark>>

iopower_remove ==
  /\ Idle /\ bound
  /\ bound' = FALSE
  /\ UNCHANGED <<ioDevice, ioDriver, probing, pins, asleep, dark, budget>>

-----------------------------------------------------------------------------
(* Power management.  The core calls the driver while it is bound.         *)

iopower_suspend ==
  /\ Idle /\ Cycle
  /\ IF bound THEN gpio_set(CTRL, 0) ELSE UNCHANGED pins
  /\ asleep' = TRUE
  /\ UNCHANGED <<registry, probing, dark>>

\* The core gives the suspend up; the pin is as it was
SuspendFails ==
  /\ Idle /\ bound /\ Fault
  /\ UNCHANGED <<registry, probing, pins, asleep, dark>>

iopower_resume ==
  /\ asleep
  /\ IF bound THEN level' = [level EXCEPT ![PWREN] = 1, ![CTRL] = 1] ELSE UNCHANGED level
  /\ asleep' = FALSE /\ dark' = FALSE
  /\ UNCHANGED <<registry, probing, requested, foreign, presses, budget>>

\* One of the two calls fails; the system wakes up all the same
ResumeFails ==
  /\ asleep /\ bound /\ Fault
  /\ level' \in {level, [level EXCEPT ![PWREN] = 1]}
  /\ asleep' = FALSE /\ dark' = TRUE
  /\ UNCHANGED <<registry, probing, requested, foreign, presses>>

\* Another user of a pin lets it go
OtherFrees ==
  /\ foreign # {}
  /\ foreign' = {}
  /\ UNCHANGED <<registry, probing, requested, level, presses, asleep, dark, budget>>

IoNext ==
  \/ ProbeCall \/ ProbeFails
  \/ iopower_init \/ InitHalf \/ iopower_exit \/ Bind \/ iopower_remove
  \/ iopower_suspend \/ SuspendFails \/ iopower_resume \/ ResumeFails
  \/ OtherFrees

IoSpec == IoInit /\ [][IoNext]_ioVars

-----------------------------------------------------------------------------
\* Whatever is loaded, unbound, suspended and bound again, the power key is pressed at
\* most once in the life of the system (a second press would switch the modem off): the
\* pins that a failed probe, remove and exit keep (gpio-quectel.c:41-74, 143-147) make
\* every later probe fail at its first request.  While the driver is bound and the
\* system awake the supplies are on, unless a resume failed (110-125).
ModemPowered ==
  /\ presses <= 1
  /\ bound => presses = 1 /\ requested = IoPins
  /\ bound /\ ~asleep /\ ~dark => level[PWREN] = 1 /\ level[CTRL] = 1
=============================================================================
