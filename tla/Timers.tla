------------------------------- MODULE Timers --------------------------------
(***************************************************************************)
(* The timers of time/time.c: struct timeval arithmetic around a clock     *)
(* that gettimeofday reads and that may be set back.  Times are counted in *)
(* the clock's smallest unit; UsPerMs and MsPerSec are 1000 in the code,   *)
(* IntRange, the number of values of an int, is 2^32.                      *)
(***************************************************************************)
EXTENDS Integers

CONSTANTS UsPerMs, MsPerSec, IntRange,
          Millis,      \* arguments of timer_cutdown and timer_assignment
          Strides,     \* how far the clock moves between two calls
          MaxClock

ASSUME TimersAssumption ==
  /\ UsPerMs \in Nat \ {0} /\ MsPerSec \in Nat \ {0} /\ IntRange \in Nat \ {0}
  /\ Millis \subseteq Int /\ Strides \subseteq Int /\ MaxClock \in Nat

VARIABLES clock,       \* what gettimeofday returns
          tstart, tend,       \* two timers, timevals
          startAt, endAt,     \* history: the times they stand for
          assigned            \* history: tend was set from a number of milliseconds

timerVars == <<clock, tstart, tend, startAt, endAt, assigned>>

UsPerSec == UsPerMs * MsPerSec

\* C division and remainder round towards zero
CDiv(a, b) == IF a >= 0 THEN a \div b ELSE -((-a) \div b)
CMod(a, b) == a - b * CDiv(a, b)
ToInt(n) == ((n + IntRange \div 2) % IntRange) - IntRange \div 2

gettimeofday == [sec |-> clock \div UsPerSec, usec |-> clock % UsPerSec]

\* Mutant of timersub: usec is not borrowed from sec
timersubPlain(a, b) == [sec |-> a.sec - b.sec, usec |-> a.usec - b.usec]

timersub(a, b) ==
  LET s == a.sec - b.sec
      u == a.usec - b.usec
  IN IF u < 0 THEN [sec |-> s - 1, usec |-> u + UsPerSec] ELSE [sec |-> s, usec |-> u]

timeradd(a, b) ==
  LET s == a.sec + b.sec
      u == a.usec + b.usec
  IN IF u >= UsPerSec THEN [sec |-> s + 1, usec |-> u - UsPerSec] ELSE [sec |-> s, usec |-> u]

TimerInit ==
  /\ clock = MaxClock \div 2
  /\ tstart = [sec |-> 0, usec |-> 0] /\ startAt = 0
  /\ tend = [sec |-> 0, usec |-> 0] /\ endAt = 0 /\ assigned = FALSE

-----------------------------------------------------------------------------
(* What the functions that only look return.                               *)

timer_spend == LET res == timersub(gettimeofday, tstart) IN
               ToInt(res.sec * MsPerSec + CDiv(res.usec, UsPerMs))

timer_remain == LET res == timersub(tend, gettimeofday) IN
                ToInt(res.sec * MsPerSec + CDiv(res.usec, UsPerMs))

timer_expired == LET res == timersub(tend, gettimeofday) IN
                 res.sec < 0 \/ (res.sec = 0 /\ res.usec <= 0)

timer_interval == ToInt((tend.sec - tstart.sec) * MsPerSec + CDiv(tend.usec - tstart.usec, UsPerMs))

-----------------------------------------------------------------------------
timer_start_clock ==
  /\ tstart' = gettimeofday /\ startAt' = clock
  /\ UNCHANGED <<clock, tend, endAt, assigned>>

timer_init ==
  /\ tend' = [sec |-> 0, usec |-> 0] /\ endAt' = 0 /\ assigned' = FALSE
  /\ UNCHANGED <<clock, tstart, startAt>>

timer_cutdown(ms) ==
  /\ ms >= 0                                  \* uint32_t
  /\ tend' = timeradd(gettimeofday, [sec |-> ms \div MsPerSec, usec |-> (ms % MsPerSec) * UsPerMs])
  /\ endAt' = clock + ms * UsPerMs /\ assigned' = FALSE
  /\ UNCHANGED <<clock, tstart, startAt>>

\* A negative number of milliseconds makes a timeval with a negative tv_usec
timer_assignment(ms) ==
  /\ tend' = [sec |-> CDiv(ms, MsPerSec), usec |-> CMod(ms, MsPerSec) * UsPerMs]
  /\ endAt' = ms * UsPerMs /\ assigned' = TRUE
  /\ UNCHANGED <<clock, tstart, startAt>>

\* Time passes, or the clock is set back
MoveClock(d) ==
  /\ clock + d \in 0..MaxClock
  /\ clock' = clock + d
  /\ UNCHANGED <<tstart, tend, startAt, endAt, assigned>>

TimerNext ==
  \/ timer_start_clock \/ timer_init
  \/ \E ms \in Millis : timer_cutdown(ms) \/ timer_assignment(ms)
  \/ \E d \in Strides : MoveClock(d)

TimerSpec == TimerInit /\ [][TimerNext]_timerVars

-----------------------------------------------------------------------------
FitsInt(us) == us \div UsPerMs \in (-(IntRange \div 2))..(IntRange \div 2 - 1)

\* The value ms is t to within a millisecond
Within(ms, t) == ms * UsPerMs - t < UsPerMs /\ t - ms * UsPerMs < UsPerMs

\* timer_expired (time.c:80-86) is exact for every timer and wherever the clock was set.
\* timer_remain and timer_spend (lines 44-69) round down to whole milliseconds, so that remain is
\* positive only before the end, and 0 for up to a millisecond before it; for a timer set
\* from negative milliseconds, and for timer_interval (line 145), which does not borrow,
\* they are right to within a millisecond.  All of this as long as the result fits an int:
\* timer_remain of a timer that is zero does not.
TimersExact ==
  /\ timer_expired <=> endAt <= clock
  /\ FitsInt(clock - startAt) => timer_spend = (clock - startAt) \div UsPerMs
  /\ FitsInt(endAt - clock) => /\ Within(timer_remain, endAt - clock)
                               /\ ~assigned => timer_remain = (endAt - clock) \div UsPerMs
  /\ FitsInt(endAt - startAt - UsPerMs) /\ FitsInt(endAt - startAt + UsPerMs)
       => Within(timer_interval, endAt - startAt)
=============================================================================
