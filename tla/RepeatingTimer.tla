--------------------------- MODULE RepeatingTimer ---------------------------
(***************************************************************************)
(* One RepeatingTimer over the millisecond clock of tmr_jiffies, which is  *)
(* the wall clock: start(), then timer_fn() every time the libre timer     *)
(* expires.  timer_fn reads the clock, runs act() and reads it again in    *)
(* tmr_start; act() takes time, so it is modelled as a begin and an end.   *)
(* Between two polls of the event loop other handlers run (a stall).       *)
(***************************************************************************)
EXTENDS Integers

CONSTANTS
    Interval,   \* _ms_per_tick
    Half,       \* an int holds -Half .. Half - 1
    MaxJiffies, \* bound on the clock
    MaxTick,    \* bound on the number of ticks
    MaxAct,     \* bound on the time act() takes
    MaxStall,   \* bound on the time an expired timer waits for tmr_poll
    Adjust      \* TRUE: somebody may set the wall clock back or ahead

ASSUME IntervalAssumption == Interval \in Nat \ {0}
ASSUME ClockAssumption ==
    /\ MaxJiffies \in Nat /\ MaxAct \in Nat /\ MaxStall \in Nat
    /\ MaxTick \in Nat
    /\ Adjust \in BOOLEAN
(* The intervals are 10 and 1000 ms.                                       *)
ASSUME WidthAssumption == Half \in Nat /\ Interval < Half

VARIABLES
    jiffies,     \* tmr_jiffies()
    state,       \* the timer is "new", "waiting" (in the heap), "acting",
                 \* "stopped" (act returned false)
    start_time,  \* _start_time
    tick,        \* _tick
    expiry,      \* _timer.jfs
    diff,        \* timer_fn's local, kept while act() runs
    began,       \* history: the clock when the latest act() began
    high,        \* history: the latest time the clock ever showed
    steady,      \* history: nobody has set the clock so far
    exact        \* history: the difference to the next due time has fitted
                 \* into an int whenever timer_fn computed it

timer_vars ==
    <<jiffies, state, start_time, tick, expiry, diff, began, high, steady,
      exact>>
-----------------------------------------------------------------------------
(* The conversion of a difference of uint64_t to int, which wraps.         *)
ToInt(x) == ((x + Half) % (2 * Half)) - Half

next_tick == start_time + Interval * tick

(* How long to sleep after an act() that began d late (d <= 0).  Variants: *)
(* one millisecond short; a whole interval; no floor under the negative    *)
(* sleep, taken as the unsigned delay it is converted to.                  *)
ms_to_sleep_short(d) == IF d + Interval < 1 THEN 0 ELSE d + Interval - 1

ms_to_sleep_interval(d) == Interval

ms_to_sleep_unsigned(d) == (d + Interval) % (2 * Half)

ms_to_sleep(d) == IF ToInt(d + Interval) < 0 THEN 0 ELSE ToInt(d + Interval)

TimerInit ==
    /\ jiffies \in 0..MaxJiffies
    /\ state = "new"
    /\ start_time = 0
    /\ tick = 0
    /\ expiry = 0
    /\ diff = 0
    /\ began = 0
    /\ high = jiffies
    /\ steady = TRUE
    /\ exact = TRUE

start ==
    /\ state = "new"
    /\ start_time' = jiffies
    /\ expiry' = jiffies
    /\ state' = "waiting"
    /\ UNCHANGED <<jiffies, tick, diff, began, high, steady, exact>>

(* timer_fn called before its time: sleep on.                              *)
Resleep(d) ==
    /\ expiry' = d + jiffies
    /\ UNCHANGED <<jiffies, state, start_time, tick, diff, began, high,
                   steady>>

(* timer_fn up to the call of act().                                       *)
timer_fn ==
    /\ state = "waiting" /\ expiry <= jiffies
    /\ exact' = (exact /\ next_tick - jiffies \in -Half..(Half - 1))
    /\ LET d == ToInt(next_tick - jiffies) IN
       \/ /\ d > 0
          /\ Resleep(d)
       \/ /\ d <= 0 /\ tick < MaxTick
          /\ diff' = d
          /\ tick' = tick + 1
          /\ state' = "acting"
          /\ began' = jiffies
          /\ UNCHANGED <<jiffies, start_time, expiry, high, steady>>

(* act() has returned: the rest of timer_fn.                               *)
timer_fn_end ==
    /\ state = "acting"
    /\ \/ /\ state' = "waiting"
          /\ expiry' = ms_to_sleep(diff) + jiffies
       \/ /\ state' = "stopped"
          /\ UNCHANGED expiry
    /\ UNCHANGED <<jiffies, start_time, tick, diff, began, high, steady,
                   exact>>

Later(s, t) == IF s < t THEN t ELSE s

(* A millisecond passes.                                                   *)
Advance ==
    /\ jiffies < MaxJiffies
    /\ state = "waiting" => jiffies < expiry + MaxStall
    /\ state = "acting" => jiffies < began + MaxAct
    /\ jiffies' = jiffies + 1
    /\ high' = Later(high, jiffies + 1)
    /\ UNCHANGED <<state, start_time, tick, expiry, diff, began, steady,
                   exact>>

(* The wall clock is set, back or ahead and by any amount.                 *)
SetClock ==
    /\ Adjust
    /\ jiffies' \in 0..MaxJiffies
    /\ high' = Later(high, jiffies')
    /\ steady' = FALSE
    /\ UNCHANGED <<state, start_time, tick, expiry, diff, began, exact>>

(* The timer has stopped, or the model has reached one of its bounds.      *)
Done ==
    /\ state = "stopped" \/ jiffies = MaxJiffies \/ tick = MaxTick
    /\ UNCHANGED timer_vars

TimerNext == start \/ timer_fn \/ timer_fn_end \/ Advance \/ SetClock \/ Done

TimerSpec == TimerInit /\ [][TimerNext]_timer_vars
-----------------------------------------------------------------------------
(* Properties.                                                             *)

(* Every variable keeps its type; diff is never positive.                  *)
TimerTypeOK ==
    /\ jiffies \in 0..MaxJiffies
    /\ state \in {"new", "waiting", "acting", "stopped"}
    /\ start_time \in 0..MaxJiffies
    /\ tick \in Nat
    /\ expiry \in Nat
    /\ diff \in -Half..0
    /\ began \in 0..MaxJiffies
    /\ high \in jiffies..MaxJiffies
    /\ steady \in BOOLEAN
    /\ exact \in BOOLEAN

(* While nobody sets the clock the libre timer never expires before the    *)
(* next tick is due, although timer_fn computes the sleep from a clock     *)
(* read before act(), and also when it is so late that the int wraps.      *)
NeverWokenEarly ==
    steady /\ state = "waiting" => expiry >= next_tick

(* The timer does not drift: however late it is, it is armed for its next  *)
(* due time (plus at most the time of the one act() just run), or, when    *)
(* that has passed, to expire at once.  This takes a lateness that fits    *)
(* into an int: beyond 2^31 ms, about 24 days, it may sleep again.         *)
CatchUp ==
    steady /\ exact /\ state = "waiting" =>
        expiry <= next_tick + MaxAct \/ expiry <= jiffies

(* Lateness does not add up from tick to tick: with act() and the stalls   *)
(* together shorter than an interval, each act() begins no later than one  *)
(* act() and one stall after it was due.                                   *)
NoDrift ==
    steady /\ state = "acting" =>
        began - (next_tick - Interval) <= MaxAct + MaxStall

(* However the clock is set, and at whatever moment: while the differences *)
(* fit into an int the timer sleeps at most an interval past the latest    *)
(* time the clock has ever shown, and has not run more often than that     *)
(* time allows.  When they do not, as after 24 days, a timer that is late  *)
(* is taken for early, or the other way round; even then it sleeps less    *)
(* than 2^31 ms, and not for the 2^32 of a negative number taken unsigned. *)
NeverOversleeps ==
    /\ exact /\ state = "waiting" => expiry <= high + Interval
    /\ exact /\ state # "new" => next_tick <= high + Interval
    /\ state = "waiting" => expiry < high + Half
=============================================================================
