------------------------------ MODULE Schedule ------------------------------
(***************************************************************************)
(* When a program starts next (schedule.py), and the countdown of a        *)
(* periodic program (ble/protocol.py).                                     *)
(*                                                                         *)
(* A time is a number: the day times Times plus the time of day. A program *)
(* is a record of its cycle, the weekdays of a "custom" one, period and    *)
(* countdown ("synchro_day") of a "periodic" one, the start times, and     *)
(* whether any of its durations is not zero.                               *)
(***************************************************************************)
EXTENDS Integers, FiniteSetsExt

CONSTANTS
    None,
    Times,      \* how many times of day there are
    MonthDay    \* the day of the month of each day, from day 0 on

Cycles == {"custom", "even", "odd", "odd_31", "periodic"}

Programs ==
    [cycle: Cycles, week: SUBSET (0 .. 6), period: Nat, synchro: Int,
     starts: SUBSET (0 .. Times - 1), waters: BOOLEAN]

Lookahead == 14

Day(now) == now \div Times
Weekday(d) == d % 7

PhaseValid(p) == p.period >= 1 /\ p.synchro < p.period

\* Whether a calendar day is one of the program's; of a periodic program the
\* calendar cannot tell.
MatchesCycle(p, d) ==
    CASE p.cycle = "custom" -> Weekday(d) \in p.week
      [] p.cycle = "even" -> MonthDay[d] % 2 = 0
      [] p.cycle = "odd" -> MonthDay[d] % 2 = 1
      [] p.cycle = "odd_31" -> MonthDay[d] % 2 = 1 /\ MonthDay[d] # 31
      [] OTHER -> FALSE

\* The starts of a program on these days that are still to come.
StartsOn(p, days, now) ==
    {s \in {d * Times + t : d \in days, t \in p.starts} : s > now}

Earliest(starts) == IF starts = {} THEN None ELSE Min(starts)

\* The day the countdown names, and one period later when its starts have
\* passed: two days are looked at.
IntervalDays(p, now) ==
    IF PhaseValid(p) THEN {Day(now) + p.synchro, Day(now) + p.synchro + p.period} ELSE {}

\* Mutant: the same day of the next week is a day too far.
CalendarDaysOfWeek(p, now) ==
    {d \in Day(now) .. Day(now) + 6 : MatchesCycle(p, d)}

CalendarDays(p, now) ==
    {d \in Day(now) .. Day(now) + Lookahead - 1 : MatchesCycle(p, d)}

NextStart(p, now) ==
    Earliest(StartsOn(p, IF p.cycle = "periodic" THEN IntervalDays(p, now)
                         ELSE CalendarDays(p, now), now))

\* No program that could ever water.
Degenerate(p) ==
    \/ ~p.waters
    \/ p.cycle = "custom" /\ p.week = {}
    \/ p.starts = {}

\* The days from the day of writing to the next run, for a first run on the day
\* anchor: period_start_to_synchro.
Countdown(anchor, period, today) ==
    IF anchor >= today THEN (anchor - today) % period
    ELSE (period - ((today - anchor) % period)) % period

-----------------------------------------------------------------------------
(* What the controller makes of a program: it counts a day off every        *)
(* midnight, waters at nought and begins anew.                             *)

Midnight(p) ==
    IF p.cycle # "periodic" THEN p
    ELSE [p EXCEPT !.synchro = IF @ = 0 THEN p.period - 1 ELSE @ - 1]

WatersOn(p, d) ==
    IF p.cycle = "periodic" THEN p.synchro = 0 ELSE MatchesCycle(p, d)

\* The program as it is k midnights from now.
After(p, horizon) ==
    LET f[k \in 0 .. horizon] == IF k = 0 THEN p ELSE Midnight(f[k - 1])
    IN f

\* The first start of a program that is left alone.
NextRun(p, now, horizon) ==
    LET later == After(p, horizon)
        days  == {Day(now) + k : k \in {j \in 0 .. horizon : WatersOn(later[j], Day(now) + j)}}
    IN Earliest(StartsOn(p, days, now))

=============================================================================
