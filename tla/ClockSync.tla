------------------------------ MODULE ClockSync ------------------------------
(***************************************************************************)
(* The setting of the controller's clock (maybe_set_device_time), tried    *)
(* before a status poll: when a sync is pending, when the controller says  *)
(* it has lost the time, and once a day, with a wait after a failure.      *)
(*                                                                         *)
(* As in HeavyReads an instant to wait for is a timer that runs.           *)
(***************************************************************************)
EXTENDS Naturals

CONSTANT MaxRuns    \* bound: waterings

VARIABLES
    poll,       \* where the status poll is: idle, setting the time, asking
    pending,    \* _set_time_pending
    seen,       \* time_alarm: the alarm of the last status
    cooling,    \* a failed attempt was made within TIME_SYNC_RETRY_INTERVAL
    fresh,      \* the time was set within SET_TIME_MIN_INTERVAL
    degraded,   \* whether the streak of degraded cycles is not zero
    alarm,      \* the controller has lost the time
    watering,   \* _irrigation_active
    runs,       \* how many waterings there were
    owed        \* history: the time is to be set, and has not been since

vars == <<poll, pending, seen, cooling, fresh, degraded, alarm, watering, runs, owed>>

ClockTypeOK ==
    /\ poll \in {"idle", "setting", "asking"}
    /\ {pending, seen, cooling, fresh, degraded, alarm, watering, owed} \subseteq BOOLEAN
    /\ runs \in 0 .. MaxRuns

\* The time is set after every start.
Init ==
    /\ poll = "idle"
    /\ pending = TRUE
    /\ seen = FALSE
    /\ cooling = FALSE /\ fresh = FALSE
    /\ degraded = FALSE
    /\ alarm \in BOOLEAN
    /\ watering = FALSE
    /\ runs = 0
    /\ owed = TRUE

-----------------------------------------------------------------------------

\* Mutant: the alarm waits for the day to be over, too.
SyncDueDaily ==
    /\ ~watering
    /\ pending \/ (~fresh /\ (seen => ~cooling))

\* A pending sync waits for nothing, an alarm for the end of the wait after a
\* failure, anything else for the day to be over.
SyncDue ==
    /\ ~watering
    /\ pending \/ IF seen THEN ~cooling ELSE ~fresh

PollBegins ==
    /\ poll = "idle"
    /\ poll' = IF SyncDue THEN "setting" ELSE "asking"
    /\ UNCHANGED <<pending, seen, cooling, fresh, degraded, alarm, watering, runs, owed>>

\* set_time has seen the controller's alarm go.
SyncDone ==
    /\ poll = "setting"
    /\ poll' = "asking"
    /\ pending' = FALSE /\ seen' = FALSE /\ cooling' = FALSE
    /\ fresh' = TRUE
    /\ alarm' = FALSE
    /\ owed' = FALSE
    /\ UNCHANGED <<degraded, watering, runs>>

\* The link fails, the controller waters, refuses, or keeps its alarm: in any
\* case the poll goes on.
SyncFails ==
    /\ poll = "setting"
    /\ poll' = "asking"
    /\ cooling' = TRUE
    /\ UNCHANGED <<pending, seen, fresh, degraded, alarm, watering, runs, owed>>

\* note_cycle_outcome: after degraded cycles the controller may have been
\* without power, and the time is to be set again.
Outcome(bad) ==
    /\ degraded' = bad
    /\ pending' = (pending \/ (degraded /\ ~bad))
    /\ owed' = (owed \/ (degraded /\ ~bad))

PollAnswered ==
    /\ poll = "asking"
    /\ poll' = "idle"
    /\ seen' = alarm
    /\ Outcome(FALSE)
    /\ UNCHANGED <<cooling, fresh, alarm, watering, runs>>

\* It may fail with the status applied: something behind it raised.
PollFails ==
    /\ poll = "asking"
    /\ poll' = "idle"
    /\ seen' \in {seen, alarm}
    /\ Outcome(TRUE)
    /\ UNCHANGED <<cooling, fresh, alarm, watering, runs>>

\* The long reads count as cycles of their own.
ReadEnds(bad) ==
    /\ Outcome(bad)
    /\ UNCHANGED <<poll, seen, cooling, fresh, alarm, watering, runs>>

-----------------------------------------------------------------------------
(* Time, the controller, and its runs.                                     *)

CoolingEnds ==
    /\ cooling
    /\ cooling' = FALSE
    /\ UNCHANGED <<poll, pending, seen, fresh, degraded, alarm, watering, runs, owed>>

DayEnds ==
    /\ fresh
    /\ fresh' = FALSE
    /\ UNCHANGED <<poll, pending, seen, cooling, degraded, alarm, watering, runs, owed>>

ClockLost ==
    /\ ~alarm
    /\ alarm' = TRUE
    /\ owed' = TRUE
    /\ UNCHANGED <<poll, pending, seen, cooling, fresh, degraded, watering, runs>>

RunBegins ==
    /\ ~watering /\ runs < MaxRuns
    /\ watering' = TRUE
    /\ runs' = runs + 1
    /\ UNCHANGED <<poll, pending, seen, cooling, fresh, degraded, alarm, owed>>

RunEnds ==
    /\ watering
    /\ watering' = FALSE
    /\ UNCHANGED <<poll, pending, seen, cooling, fresh, degraded, alarm, runs, owed>>

Next ==
    \/ PollBegins \/ SyncDone \/ SyncFails \/ PollAnswered \/ PollFails
    \/ ReadEnds(TRUE) \/ ReadEnds(FALSE)
    \/ CoolingEnds \/ DayEnds \/ ClockLost \/ RunBegins \/ RunEnds

Spec == Init /\ [][Next]_vars

\* Polls are made for ever and end, the wait passes, waterings end; and of
\* attempts and polls made again and again some succeed. The day need not end.
Fairness ==
    /\ WF_vars(PollBegins)
    /\ WF_vars(SyncDone \/ SyncFails) /\ WF_vars(PollAnswered \/ PollFails)
    /\ SF_vars(SyncDone) /\ SF_vars(PollAnswered)
    /\ WF_vars(CoolingEnds) /\ WF_vars(RunEnds)

FairSpec == Spec /\ Fairness

-----------------------------------------------------------------------------

\* A clock that is to be set is set before the day is over: after the start,
\* after the controller lost it, and after an interruption ("a drifted clock is
\* corrected as soon as it is observed", coordinator_polling.py:140-142).
ClockIsSet == owed ~> ~owed

=============================================================================
