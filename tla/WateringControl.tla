--------------------------- MODULE WateringControl ---------------------------
(***************************************************************************)
(* Manual watering: the commands of the valves and buttons, the monitor    *)
(* that follows a station's run, the poll, and the activity history that   *)
(* says who started what (coordinator_irrigation.py, coordinator.py,       *)
(* coordinator_polling.py, activity.py).                                   *)
(*                                                                         *)
(* The controller is also started by its own schedule and by the phone     *)
(* app.  A BLE operation is one step: it is done under the controller's    *)
(* lock, and the coroutine that called it goes on without another await.   *)
(***************************************************************************)
EXTENDS ActivityHistory

CONSTANTS
  Undisturbed,   \* no status is observed while a start is journaled and yet
                 \*   to be sent; nothing in the code sees to it
  Callers,       \* tasks of entities: each platform runs one action at a time
  MaxRuns,       \* bound: runs started in the controller, whoever starts them
  MaxCommands,   \* bound: actions of the callers
  MaxCancels,    \* bound: actions cancelled
  MaxCrashes     \* bound: restarts of Home Assistant

ASSUME WateringAssumption ==
  /\ Stations # {} /\ Undisturbed \in BOOLEAN /\ None \notin Callers \cup Nat
  /\ MaxRuns \in Nat /\ MaxCommands \in Nat /\ MaxCancels \in Nat /\ MaxCrashes \in Nat

VARIABLES
  dev,      \* the controller: on or off, what it waters, the number of the run
  act,      \* the WateringActivity object
  file,     \* the intent in the activity store's file
  co,       \* the coordinator: _irrigation_active, _is_watering, stop event,
            \*   monitor reference; torn is history: the start that made it
            \*   active was cancelled before its status
  call,     \* the action of each caller
  mon,      \* the monitor of each run that had one
  loaded,   \* the config entry is loaded
  spent     \* how much of each bound is used up

vars == <<dev, act, file, co, call, mon, loaded, spent>>

Runs == 1..MaxRuns

Idle == [pc |-> "out", op |-> "none", station |-> None, program |-> None, run |-> None]

NewCoordinator == [active |-> FALSE, watering |-> FALSE, stopEvent |-> FALSE,
                   ref |-> None, torn |-> FALSE]

-----------------------------------------------------------------------------
(* The controller.                                                          *)

Status == IF dev.on THEN [station |-> dev.station, program |-> dev.program,
                          cause |-> dev.cause]
                    ELSE [station |-> None, program |-> None, cause |-> "none"]

Spend(what, limit) == /\ spent[what] < limit
                      /\ spent' = [spent EXCEPT ![what] = @ + 1]

NoRun(on) == [on |-> on, station |-> None, program |-> None, cause |-> "none",
              run |-> dev.run]

\* A station, or the first station of a program.
Begun(station, program, cause) ==
  [on |-> TRUE, station |-> station, program |-> program, cause |-> cause,
   run |-> dev.run + 1]

\* The phone, or the controller's schedule, starts a run.
StartedElsewhere ==
  /\ dev.on /\ dev.run < MaxRuns
  /\ \E s \in Stations :
       \/ dev' = Begun(s, None, "phone")
       \/ \E p \in Programs, cause \in {"phone", "schedule"} : dev' = Begun(s, p, cause)
  /\ UNCHANGED <<act, file, co, call, mon, loaded, spent>>

\* A program goes from station to station, with or without a delay between.
NextStation ==
  /\ dev.program # None
  /\ \E s \in (Stations \cup {None}) \ {dev.station} : dev' = [dev EXCEPT !.station = s]
  /\ UNCHANGED <<act, file, co, call, mon, loaded, spent>>

RunEnds ==
  /\ Running(dev)
  /\ dev' = NoRun(dev.on)
  /\ UNCHANGED <<act, file, co, call, mon, loaded, spent>>

\* What a command does when it reaches the controller; while off it starts
\* nothing.
Executed(c) ==
  CASE c.op \in {"station", "program"} ->
         IF dev.on THEN {Begun(s, c.program, "ha") :
                           s \in IF c.op = "station" THEN {c.station} ELSE Stations}
                   ELSE {[dev EXCEPT !.run = @ + 1]}
    [] c.op = "stop" -> {NoRun(dev.on)}
    [] c.op = "off"  -> {NoRun(FALSE)}
    [] c.op = "on"   -> {[dev EXCEPT !.on = TRUE]}

Starts(c) == c.op \in {"station", "program"}

-----------------------------------------------------------------------------
(* What a status does to the coordinator.                                   *)

\* Mutated: an idle status leaves the run marked active.
AppliedKeepsActive(state, s) == [state EXCEPT !.watering = Watering(s)]

\* apply_status, the activity apart.
Applied(state, s) == [state EXCEPT !.watering = Watering(s),
                                   !.active = @ /\ Watering(s),
                                   !.torn = @ /\ Watering(s)]

\* clear_irrigation_idle_state; _is_watering is not part of it.
Cleared(state) == [state EXCEPT !.active = FALSE, !.torn = FALSE]

MayObserve == Undisturbed =>
  \A u \in Callers : Starts(call[u]) => call[u].pc \notin {"journal", "send"}

Observe == MayObserve /\ \E a \in Observed(act, Status) : act' = a

\* get_status and apply_status.
Fetch == Observe /\ co' = Applied(co, Status)

-----------------------------------------------------------------------------
(* The actions of valves and buttons. *)

Goto(u, pc) == call' = [call EXCEPT ![u].pc = pc]
Return(u)   == call' = [call EXCEPT ![u] = Idle]

\* An open valve or a start button: the intent is journaled.
PressStart(u) ==
  /\ call[u].pc = "out" /\ loaded
  /\ Spend("commands", MaxCommands)
  /\ \E x \in {[station |-> s, program |-> None] : s \in Stations}
              \cup {[station |-> None, program |-> p] : p \in Programs} :
       /\ act' = Journaling(act, Intent(x.station, x.program))
       /\ call' = [call EXCEPT ![u] =
            [pc |-> "journal", op |-> IF x.program = None THEN "station" ELSE "program",
             station |-> x.station, program |-> x.program, run |-> None]]
  /\ UNCHANGED <<dev, file, co, mon, loaded>>

\* Stop, on, off, off for some days: nothing is journaled.
PressOther(u) ==
  /\ call[u].pc = "out" /\ loaded
  /\ Spend("commands", MaxCommands)
  /\ \E op \in {"stop", "on", "off"} :
       call' = [call EXCEPT ![u] = [Idle EXCEPT !.pc = "send", !.op = op]]
  /\ UNCHANGED <<dev, act, file, co, mon, loaded>>

\* The intent is in the file; "Irrigation is already in progress" otherwise.
Journaled(u) ==
  /\ call[u].pc = "journal"
  /\ file' = act.pending
  /\ IF co.active THEN Return(u) ELSE Goto(u, "send")
  /\ UNCHANGED <<dev, act, co, mon, loaded, spent>>

JournalFails(u) ==
  /\ call[u].pc = "journal"
  /\ Return(u)
  /\ UNCHANGED <<dev, act, file, co, mon, loaded, spent>>

Reaches(u) == /\ Starts(call[u]) => dev.run < MaxRuns
              /\ dev' \in Executed(call[u])

\* The command is acknowledged; the status that follows is yet to be read.
StartSent(u) ==
  /\ call[u].pc = "send" /\ Starts(call[u])
  /\ Reaches(u)
  /\ co' = IF call[u].op = "station"
             THEN [co EXCEPT !.active = TRUE, !.stopEvent = FALSE] ELSE co
  /\ call' = [call EXCEPT ![u].pc = "status", ![u].run = dev'.run]
  /\ UNCHANGED <<act, file, mon, loaded, spent>>

SwitchSent(u) ==
  /\ call[u].pc = "send" /\ call[u].op \in {"on", "off"}
  /\ Reaches(u)
  /\ Goto(u, "status")
  /\ UNCHANGED <<act, file, co, mon, loaded, spent>>

\* The monitor the coordinator knows is cancelled and awaited.
Alive(m) == m # None /\ mon[m] # "ended"

CancelMonitor == mon' = IF Alive(co.ref) THEN [mon EXCEPT ![co.ref] = "ended"] ELSE mon

StopSent(u) ==
  /\ call[u].pc = "send" /\ call[u].op = "stop"
  /\ Reaches(u)
  /\ CancelMonitor
  /\ co' = [Cleared(co) EXCEPT !.stopEvent = TRUE, !.ref = None]
  /\ IF Alive(co.ref) THEN Goto(u, "join") ELSE Return(u)
  /\ UNCHANGED <<act, file, loaded, spent>>

Stopped(u) ==
  /\ call[u].pc = "join"
  /\ co' = Cleared(co)
  /\ Return(u)
  /\ UNCHANGED <<dev, act, file, mon, loaded, spent>>

\* Mutated: a failed start leaves the state it had set.
FailsUncleared(u) ==
  /\ call[u].pc \in {"send", "status"}
  /\ \/ UNCHANGED dev
     \/ call[u].pc = "send" /\ Reaches(u)
  /\ Return(u)
  /\ UNCHANGED <<act, file, co, mon, loaded, spent>>

\* The command failed, executed by the controller or not, or the status did.
Fails(u) ==
  /\ call[u].pc \in {"send", "status"}
  /\ \/ UNCHANGED dev
     \/ call[u].pc = "send" /\ Reaches(u)
  /\ co' = IF call[u].op = "station" THEN Cleared(co) ELSE co
  /\ Return(u)
  /\ UNCHANGED <<act, file, mon, loaded, spent>>

\* The status after a station's start: its run is monitored from now on.
StationStarted(u) ==
  /\ call[u].pc = "status" /\ call[u].op = "station"
  /\ MayObserve /\ \E a \in Observed(act, Status) : act' = Confirmed(a)
  /\ LET after == Applied(co, Status) IN
       IF after.watering
         THEN /\ co' = [after EXCEPT !.ref = call[u].run]
              /\ mon' = [mon EXCEPT ![call[u].run] = "head"]
         ELSE co' = Cleared(after) /\ UNCHANGED mon
  /\ Return(u)
  /\ UNCHANGED <<dev, file, loaded, spent>>

ProgramStarted(u) ==
  /\ call[u].pc = "status" /\ call[u].op = "program"
  /\ MayObserve /\ \E a \in Observed(act, Status) : act' = Confirmed(a)
  /\ co' = Applied(co, Status)
  /\ Return(u)
  /\ UNCHANGED <<dev, file, mon, loaded, spent>>

Switched(u) ==
  /\ call[u].pc = "status" /\ call[u].op \in {"on", "off"}
  /\ Fetch
  /\ Return(u)
  /\ UNCHANGED <<dev, file, mon, loaded, spent>>

\* CancelledError passes every handler of a caller, except that of a stop that
\* waits for the monitor: it goes on.  A command being sent may have reached the
\* controller.
CancelCall(u) ==
  /\ call[u].pc \notin {"out", "join"}
  /\ Spend("cancels", MaxCancels)
  /\ \/ UNCHANGED dev
     \/ call[u].pc = "send" /\ Reaches(u)
  /\ co' = [co EXCEPT !.torn = @ \/ (call[u].pc = "status" /\ call[u].op = "station")]
  /\ Return(u)
  /\ UNCHANGED <<act, file, mon, loaded>>

-----------------------------------------------------------------------------
(* The monitor of a station's run. *)

MonitorSide == <<dev, file, call, loaded, spent>>

\* The finally clause; a status is read once more.
Finish(m, state) == /\ co' = Cleared(state)
                    /\ mon' = [mon EXCEPT ![m] = "final"]

\* Mutated: the done callback does not clear the reference.
DieKeepsRef(m, state) == co' = Cleared(state) /\ mon' = [mon EXCEPT ![m] = "ended"]

\* An exception ends the task instead; the reference goes with it.
Die(m, state) == /\ co' = [Cleared(state) EXCEPT !.ref = IF @ = m THEN None ELSE @]
                 /\ mon' = [mon EXCEPT ![m] = "ended"]

\* Its sleeps alone add up to more than the run's duration.
Overdue(m) == dev.run # m \/ ~Running(dev)

\* Back at the head of the loop: stopped, out of time, or asleep again.
Loop(m, state) ==
  IF state.stopEvent
    THEN Finish(m, state)
    ELSE \/ co' = state /\ mon' = [mon EXCEPT ![m] = "sleep"]
         \/ Overdue(m) /\ Finish(m, state)

\* The task starts.
MonitorStarts(m) ==
  /\ mon[m] = "head"
  /\ IF co.stopEvent THEN Finish(m, co)
                     ELSE mon' = [mon EXCEPT ![m] = "sleep"] /\ UNCHANGED co
  /\ UNCHANGED <<act, MonitorSide>>

\* Mutated: an idle status does not end the loop.
MonitorLooksOn(m) ==
  /\ mon[m] = "sleep"
  /\ Observe
  /\ co' = Applied(co, Status) /\ mon' = [mon EXCEPT ![m] = "publish"]
  /\ UNCHANGED MonitorSide

\* The status it woke up for.
MonitorLooks(m) ==
  /\ mon[m] = "sleep"
  /\ Observe
  /\ IF Watering(Status)
       THEN co' = Applied(co, Status) /\ mon' = [mon EXCEPT ![m] = "publish"]
       ELSE Finish(m, Applied(co, Status))
  /\ UNCHANGED MonitorSide

\* APIConnectionError: the next round will tell.
MonitorMisses(m) ==
  /\ mon[m] = "sleep"
  /\ Loop(m, co)
  /\ UNCHANGED <<act, MonitorSide>>

\* The entities are updated from one more status.
MonitorPublishes(m) ==
  /\ mon[m] = "publish"
  /\ Observe
  /\ Loop(m, Applied(co, Status))
  /\ UNCHANGED MonitorSide

MonitorEnds(m) ==
  /\ mon[m] = "final"
  /\ Observe
  /\ LET after == Applied(co, Status) IN
       co' = [after EXCEPT !.ref = IF @ = m THEN None ELSE @]
  /\ mon' = [mon EXCEPT ![m] = "ended"]
  /\ UNCHANGED MonitorSide

\* Any other error, or any error of the other two reads.
MonitorDies(m) ==
  /\ mon[m] \in {"sleep", "publish", "final"}
  /\ Die(m, co)
  /\ UNCHANGED <<act, MonitorSide>>

-----------------------------------------------------------------------------
(* The poll, the activity store's delayed save, unloading, a restart. *)

Poll ==
  /\ loaded
  /\ Fetch
  /\ UNCHANGED <<dev, file, call, mon, loaded, spent>>

DelayedSave ==
  /\ file # act.pending
  /\ file' = act.pending
  /\ UNCHANGED <<dev, act, co, call, mon, loaded, spent>>

\* async_shutdown: neither the actions under way nor a monitor the coordinator
\* has no reference to know of it.
Unload ==
  /\ loaded
  /\ loaded' = FALSE
  /\ CancelMonitor
  /\ co' = [Cleared(co) EXCEPT !.stopEvent = TRUE, !.ref = None]
  /\ act' = [act EXCEPT !.current = None]
  /\ file' = act.pending
  /\ UNCHANGED <<dev, call, spent>>

\* The process dies, or has been stopped after the unload.
Restart ==
  /\ Spend("crashes", MaxCrashes)
  /\ act' = LoadedActivity(file)
  /\ co' = NewCoordinator
  /\ call' = [u \in Callers |-> Idle]
  /\ mon' = [m \in Runs |-> "ended"]
  /\ loaded' = TRUE
  /\ UNCHANGED <<dev, file>>

-----------------------------------------------------------------------------
Init ==
  /\ dev \in [on : BOOLEAN, station : {None}, program : {None}, cause : {"none"}, run : {0}]
  /\ act = Fresh(None) /\ file = None
  /\ co = NewCoordinator
  /\ call = [u \in Callers |-> Idle]
  /\ mon = [m \in Runs |-> "ended"]
  /\ loaded = TRUE
  /\ spent = [commands |-> 0, cancels |-> 0, crashes |-> 0]

CallStep(u) ==
  \/ Journaled(u) \/ JournalFails(u) \/ StartSent(u) \/ SwitchSent(u) \/ StopSent(u)
  \/ Stopped(u) \/ Fails(u) \/ StationStarted(u) \/ ProgramStarted(u) \/ Switched(u)

MonitorStep(m) ==
  \/ MonitorStarts(m) \/ MonitorLooks(m) \/ MonitorMisses(m)
  \/ MonitorPublishes(m) \/ MonitorEnds(m) \/ MonitorDies(m)

Next ==
  \/ StartedElsewhere \/ NextStation \/ RunEnds
  \/ \E u \in Callers : PressStart(u) \/ PressOther(u) \/ CallStep(u) \/ CancelCall(u)
  \/ \E m \in Runs : MonitorStep(m)
  \/ Poll \/ DelayedSave \/ Unload \/ Restart

Spec == Init /\ [][Next]_vars

\* Runs end, bounded calls return, and a poll succeeds every now and then.
Fairness ==
  /\ WF_vars(RunEnds) /\ SF_vars(Poll)
  /\ \A u \in Callers : WF_vars(CallStep(u))
  /\ \A m \in Runs : WF_vars(MonitorStep(m))

FairSpec == Spec /\ Fairness

-----------------------------------------------------------------------------
(* Properties. *)

\* Every variable keeps its type, and the reference is to a monitor alive.
WateringTypeOK ==
  /\ dev \in [on : BOOLEAN, station : Stations \cup {None},
              program : Programs \cup {None}, cause : Causes, run : 0..MaxRuns]
  /\ act \in Activities /\ file \in Intents \cup {None}
  /\ co \in [active : BOOLEAN, watering : BOOLEAN, stopEvent : BOOLEAN,
             ref : Runs \cup {None}, torn : BOOLEAN]
  /\ co.ref # None => Alive(co.ref)
  /\ call \in [Callers -> [pc : {"out", "journal", "send", "status", "join"},
                           op : {"none", "station", "program", "stop", "on", "off"},
                           station : Stations \cup {None}, program : Programs \cup {None},
                           run : Runs \cup {None}]]
  /\ mon \in [Runs -> {"head", "sleep", "publish", "final", "ended"}]
  /\ loaded \in BOOLEAN
  /\ spent \in [{"commands", "cancels", "crashes"} -> Nat]

\* activity.py: "Failed/cancelled commands stay uncertain, never attributed
\* externally": while the last status showed a run that a command of Home
\* Assistant started, acknowledged or not, the run is not recorded as started by
\* the phone or the schedule, be the record new or an earlier one that goes on
\* (while the entry is loaded: an unload closes the record, and a start that
\* outlives it opens another).  The code does not keep this for a start whose
\* intent another start, even a refused one, replaces before a status has come:
\* an earlier record of the phone's run then goes on over it (activity.py:300).
OwnRunNotExternal ==
  /\ loaded /\ ~act.displaced
  /\ act.current # None /\ act.current.cause = "ha"
  => act.current.source \notin External

\* "Irrigation is already in progress" is told for a reason: the last status
\* showed the controller watering, a start waits for its status, or it was
\* cancelled there.
RefusalIsJustified ==
  co.active => \/ co.watering \/ co.torn
               \/ \E u \in Callers : call[u].pc = "status" /\ call[u].op = "station"

\* ... and it does not last: once runs end, a start is possible again, even if
\* a start was cancelled half-way or a monitor has died.
StartPossibleAgain == co.active /\ loaded ~> ~co.active \/ ~loaded

\* Every monitor ends, the forgotten ones too.
MonitorsEnd == \A m \in Runs : Alive(m) ~> ~Alive(m)

=============================================================================
