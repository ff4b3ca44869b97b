----------------------------- MODULE HeavyReads -----------------------------
(***************************************************************************)
(* The long reads of coordinator_polling.py: the gate behind which they    *)
(* wait for a first answered poll, the lock they share, and the cooldowns  *)
(* after which firmware, station names and programs are tried again.       *)
(*                                                                         *)
(* There is no clock here: an instant before which something may not       *)
(* happen is a timer that runs until it expires.                           *)
(***************************************************************************)
EXTENDS Naturals

CONSTANTS
    None,
    MaxRuns,    \* bound: waterings
    MaxCalls    \* bound: refreshes by the user

VARIABLES
    gate,       \* shut until a poll is answered, deferred, then open
    timer,      \* the cooldowns that run
    known,      \* what was read in this session
    task,       \* where each reading task is
    lock,       \* who holds _heavy_read_lock
    active,     \* _irrigation_active
    runs,       \* how many waterings there were
    calls       \* how many refreshes by the user

vars == <<gate, timer, known, task, lock, active, runs, calls>>

Items == {"firmware", "names", "programs"}

\* The metadata task of a poll, the first refresh of the schedule coordinator,
\* its periodic one, and the refresh a button, a service or a form asks for.
Tasks == {"metadata", "first", "slow", "user"}

HeavyTypeOK ==
    /\ gate \in {"shut", "deferred", "open"}
    /\ timer \subseteq Items /\ known \subseteq Items
    /\ task \in [Tasks -> {"idle", "gate", "metadata", "firmware", "names",
                           "schedule", "forced", "programs"}]
    /\ lock \in Tasks \cup {None}
    /\ active \in BOOLEAN
    /\ {runs, calls} \subseteq Nat
    \* A task that reads holds the lock, and the lock's holder reads.
    /\ \A t \in Tasks : lock = t <=> task[t] \in Items

Init ==
    /\ gate = "shut"
    /\ timer = {} /\ known = {}
    /\ task = [t \in Tasks |-> IF t = "first" THEN "gate" ELSE "idle"]
    /\ lock = None
    /\ active = FALSE
    /\ runs = 0 /\ calls = 0

Goto(t, pc) == task' = [task EXCEPT ![t] = pc]

-----------------------------------------------------------------------------
(* What brings a task to its reads.                                        *)

\* Mutant: the first answer is not marked.
PollAnsweredUnmarked ==
    /\ IF gate = "open" /\ ~active /\ task["metadata"] = "idle"
       THEN Goto("metadata", "metadata")
       ELSE UNCHANGED task
    /\ UNCHANGED <<gate, timer, known, lock, active, runs, calls>>

\* A poll is answered: the first answer ever starts the deferral, one behind
\* the gate the metadata task, unless it still runs.
PollAnswered ==
    /\ gate' = IF gate = "shut" THEN "deferred" ELSE gate
    /\ IF gate = "open" /\ ~active /\ task["metadata"] = "idle"
       THEN Goto("metadata", "metadata")
       ELSE UNCHANGED task
    /\ UNCHANGED <<timer, known, lock, active, runs, calls>>

GateOpens ==
    /\ gate = "deferred"
    /\ gate' = "open"
    /\ UNCHANGED <<timer, known, task, lock, active, runs, calls>>

\* The first refresh waits for the gate and sleeps out the deferral.
FirstRefreshBegins ==
    /\ task["first"] = "gate" /\ gate = "open"
    /\ Goto("first", "metadata")
    /\ UNCHANGED <<gate, timer, known, lock, active, runs, calls>>

\* The schedule coordinator's own period does not ask the gate.
SlowRefreshBegins ==
    /\ task["slow"] = "idle"
    /\ Goto("slow", "schedule")
    /\ UNCHANGED <<gate, timer, known, lock, active, runs, calls>>

\* refresh_irrigation_programs.
UserRefreshes ==
    /\ task["user"] = "idle" /\ calls < MaxCalls
    /\ calls' = calls + 1
    /\ Goto("user", "forced")
    /\ UNCHANGED <<gate, timer, known, lock, active, runs>>

-----------------------------------------------------------------------------
(* fetch_device_metadata.                                                  *)

Due(x) == x \notin known /\ x \notin timer

\* Where a task goes when its round of the metadata is over.
AfterMetadata(t) == IF t = "first" THEN "schedule" ELSE "idle"

MetadataBegins(t) ==
    /\ task[t] = "metadata" /\ lock = None
    /\ IF \E x \in {"firmware", "names"} : Due(x)
       THEN /\ Goto(t, IF Due("firmware") THEN "firmware" ELSE "names")
            /\ lock' = t
       ELSE /\ Goto(t, AfterMetadata(t))
            /\ UNCHANGED lock
    /\ UNCHANGED <<gate, timer, known, active, runs, calls>>

\* Firmware or names have come, or have not and are given time.
Learned(x) == known' = known \cup {x} /\ UNCHANGED timer
Postponed(x) == timer' = timer \cup {x} /\ UNCHANGED known

RoundEnds(t) == Goto(t, AfterMetadata(t)) /\ lock' = None

\* The names are next, failed or not.
AfterFirmware(t) ==
    IF Due("names") THEN Goto(t, "names") /\ UNCHANGED lock ELSE RoundEnds(t)

FirmwareRead(t) ==
    /\ task[t] = "firmware"
    /\ Learned("firmware") /\ AfterFirmware(t)
    /\ UNCHANGED <<gate, active, runs, calls>>

FirmwareFails(t) ==
    /\ task[t] = "firmware"
    /\ Postponed("firmware") /\ AfterFirmware(t)
    /\ UNCHANGED <<gate, active, runs, calls>>

NamesRead(t) ==
    /\ task[t] = "names"
    /\ Learned("names") /\ RoundEnds(t)
    /\ UNCHANGED <<gate, active, runs, calls>>

NamesFail(t) ==
    /\ task[t] = "names"
    /\ Postponed("names") /\ RoundEnds(t)
    /\ UNCHANGED <<gate, active, runs, calls>>

-----------------------------------------------------------------------------
(* fetch_irrigation_config.                                                *)

\* Nothing while watering; and nothing before its time, unless forced. (Once
\* the programs are known their timer is the hour until they are read again.)
ScheduleBegins(t) ==
    /\ task[t] \in {"schedule", "forced"} /\ lock = None
    /\ IF active \/ (task[t] = "schedule" /\ "programs" \in timer)
       THEN Goto(t, "idle") /\ UNCHANGED lock
       ELSE Goto(t, "programs") /\ lock' = t
    /\ UNCHANGED <<gate, timer, known, active, runs, calls>>

ProgramsRead(t) ==
    /\ task[t] = "programs"
    /\ known' = known \cup {"programs"}
    /\ timer' = timer \cup {"programs"}
    /\ Goto(t, "idle") /\ lock' = None
    /\ UNCHANGED <<gate, active, runs, calls>>

\* Mutant: the lock is not released on the way out of an error.
ProgramsFailLocked(t) ==
    /\ task[t] = "programs"
    /\ timer' = timer \cup {"programs"}
    /\ Goto(t, "idle")
    /\ UNCHANGED <<lock, gate, known, active, runs, calls>>

\* Only the wait for programs never read is set anew.
ProgramsFail(t) ==
    /\ task[t] = "programs"
    /\ timer' = IF "programs" \in known THEN timer ELSE timer \cup {"programs"}
    /\ Goto(t, "idle") /\ lock' = None
    /\ UNCHANGED <<gate, known, active, runs, calls>>

\* A start, a stop or a program edit makes the programs due at once
\* (request_schedule_refresh): the hour until the next read is over.
ReadRequested ==
    /\ "programs" \in timer /\ "programs" \in known
    /\ timer' = timer \ {"programs"}
    /\ UNCHANGED <<gate, known, task, lock, active, runs, calls>>

-----------------------------------------------------------------------------
(* Time, and the rest of the integration.                                  *)

Expire(x) ==
    /\ x \in timer
    /\ timer' = timer \ {x}
    /\ UNCHANGED <<gate, known, task, lock, active, runs, calls>>

RunBegins ==
    /\ ~active /\ runs < MaxRuns
    /\ active' = TRUE
    /\ runs' = runs + 1
    /\ UNCHANGED <<gate, timer, known, task, lock, calls>>

RunEnds ==
    /\ active
    /\ active' = FALSE
    /\ UNCHANGED <<gate, timer, known, task, lock, runs, calls>>

Next ==
    \/ PollAnswered \/ GateOpens \/ FirstRefreshBegins \/ SlowRefreshBegins
    \/ UserRefreshes
    \/ \E t \in {"metadata", "first"} :
          \/ MetadataBegins(t) \/ FirmwareRead(t) \/ FirmwareFails(t)
          \/ NamesRead(t) \/ NamesFail(t)
    \/ \E t \in {"first", "slow", "user"} :
          ScheduleBegins(t) \/ ProgramsRead(t) \/ ProgramsFail(t)
    \/ ReadRequested
    \/ \E x \in Items : Expire(x)
    \/ RunBegins \/ RunEnds

Spec == Init /\ [][Next]_vars

\* Periodic refreshes are made for ever, tasks get the lock in their turn and
\* end, time passes, waterings end. And the controller is in reach: polls are
\* answered, and of a read tried again and again some attempt succeeds.
Fairness ==
    /\ WF_vars(PollAnswered)
    /\ WF_vars(GateOpens \/ FirstRefreshBegins) /\ WF_vars(SlowRefreshBegins)
    /\ WF_vars(RunEnds)
    /\ \A x \in Items : WF_vars(Expire(x))
    /\ \A t \in {"metadata", "first"} :
          /\ SF_vars(MetadataBegins(t))
          /\ WF_vars(FirmwareRead(t) \/ FirmwareFails(t) \/ NamesRead(t) \/ NamesFail(t))
    /\ \A t \in {"first", "slow", "user"} :
          /\ SF_vars(ScheduleBegins(t))
          /\ WF_vars(ProgramsRead(t) \/ ProgramsFail(t))
    /\ SF_vars(\E t \in {"metadata", "first"} : FirmwareRead(t))
    /\ SF_vars(\E t \in {"metadata", "first"} : NamesRead(t))
    /\ SF_vars(\E t \in {"first", "slow"} : ProgramsRead(t))

FairSpec == Spec /\ Fairness

-----------------------------------------------------------------------------
(* What the user may rely on.                                              *)

\* Firmware, names and programs are read in the end, whatever failed before:
\* no gate, cooldown or lock holds them back for good.
EverythingIsRead == <>(known = Items)

=============================================================================
