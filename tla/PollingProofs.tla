---------------------------- MODULE PollingProofs ----------------------------
(***************************************************************************)
(* Proofs about what a status poll sets off: the lock of the long reads is *)
(* held by the task that reads and by no other, a clock that is to be set  *)
(* is not forgotten, and the parts keep their types side by side.          *)
(***************************************************************************)
EXTENDS MCPolling, BleHealthProofs

-----------------------------------------------------------------------------
(* The long reads.                                                         *)

Phases == {"idle", "gate", "metadata", "firmware", "names", "schedule",
           "forced", "programs"}

\* Where a task may go while another holds the lock, or none does.
Outside == Phases \ Heavy!Items

\* A task that does not read goes where it does not read: the lock is not
\* concerned.
LEMMA MoveOutside ==
  ASSUME Heavy!HeavyTypeOK, NEW t \in Heavy!Tasks, NEW pc \in Outside,
         task[t] \in Outside, Heavy!Goto(t, pc), lock' = lock
  PROVE  /\ task' \in [Heavy!Tasks -> Phases]
         /\ \A u \in Heavy!Tasks : lock' = u <=> task'[u] \in Heavy!Items
<1>1. task \in [Heavy!Tasks -> Phases]
  BY DEF Heavy!HeavyTypeOK, Phases
<1>2. task' = [task EXCEPT ![t] = pc]
  BY DEF Heavy!Goto
<1>3. \A u \in Heavy!Tasks : task'[u] = IF u = t THEN pc ELSE task[u]
  BY <1>1, <1>2
<1>4. \A u \in Heavy!Tasks : lock = u <=> task[u] \in Heavy!Items
  BY DEF Heavy!HeavyTypeOK
<1> QED
  BY <1>1, <1>2, <1>3, <1>4 DEF Outside

\* A task takes the free lock, and reads.
LEMMA LockTaken ==
  ASSUME Heavy!HeavyTypeOK, NEW t \in Heavy!Tasks, NEW pc \in Heavy!Items,
         lock = None, lock' = t, Heavy!Goto(t, pc)
  PROVE  /\ task' \in [Heavy!Tasks -> Phases]
         /\ \A u \in Heavy!Tasks : lock' = u <=> task'[u] \in Heavy!Items
<1>1. task \in [Heavy!Tasks -> Phases]
  BY DEF Heavy!HeavyTypeOK, Phases
<1>2. task' = [task EXCEPT ![t] = pc] /\ pc \in Phases
  BY DEF Heavy!Goto, Heavy!Items, Phases
<1>3. \A u \in Heavy!Tasks : task'[u] = IF u = t THEN pc ELSE task[u]
  BY <1>1, <1>2
<1>4. \A u \in Heavy!Tasks : task[u] \notin Heavy!Items
  BY PollingAssumption DEF Heavy!HeavyTypeOK
<1> QED
  BY <1>1, <1>2, <1>3, <1>4

\* A task that reads reads on.
LEMMA LockKept ==
  ASSUME Heavy!HeavyTypeOK, NEW t \in Heavy!Tasks, NEW pc \in Heavy!Items,
         task[t] \in Heavy!Items, lock' = lock, Heavy!Goto(t, pc)
  PROVE  /\ task' \in [Heavy!Tasks -> Phases]
         /\ \A u \in Heavy!Tasks : lock' = u <=> task'[u] \in Heavy!Items
<1>1. task \in [Heavy!Tasks -> Phases]
  BY DEF Heavy!HeavyTypeOK, Phases
<1>2. task' = [task EXCEPT ![t] = pc] /\ pc \in Phases
  BY DEF Heavy!Goto, Heavy!Items, Phases
<1>3. \A u \in Heavy!Tasks : task'[u] = IF u = t THEN pc ELSE task[u]
  BY <1>1, <1>2
<1>4. \A u \in Heavy!Tasks : lock = u <=> task[u] \in Heavy!Items
  BY DEF Heavy!HeavyTypeOK
<1> QED
  BY <1>1, <1>2, <1>3, <1>4

\* The task that reads is the only one, ends its read and lets the lock go.
LEMMA LockReleased ==
  ASSUME Heavy!HeavyTypeOK, NEW t \in Heavy!Tasks, NEW pc \in Outside,
         task[t] \in Heavy!Items, lock' = None, Heavy!Goto(t, pc)
  PROVE  /\ task' \in [Heavy!Tasks -> Phases]
         /\ \A u \in Heavy!Tasks : lock' = u <=> task'[u] \in Heavy!Items
<1>1. task \in [Heavy!Tasks -> Phases]
  BY DEF Heavy!HeavyTypeOK, Phases
<1>2. task' = [task EXCEPT ![t] = pc]
  BY DEF Heavy!Goto
<1>3. \A u \in Heavy!Tasks : task'[u] = IF u = t THEN pc ELSE task[u]
  BY <1>1, <1>2
<1>4. lock = t /\ \A u \in Heavy!Tasks : lock = u <=> task[u] \in Heavy!Items
  BY DEF Heavy!HeavyTypeOK
<1>5. \A u \in Heavy!Tasks : task'[u] \notin Heavy!Items
  BY <1>3, <1>4 DEF Outside
<1> QED
  BY <1>1, <1>2, <1>5, PollingAssumption DEF Outside

\* The lock and the tasks stay as they are.
LEMMA NothingMoves ==
  ASSUME Heavy!HeavyTypeOK, UNCHANGED <<task, lock>>
  PROVE  /\ task' \in [Heavy!Tasks -> Phases]
         /\ \A u \in Heavy!Tasks : lock' = u <=> task'[u] \in Heavy!Items
BY DEF Heavy!HeavyTypeOK, Phases

\* What of the type the lock and the tasks do not decide.
Rest ==
    /\ gate \in {"shut", "deferred", "open"}
    /\ timer \subseteq Heavy!Items /\ known \subseteq Heavy!Items
    /\ active \in BOOLEAN
    /\ runs \in Nat /\ calls \in Nat

\* ... and what they do.
Guarded ==
    /\ task \in [Heavy!Tasks -> Phases]
    /\ lock \in Heavy!Tasks \cup {None}
    /\ \A u \in Heavy!Tasks : lock = u <=> task[u] \in Heavy!Items

LEMMA HeavyParts == Heavy!HeavyTypeOK <=> Rest /\ Guarded
BY DEF Heavy!HeavyTypeOK, Rest, Guarded, Phases

\* A round of the metadata ends outside the reads.
LEMMA RoundEndsGuarded ==
  ASSUME Heavy!HeavyTypeOK, NEW t \in Heavy!Tasks, task[t] \in Heavy!Items,
         Heavy!RoundEnds(t)
  PROVE  Guarded'
<1>1. Heavy!AfterMetadata(t) \in Outside
  BY DEF Heavy!AfterMetadata, Outside, Phases, Heavy!Items
<1>2. Heavy!Goto(t, Heavy!AfterMetadata(t)) /\ lock' = None
  BY DEF Heavy!RoundEnds
<1> QED
  BY <1>1, <1>2, LockReleased DEF Guarded

\* After the firmware the task reads the names or ends its round.
LEMMA AfterFirmwareGuarded ==
  ASSUME Heavy!HeavyTypeOK, NEW t \in Heavy!Tasks, task[t] = "firmware",
         Heavy!AfterFirmware(t)
  PROVE  Guarded'
<1>0. task[t] \in Heavy!Items /\ "names" \in Heavy!Items
  BY DEF Heavy!Items
<1>1. CASE Heavy!Due("names")
  <2>1. Heavy!Goto(t, "names") /\ lock' = lock
    BY <1>1 DEF Heavy!AfterFirmware
  <2>2. lock' \in Heavy!Tasks \cup {None}
    BY <2>1 DEF Heavy!HeavyTypeOK
  <2> QED
    BY <1>0, <2>1, <2>2, LockKept DEF Guarded
<1>2. CASE ~Heavy!Due("names")
  BY <1>0, <1>2, RoundEndsGuarded DEF Heavy!AfterFirmware
<1> QED
  BY <1>1, <1>2

\* The gate, a schedule, a user's call: a task that does not read goes on.
LEMMA TasksBegin ==
  ASSUME Heavy!HeavyTypeOK,
         \/ Heavy!PollAnswered \/ Heavy!FirstRefreshBegins
         \/ Heavy!SlowRefreshBegins \/ Heavy!UserRefreshes
  PROVE  Guarded'
<1> USE DEF Heavy!Tasks
<1>0. lock' = lock /\ lock \in Heavy!Tasks \cup {None}
  BY DEF Heavy!PollAnswered, Heavy!FirstRefreshBegins, Heavy!SlowRefreshBegins,
         Heavy!UserRefreshes, Heavy!HeavyTypeOK
<1>a. {"idle", "gate", "metadata", "schedule", "forced"} \subseteq Outside
  BY DEF Outside, Phases, Heavy!Items
<1>1. CASE Heavy!PollAnswered
  <2>1. CASE task' = task
    BY <1>0, <2>1, NothingMoves DEF Guarded
  <2>2. CASE Heavy!Goto("metadata", "metadata") /\ task["metadata"] = "idle"
    BY <1>0, <1>a, <2>2, MoveOutside DEF Guarded
  <2> QED
    BY <1>1, <2>1, <2>2 DEF Heavy!PollAnswered
<1>2. CASE Heavy!FirstRefreshBegins
  <2>1. Heavy!Goto("first", "metadata") /\ task["first"] = "gate"
    BY <1>2 DEF Heavy!FirstRefreshBegins
  <2> QED
    BY <1>0, <1>a, <2>1, MoveOutside DEF Guarded
<1>3. CASE Heavy!SlowRefreshBegins
  <2>1. Heavy!Goto("slow", "schedule") /\ task["slow"] = "idle"
    BY <1>3 DEF Heavy!SlowRefreshBegins
  <2> QED
    BY <1>0, <1>a, <2>1, MoveOutside DEF Guarded
<1>4. CASE Heavy!UserRefreshes
  <2>1. Heavy!Goto("user", "forced") /\ task["user"] = "idle"
    BY <1>4 DEF Heavy!UserRefreshes
  <2> QED
    BY <1>0, <1>a, <2>1, MoveOutside DEF Guarded
<1> QED
  BY <1>1, <1>2, <1>3, <1>4

\* The rounds of the metadata and of the schedule.
LEMMA TasksRead ==
  ASSUME Heavy!HeavyTypeOK, NEW t \in Heavy!Tasks,
         \/ Heavy!MetadataBegins(t)
         \/ Heavy!FirmwareRead(t) \/ Heavy!FirmwareFails(t)
         \/ Heavy!NamesRead(t) \/ Heavy!NamesFail(t)
         \/ Heavy!ScheduleBegins(t)
         \/ Heavy!ProgramsRead(t) \/ Heavy!ProgramsFail(t)
  PROVE  Guarded'
<1>a. {"idle", "gate", "metadata", "schedule", "forced"} \subseteq Outside
  BY DEF Outside, Phases, Heavy!Items
<1>b. {"firmware", "names", "programs"} \subseteq Heavy!Items
  BY DEF Heavy!Items
<1>c. lock \in Heavy!Tasks \cup {None}
  BY DEF Heavy!HeavyTypeOK
<1>1. CASE Heavy!MetadataBegins(t)
  <2>1. task[t] = "metadata" /\ lock = None
    BY <1>1 DEF Heavy!MetadataBegins
  <2>2. CASE \E x \in {"firmware", "names"} : Heavy!Due(x)
    <3> DEFINE pc == IF Heavy!Due("firmware") THEN "firmware" ELSE "names"
    <3>1. Heavy!Goto(t, pc) /\ lock' = t /\ pc \in Heavy!Items
      BY <1>1, <1>b, <2>2 DEF Heavy!MetadataBegins
    <3> HIDE DEF pc
    <3> QED
      BY <2>1, <3>1, LockTaken DEF Guarded
  <2>3. CASE ~\E x \in {"firmware", "names"} : Heavy!Due(x)
    <3>1. Heavy!Goto(t, Heavy!AfterMetadata(t)) /\ lock' = lock
      BY <1>1, <2>3 DEF Heavy!MetadataBegins
    <3>2. Heavy!AfterMetadata(t) \in Outside
      BY <1>a DEF Heavy!AfterMetadata
    <3> QED
      BY <1>a, <1>c, <2>1, <3>1, <3>2, MoveOutside DEF Guarded
  <2> QED
    BY <2>2, <2>3
<1>2. CASE Heavy!FirmwareRead(t) \/ Heavy!FirmwareFails(t)
  BY <1>2, AfterFirmwareGuarded DEF Heavy!FirmwareRead, Heavy!FirmwareFails
<1>3. CASE Heavy!NamesRead(t) \/ Heavy!NamesFail(t)
  BY <1>3, <1>b, RoundEndsGuarded DEF Heavy!NamesRead, Heavy!NamesFail
<1>4. CASE Heavy!ScheduleBegins(t)
  <2>1. task[t] \in Outside /\ lock = None
    BY <1>4, <1>a DEF Heavy!ScheduleBegins
  <2>2. CASE Heavy!Goto(t, "idle") /\ lock' = lock
    BY <1>a, <1>c, <2>1, <2>2, MoveOutside DEF Guarded
  <2>3. CASE Heavy!Goto(t, "programs") /\ lock' = t
    BY <1>b, <2>1, <2>3, LockTaken DEF Guarded
  <2> QED
    BY <1>4, <2>2, <2>3 DEF Heavy!ScheduleBegins
<1>5. CASE Heavy!ProgramsRead(t) \/ Heavy!ProgramsFail(t)
  <2>1. task[t] \in Heavy!Items /\ Heavy!Goto(t, "idle") /\ lock' = None
    BY <1>5, <1>b DEF Heavy!ProgramsRead, Heavy!ProgramsFail
  <2> QED
    BY <1>a, <2>1, LockReleased DEF Guarded
<1> QED
  BY <1>1, <1>2, <1>3, <1>4, <1>5

\* Nothing else a step changes leaves its range.
LEMMA RestNext ==
  ASSUME Rest, [Heavy!Next]_(Heavy!vars)
  PROVE  Rest'
<1> USE DEF Rest, Heavy!Items
<1>1. CASE Heavy!PollAnswered \/ Heavy!GateOpens \/ Heavy!FirstRefreshBegins
  BY <1>1 DEF Heavy!PollAnswered, Heavy!GateOpens, Heavy!FirstRefreshBegins
<1>2. CASE Heavy!SlowRefreshBegins \/ Heavy!UserRefreshes
  <2>1. calls + 1 \in Nat
    OBVIOUS
  <2> QED
    BY <1>2, <2>1, Zenon DEF Heavy!SlowRefreshBegins, Heavy!UserRefreshes
<1>3. ASSUME NEW t \in {"metadata", "first"},
             \/ Heavy!MetadataBegins(t) \/ Heavy!FirmwareRead(t)
             \/ Heavy!FirmwareFails(t) \/ Heavy!NamesRead(t) \/ Heavy!NamesFail(t)
      PROVE  Rest'
  BY <1>3 DEF Heavy!MetadataBegins, Heavy!FirmwareRead, Heavy!FirmwareFails,
              Heavy!NamesRead, Heavy!NamesFail, Heavy!Learned, Heavy!Postponed
<1>4. ASSUME NEW t \in {"first", "slow", "user"},
             Heavy!ScheduleBegins(t) \/ Heavy!ProgramsRead(t) \/ Heavy!ProgramsFail(t)
      PROVE  Rest'
  BY <1>4 DEF Heavy!ScheduleBegins, Heavy!ProgramsRead, Heavy!ProgramsFail
<1>5. CASE Heavy!ReadRequested \/ \E x \in Heavy!Items : Heavy!Expire(x)
  BY <1>5 DEF Heavy!ReadRequested, Heavy!Expire
<1>6. CASE Heavy!RunBegins \/ Heavy!RunEnds
  <2>1. runs + 1 \in Nat
    OBVIOUS
  <2> QED
    BY <1>6, <2>1, Zenon DEF Heavy!RunBegins, Heavy!RunEnds
<1>7. CASE UNCHANGED Heavy!vars
  BY <1>7 DEF Heavy!vars
<1> QED
  BY <1>1, <1>2, <1>3, <1>4, <1>5, <1>6, <1>7 DEF Heavy!Next

LEMMA GuardedNext ==
  ASSUME Heavy!HeavyTypeOK, [Heavy!Next]_(Heavy!vars)
  PROVE  Guarded'
<1>1. CASE \/ Heavy!PollAnswered \/ Heavy!FirstRefreshBegins
           \/ Heavy!SlowRefreshBegins \/ Heavy!UserRefreshes
  BY <1>1, TasksBegin
<1>2. CASE \/ \E t \in {"metadata", "first"} :
                 \/ Heavy!MetadataBegins(t) \/ Heavy!FirmwareRead(t)
                 \/ Heavy!FirmwareFails(t) \/ Heavy!NamesRead(t) \/ Heavy!NamesFail(t)
           \/ \E t \in {"first", "slow", "user"} :
                 \/ Heavy!ScheduleBegins(t) \/ Heavy!ProgramsRead(t)
                 \/ Heavy!ProgramsFail(t)
  <2>1. {"metadata", "first", "slow", "user"} \subseteq Heavy!Tasks
    BY DEF Heavy!Tasks
  <2> QED
    BY <1>2, <2>1, TasksRead
<1>3. CASE \/ Heavy!GateOpens \/ Heavy!ReadRequested
           \/ \E x \in Heavy!Items : Heavy!Expire(x)
           \/ Heavy!RunBegins \/ Heavy!RunEnds \/ UNCHANGED Heavy!vars
  <2>1. UNCHANGED <<task, lock>>
    BY <1>3 DEF Heavy!GateOpens, Heavy!ReadRequested, Heavy!Expire,
                Heavy!RunBegins, Heavy!RunEnds, Heavy!vars
  <2> QED
    BY <2>1, NothingMoves DEF Guarded, Heavy!HeavyTypeOK
<1> QED
  BY <1>1, <1>2, <1>3 DEF Heavy!Next

\* The lock of the long reads: who reads holds it, so that no two tasks read
\* from the controller at once, and whoever ends a read, well or badly, has let
\* it go.
THEOREM ReadsExclude == Heavy!Spec => []Heavy!HeavyTypeOK
<1>1. Heavy!Init => Heavy!HeavyTypeOK
  <2> SUFFICES ASSUME Heavy!Init PROVE Rest /\ Guarded
    BY HeavyParts
  <2>1. Rest
    BY DEF Heavy!Init, Rest
  <2>2. task = [t \in Heavy!Tasks |-> IF t = "first" THEN "gate" ELSE "idle"] /\ lock = None
    BY DEF Heavy!Init
  <2> QED
    BY <2>1, <2>2, PollingAssumption DEF Guarded, Phases, Heavy!Items
<1>2. Heavy!HeavyTypeOK /\ [Heavy!Next]_(Heavy!vars) => Heavy!HeavyTypeOK'
  <2> SUFFICES ASSUME Heavy!HeavyTypeOK, [Heavy!Next]_(Heavy!vars)
               PROVE  Heavy!HeavyTypeOK'
    OBVIOUS
  <2>1. Rest' /\ Guarded'
    BY HeavyParts, RestNext, GuardedNext
  <2> QED
    BY <2>1 DEF Heavy!HeavyTypeOK, Rest, Guarded, Phases
<1> QED
  BY <1>1, <1>2, PTL DEF Heavy!Spec

-----------------------------------------------------------------------------
(* The clock.                                                              *)

\* A clock that is to be set is known to be: the sync is pending, or the
\* controller says it has lost the time; and an alarm that was seen is still on.
OwedIsKnown ==
    /\ owed => pending \/ alarm
    /\ seen => alarm

ClockInv ==
    /\ poll \in {"idle", "setting", "asking"}
    /\ pending \in BOOLEAN /\ seen \in BOOLEAN /\ cooling \in BOOLEAN
    /\ fresh \in BOOLEAN /\ degraded \in BOOLEAN /\ alarm \in BOOLEAN
    /\ watering \in BOOLEAN /\ owed \in BOOLEAN
    /\ OwedIsKnown

LEMMA ClockInvNext ==
  ASSUME ClockInv, [Clock!Next]_(Clock!vars)
  PROVE  ClockInv'
<1>0. /\ poll \in {"idle", "setting", "asking"}
      /\ pending \in BOOLEAN /\ seen \in BOOLEAN /\ cooling \in BOOLEAN
      /\ fresh \in BOOLEAN /\ degraded \in BOOLEAN /\ alarm \in BOOLEAN
      /\ watering \in BOOLEAN /\ owed \in BOOLEAN
      /\ owed => pending \/ alarm
      /\ seen => alarm
  BY DEF ClockInv, OwedIsKnown
<1>s. "idle" \in {"idle", "setting", "asking"} /\ "asking" \in {"idle", "setting", "asking"}
  OBVIOUS
<1>1. CASE Clock!PollBegins
  BY <1>0, <1>1 DEF Clock!PollBegins, ClockInv, OwedIsKnown
<1>2. CASE Clock!SyncDone
  BY <1>0, <1>s, <1>2, Zenon DEF Clock!SyncDone, ClockInv, OwedIsKnown
<1>3. CASE Clock!SyncFails
  BY <1>0, <1>s, <1>3, Zenon DEF Clock!SyncFails, ClockInv, OwedIsKnown
<1>4. ASSUME NEW failed \in BOOLEAN, Clock!Outcome(failed)
      PROVE  /\ degraded' \in BOOLEAN /\ pending' \in BOOLEAN /\ owed' \in BOOLEAN
             /\ owed' => pending' \/ alarm
  BY <1>0, <1>4, Zenon DEF Clock!Outcome
<1>5. CASE Clock!PollAnswered
  <2>1. Clock!Outcome(FALSE)
    BY <1>5 DEF Clock!PollAnswered
  <2> QED
    BY <1>0, <1>s, <1>4, <1>5, <2>1, Zenon DEF Clock!PollAnswered, ClockInv, OwedIsKnown
<1>6. CASE Clock!PollFails
  <2>1. Clock!Outcome(TRUE) /\ seen' \in BOOLEAN
    BY <1>0, <1>6 DEF Clock!PollFails
  <2> QED
    BY <1>0, <1>s, <1>4, <1>6, <2>1, Zenon DEF Clock!PollFails, ClockInv, OwedIsKnown
<1>7. ASSUME NEW failed \in BOOLEAN, Clock!ReadEnds(failed) PROVE ClockInv'
  <2>1. Clock!Outcome(failed)
    BY <1>7 DEF Clock!ReadEnds
  <2> QED
    BY <1>0, <1>4, <1>7, <2>1, Zenon DEF Clock!ReadEnds, ClockInv, OwedIsKnown
<1>8. CASE Clock!CoolingEnds \/ Clock!DayEnds
  <2>1. CASE Clock!CoolingEnds
    BY <1>0, <2>1, Zenon DEF Clock!CoolingEnds, ClockInv, OwedIsKnown
  <2>2. CASE Clock!DayEnds
    BY <1>0, <2>2, Zenon DEF Clock!DayEnds, ClockInv, OwedIsKnown
  <2> QED
    BY <1>8, <2>1, <2>2
<1>9. CASE Clock!ClockLost
  BY <1>0, <1>9, Zenon DEF Clock!ClockLost, ClockInv, OwedIsKnown
<1>10. CASE Clock!RunBegins \/ Clock!RunEnds
  <2>1. UNCHANGED <<poll, pending, seen, cooling, fresh, degraded, alarm, owed>>
    BY <1>10, Zenon DEF Clock!RunBegins, Clock!RunEnds
  <2>2. watering' \in BOOLEAN
    BY <1>10, Zenon DEF Clock!RunBegins, Clock!RunEnds
  <2> QED
    BY <1>0, <2>1, <2>2 DEF ClockInv, OwedIsKnown
<1>11. CASE UNCHANGED Clock!vars
  BY <1>0, <1>11 DEF Clock!vars, ClockInv, OwedIsKnown
<1> QED
  BY <1>1, <1>2, <1>3, <1>5, <1>6, <1>7, <1>8, <1>9, <1>10, <1>11 DEF Clock!Next

\* The waterings are counted up to their bound.
LEMMA WateringsBounded ==
  ASSUME waterings \in 0..MaxRuns, [Clock!Next]_(Clock!vars)
  PROVE  waterings' \in 0..MaxRuns
<1>1. CASE Clock!RunBegins
  <2>1. waterings' = waterings + 1 /\ waterings < MaxRuns
    BY <1>1 DEF Clock!RunBegins
  <2> QED
    BY <2>1, PollingAssumption
<1>2. CASE ~Clock!RunBegins
  <2>1. waterings' = waterings
    BY <1>2, Zenon DEF Clock!Next, Clock!PollBegins, Clock!SyncDone, Clock!SyncFails,
       Clock!PollAnswered, Clock!PollFails, Clock!ReadEnds, Clock!CoolingEnds,
       Clock!DayEnds, Clock!ClockLost, Clock!RunEnds, Clock!vars
  <2> QED
    BY <2>1
<1> QED
  BY <1>1, <1>2

\* A sync that is owed is not forgotten, whatever fails, and however polls,
\* reads, waterings and losses of power follow on each other: the poll that
\* finds the alarm or the pending sync sets the time.
THEOREM OwedSyncIsKnown == Clock!Spec => [](Clock!ClockTypeOK /\ OwedIsKnown)
<1> DEFINE Inv == ClockInv /\ waterings \in 0..MaxRuns
<1>1. Clock!Init => Inv
  <2> SUFFICES ASSUME Clock!Init PROVE Inv
    OBVIOUS
  <2>1. ClockInv
    BY Zenon DEF Clock!Init, ClockInv, OwedIsKnown
  <2>2. waterings = 0
    BY DEF Clock!Init
  <2> QED
    BY <2>1, <2>2, PollingAssumption
<1>2. Inv /\ [Clock!Next]_(Clock!vars) => Inv'
  BY ClockInvNext, WateringsBounded
<1>3. Inv => Clock!ClockTypeOK /\ OwedIsKnown
  BY DEF ClockInv, Clock!ClockTypeOK
<1> HIDE DEF Inv
<1> QED
  BY <1>1, <1>2, <1>3, PTL DEF Clock!Spec

-----------------------------------------------------------------------------
(* The parts side by side.                                                 *)

\* An instance is a behaviour of each of the parts, two of which stand still.
THEOREM PartsSideBySide == MCSpec => Spec /\ Heavy!Spec /\ Clock!Spec
<1>1. MCInit => Init /\ Heavy!Init /\ Clock!Init
  BY DEF MCInit
<1>2. [MCNext]_mcVars => [Next]_vars /\ [Heavy!Next]_(Heavy!vars) /\ [Clock!Next]_(Clock!vars)
  BY DEF MCNext, mcVars, heavyVars, clockVars, vars, Heavy!vars, Clock!vars
<1> QED
  BY <1>1, <1>2, PTL DEF MCSpec, Spec, Heavy!Spec, Clock!Spec

\* PollingTypeOK, for every threshold and interval.
THEOREM PollingTypes == MCSpec => []PollingTypeOK
BY PartsSideBySide, HealthTypes, ReadsExclude, OwedSyncIsKnown, PTL DEF PollingTypeOK

=============================================================================
