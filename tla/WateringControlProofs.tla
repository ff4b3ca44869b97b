------------------------ MODULE WateringControlProofs ------------------------
(***************************************************************************)
(* Theorems of WateringControl, for any stations, programs and callers and *)
(* any number of commands, cancellations and restarts.                     *)
(***************************************************************************)
EXTENDS WateringControl, TLAPS

-----------------------------------------------------------------------------
(* The inductive invariants.                                               *)

Devices == [on : BOOLEAN, station : Stations \cup {None}, program : Programs \cup {None},
            cause : Causes, run : 0..MaxRuns]

Coordinators == [active : BOOLEAN, watering : BOOLEAN, stopEvent : BOOLEAN,
                 ref : Runs \cup {None}, torn : BOOLEAN]

Calls == [pc : {"out", "journal", "send", "status", "join"},
          op : {"none", "station", "program", "stop", "on", "off"},
          station : Stations \cup {None}, program : Programs \cup {None},
          run : Runs \cup {None}]

MonitorPcs == {"head", "sleep", "publish", "final", "ended"}

\* Only starts are journaled; an action that sends a command knows which, and an
\* acknowledged start which run it is.
CallOK(c) ==
  /\ c \in Calls
  /\ c.op = "program" => c.program # None
  /\ c.pc = "journal" => Starts(c)
  /\ c.pc \in {"send", "status"} => c.op # "none"
  /\ c.pc = "status" /\ Starts(c) => c.run # None

\* A controller that is off waters nothing.
DevOK(d) == d \in Devices /\ (Running(d) => d.on)

\* The coordinator's reference is to a monitor alive.
CoOK(c, m) ==
  /\ c \in Coordinators /\ m \in [Runs -> MonitorPcs]
  /\ c.ref # None => m[c.ref] # "ended"

WateringInv ==
  /\ DevOK(dev)
  /\ act \in Activities /\ file \in Intents \cup {None}
  /\ CoOK(co, mon)
  /\ call \in [Callers -> Calls] /\ \A u \in Callers : CallOK(call[u])
  /\ loaded \in BOOLEAN
  /\ spent \in [{"commands", "cancels", "crashes"} -> Nat]

LEMMA InvTyped == WateringInv => WateringTypeOK
BY DEF WateringInv, WateringTypeOK, DevOK, CoOK, Devices, Coordinators, Calls, MonitorPcs, Alive

-----------------------------------------------------------------------------
(* The activity history.                                                   *)

LEMMA KeptType ==
  ASSUME NEW a \in Activities, NEW s, NEW expired
  PROVE  /\ Kept(a, s, expired) \in Intents \cup {None}
         /\ Kept(a, s, expired) # None => /\ a.pending # None /\ Running(s)
                                          /\ ~Consumes(a, s, expired)
<1>1. a.pending \in Intents \cup {None}
  BY DEF Activities
<1>2. CASE a.pending = None \/ ~Running(s) \/ expired \/ Consumes(a, s, expired)
  BY <1>2 DEF Kept
<1>3. CASE ~(a.pending = None \/ ~Running(s) \/ expired \/ Consumes(a, s, expired))
  <2>1. Kept(a, s, expired) = [a.pending EXCEPT !.seen = TRUE] /\ a.pending \in Intents
    BY <1>1, <1>3 DEF Kept
  <2>2. [a.pending EXCEPT !.seen = TRUE] \in Intents
    BY <2>1 DEF Intents
  <2> QED
    BY <1>3, <2>1, <2>2
<1> QED
  BY <1>2, <1>3

\* What observe() leaves when it takes the status s in one of the possible ways.
Taken(a, s, continuous, expired, source) ==
  [pending   |-> Kept(a, s, expired),
   current   |-> IF ~Running(s) THEN None
                 ELSE [source  |-> IF GoesOn(a, s, continuous, expired)
                                     THEN a.current.source ELSE source,
                       program |-> s.program, cause |-> s.cause],
   observed  |-> TRUE,
   wasActive |-> Running(s),
   displaced |-> a.displaced /\ GoesOn(a, s, continuous, expired)]

LEMMA ObservedFields ==
  ASSUME NEW a, NEW s, NEW x \in Observed(a, s)
  PROVE  \E continuous, expired \in BOOLEAN, source \in {HA, UNKNOWN} \cup External :
           /\ continuous => a.observed
           /\ expired /\ continuous => LongPolls \/ (a.pending # None /\ a.pending.seen)
           /\ source \in Sources(a, s, continuous, expired)
           /\ x = Taken(a, s, continuous, expired, source)
BY DEF Observed, Taken

LEMMA ObservedType ==
  ASSUME NEW a \in Activities, NEW s \in Statuses, NEW x \in Observed(a, s)
  PROVE  x \in Activities
<1>1. PICK continuous \in BOOLEAN, expired \in BOOLEAN, source \in {HA, UNKNOWN} \cup External :
        x = Taken(a, s, continuous, expired, source)
  BY ObservedFields
<1> DEFINE goesOn == GoesOn(a, s, continuous, expired)
           said == IF goesOn THEN a.current.source ELSE source
           new == [source |-> said, program |-> s.program, cause |-> s.cause]
           current == IF ~Running(s) THEN None ELSE new
           running == Running(s)
           displaced == a.displaced /\ goesOn
<1>2. a.current \in Records \cup {None}
  BY DEF Activities
<1>3. said \in {HA, UNKNOWN} \cup External
  BY <1>2 DEF GoesOn, Records
<1>4. current \in Records \cup {None}
  <2> HIDE DEF said
  <2>1. new \in Records
    BY <1>3 DEF Records, Statuses
  <2> QED
    BY <2>1
<1>5. running \in BOOLEAN /\ displaced \in BOOLEAN
  BY DEF Running, Watering
<1>6. Kept(a, s, expired) \in Intents \cup {None}
  BY KeptType
<1>7. x = [pending |-> Kept(a, s, expired), current |-> current, observed |-> TRUE,
           wasActive |-> running, displaced |-> displaced]
  BY <1>1 DEF Taken
<1> HIDE DEF current, running, displaced
<1> QED
  BY <1>4, <1>5, <1>6, <1>7 DEF Activities

\* A start that is journaled.
LEMMA JournalingType ==
  ASSUME NEW a \in Activities, NEW i \in Intents
  PROVE  /\ Journaling(a, i) \in Activities
         /\ Journaling(a, i).pending = i /\ Journaling(a, i).current = a.current
         /\ Journaling(a, i).observed = a.observed /\ Journaling(a, i).wasActive = a.wasActive
         /\ Journaling(a, i).displaced <=> (a.displaced \/ Displaces(i, a.pending))
<1> DEFINE displaced == a.displaced \/ Displaces(i, a.pending)
<1>1. displaced \in BOOLEAN
  OBVIOUS
<1>2. Journaling(a, i) = [a EXCEPT !.pending = i, !.displaced = displaced]
  BY DEF Journaling, Activities
<1> HIDE DEF displaced
<1>3. /\ Journaling(a, i) \in Activities
      /\ Journaling(a, i).pending = i /\ Journaling(a, i).current = a.current
      /\ Journaling(a, i).observed = a.observed /\ Journaling(a, i).wasActive = a.wasActive
      /\ Journaling(a, i).displaced = displaced
  BY <1>1, <1>2 DEF Activities
<1> QED
  BY <1>3 DEF displaced

LEMMA ConfirmedType ==
  ASSUME NEW a \in Activities
  PROVE  /\ Confirmed(a) \in Activities
         /\ Confirmed(a).current = a.current /\ Confirmed(a).observed = a.observed
         /\ Confirmed(a).wasActive = a.wasActive /\ Confirmed(a).displaced = a.displaced
         /\ (Confirmed(a).pending = None) <=> (a.pending = None)
         /\ a.pending # None => /\ Confirmed(a).pending.seen = a.pending.seen
                                /\ Confirmed(a).pending.station = a.pending.station
                                /\ Confirmed(a).pending.program = a.pending.program
<1>1. CASE a.pending = None
  BY <1>1 DEF Confirmed
<1>2. CASE a.pending # None
  <2> DEFINE i == [a.pending EXCEPT !.confirmed = TRUE]
  <2>1. a.pending \in Intents
    BY <1>2 DEF Activities
  <2>2. /\ i \in Intents /\ i.seen = a.pending.seen
        /\ i.station = a.pending.station /\ i.program = a.pending.program
    BY <2>1 DEF Intents
  <2>3. Confirmed(a) = [a EXCEPT !.pending = i]
    BY <1>2 DEF Confirmed, Activities
  <2>4. i # None
    BY <2>2, ActivityAssumption
  <2> HIDE DEF i
  <2> QED
    BY <1>2, <2>2, <2>3, <2>4 DEF Activities
<1> QED
  BY <1>1, <1>2

LEMMA FreshType ==
  ASSUME NEW i \in Intents \cup {None}
  PROVE  Fresh(i) \in Activities /\ LoadedActivity(i) \in Activities
<1>1. ASSUME NEW j \in Intents \cup {None} PROVE Fresh(j) \in Activities
  BY DEF Fresh, Activities
<1>2. CASE i = None
  BY <1>1, <1>2 DEF LoadedActivity
<1>3. CASE i # None
  <2>1. [i EXCEPT !.confirmed = FALSE, !.seen = FALSE] \in Intents
    BY <1>3 DEF Intents
  <2> QED
    BY <1>1, <1>3, <2>1 DEF LoadedActivity
<1> QED
  BY <1>1, <1>2, <1>3

LEMMA StatusType ==
  ASSUME DevOK(dev)
  PROVE  Status \in Statuses /\ (Running(Status) <=> Running(dev))
         /\ (Running(dev) => /\ Status.program = dev.program /\ Status.cause = dev.cause
                             /\ Status.station = dev.station)
         /\ (Watering(Status) <=> Watering(dev))
BY DEF DevOK, Devices, Status, Statuses, Running, Watering, Causes

-----------------------------------------------------------------------------
(* The controller and the coordinator.                                     *)

LEMMA BegunType ==
  ASSUME DevOK(dev), dev.run < MaxRuns, NEW s \in Stations \cup {None},
         NEW p \in Programs \cup {None}, NEW cause \in Causes
  PROVE  DevOK(Begun(s, p, cause)) /\ Begun(s, p, cause).run \in Runs
BY WateringAssumption DEF DevOK, Devices, Begun, Running, Watering, Runs

LEMMA NoRunType ==
  ASSUME DevOK(dev), NEW on \in BOOLEAN
  PROVE  DevOK(NoRun(on)) /\ ~Running(NoRun(on))
BY DEF DevOK, Devices, NoRun, Running, Watering, Causes

\* The run d is the run e, or the same program further on.
SameRun(d, e) == /\ Running(e) /\ d.program = e.program /\ d.cause = e.cause
                 /\ e.program # None \/ d.station = e.station

\* The run d is what the command c asks for.
AskedFor(c, d) == /\ Starts(c) /\ d.program = c.program
                  /\ c.op = "station" => d.station = c.station

\* A command that reaches the controller.
LEMMA ReachedType ==
  ASSUME DevOK(dev), NEW c \in Calls, c.op # "none", Starts(c) => dev.run < MaxRuns,
         NEW d \in Executed(c)
  PROVE  /\ DevOK(d)
         /\ Starts(c) => d.run \in Runs
         /\ Running(d) => AskedFor(c, d) \/ SameRun(d, dev)
<1>1. c.op \in {"station", "program", "stop", "on", "off"} /\ dev.on \in BOOLEAN
  BY DEF Calls, DevOK, Devices
<1>2. CASE Starts(c) /\ dev.on
  <2>1. c.op \in {"station", "program"}
    BY <1>2 DEF Starts
  <2>2. PICK s \in IF c.op = "station" THEN {c.station} ELSE Stations : d = Begun(s, c.program, "ha")
    BY <1>2, <2>1 DEF Executed
  <2>3. s \in Stations \cup {None} /\ c.program \in Programs \cup {None}
    BY <2>2 DEF Calls
  <2>4. AskedFor(c, d)
    BY <1>2, <2>2 DEF AskedFor, Begun
  <2> QED
    BY <1>2, <2>2, <2>3, <2>4, BegunType DEF Causes
<1>3. CASE Starts(c) /\ ~dev.on
  <2>1. c.op \in {"station", "program"}
    BY <1>3 DEF Starts
  <2>2. d = [dev EXCEPT !.run = dev.run + 1]
    BY <1>3, <2>1 DEF Executed
  <2> QED
    BY <1>3, <2>2, WateringAssumption DEF DevOK, Devices, Running, Watering, Runs
<1>4. CASE c.op = "stop"
  <2>1. d = NoRun(dev.on)
    BY <1>4 DEF Executed
  <2> QED
    BY <1>1, <1>4, <2>1, NoRunType DEF Starts
<1>5. CASE c.op = "off"
  <2>1. d = NoRun(FALSE)
    BY <1>5 DEF Executed
  <2> QED
    BY <1>1, <1>5, <2>1, NoRunType DEF Starts
<1>6. CASE c.op = "on"
  <2>1. d = [dev EXCEPT !.on = TRUE]
    BY <1>6 DEF Executed
  <2> QED
    BY <1>6, <2>1 DEF DevOK, Devices, Starts, Running, Watering, SameRun
<1> QED
  BY <1>1, <1>2, <1>3, <1>4, <1>5, <1>6 DEF Starts

LEMMA AppliedType ==
  ASSUME NEW c \in Coordinators, NEW s
  PROVE  /\ Applied(c, s) \in Coordinators /\ Applied(c, s).ref = c.ref
         /\ Applied(c, s).stopEvent = c.stopEvent
         /\ Applied(c, s).active => Applied(c, s).watering
<1> DEFINE w == Watering(s)
           active == c.active /\ w
           torn == c.torn /\ w
<1>1. w \in BOOLEAN /\ active \in BOOLEAN /\ torn \in BOOLEAN /\ (active => w)
  BY DEF Watering
<1>2. Applied(c, s) = [c EXCEPT !.watering = w, !.active = active, !.torn = torn]
  BY DEF Applied, Coordinators
<1> HIDE DEF w, active, torn
<1> QED
  BY <1>1, <1>2 DEF Coordinators

LEMMA ClearedType ==
  ASSUME NEW c \in Coordinators
  PROVE  /\ Cleared(c) \in Coordinators /\ Cleared(c).ref = c.ref
         /\ Cleared(c).stopEvent = c.stopEvent
         /\ ~Cleared(c).active
BY DEF Cleared, Coordinators

\* A monitor moves on, or ends and takes its reference with it.
LEMMA MonitorMoves ==
  ASSUME CoOK(co, mon), NEW m \in Runs, NEW v \in MonitorPcs,
         mon' = [mon EXCEPT ![m] = v], co' \in Coordinators,
         co'.ref \in {co.ref, None}, v = "ended" => co'.ref # m
  PROVE  CoOK(co', mon')
<1>1. mon' \in [Runs -> MonitorPcs]
  BY DEF CoOK
<1>2. ASSUME co'.ref # None PROVE mon'[co'.ref] # "ended"
  BY <1>2 DEF CoOK, Coordinators
<1> QED
  BY <1>1, <1>2 DEF CoOK

\* The coordinator lets go of its monitor.
LEMMA MonitorCancelled ==
  ASSUME CoOK(co, mon), CancelMonitor, co' \in Coordinators, co'.ref = None
  PROVE  CoOK(co', mon')
<1>1. mon' \in [Runs -> MonitorPcs]
  BY DEF CoOK, CancelMonitor, MonitorPcs
<1> QED
  BY <1>1 DEF CoOK

-----------------------------------------------------------------------------
(* Type correctness.                                                       *)

LEMMA WateringInit == Init => WateringInv
<1> SUFFICES ASSUME Init PROVE WateringInv
  OBVIOUS
<1>1. DevOK(dev)
  BY WateringAssumption DEF Init, DevOK, Devices, Causes, Running, Watering
<1>2. act \in Activities
  BY FreshType DEF Init
<1>3. CoOK(co, mon)
  BY DEF Init, CoOK, NewCoordinator, Coordinators, MonitorPcs
<1>4. call \in [Callers -> Calls] /\ \A u \in Callers : CallOK(call[u])
  BY DEF Init, Idle, CallOK, Calls, Starts
<1> QED
  BY <1>1, <1>2, <1>3, <1>4 DEF Init, WateringInv

LEMMA IdleCall == CallOK(Idle) /\ ~Starts(Idle) /\ Idle.pc = "out"
BY DEF Idle, CallOK, Calls, Starts

\* A caller that changes its own record.
LEMMA CallFrame ==
  ASSUME WateringInv, NEW u \in Callers, NEW c, CallOK(c), call' = [call EXCEPT ![u] = c]
  PROVE  /\ call' \in [Callers -> Calls] /\ \A v \in Callers : CallOK(call'[v])
         /\ call'[u] = c /\ \A v \in Callers \ {u} : call'[v] = call[v]
BY DEF WateringInv, CallOK

LEMMA CallGoes ==
  ASSUME WateringInv, NEW u \in Callers, NEW pc \in {"send", "status", "join"},
         Goto(u, pc), pc \in {"send", "status"} => call[u].op # "none",
         pc = "status" => ~Starts(call[u])
  PROVE  /\ call' \in [Callers -> Calls] /\ \A v \in Callers : CallOK(call'[v])
         /\ call'[u].pc = pc /\ call'[u].op = call[u].op
         /\ \A v \in Callers \ {u} : call'[v] = call[v]
<1> DEFINE c == [call[u] EXCEPT !.pc = pc]
<1>1. call[u] \in Calls /\ call' = [call EXCEPT ![u] = c]
  BY DEF Goto, WateringInv
<1>2. c \in Calls /\ c.pc = pc /\ c.op = call[u].op /\ c.program = call[u].program
  BY <1>1 DEF Calls
<1> HIDE DEF c
<1>3. CallOK(c)
  BY <1>2 DEF CallOK, Starts, WateringInv
<1> QED
  BY <1>1, <1>2, <1>3, CallFrame

LEMMA CallReturns ==
  ASSUME WateringInv, NEW u \in Callers, Return(u)
  PROVE  /\ call' \in [Callers -> Calls] /\ \A v \in Callers : CallOK(call'[v])
         /\ call'[u] = Idle /\ \A v \in Callers \ {u} : call'[v] = call[v]
BY CallFrame, IdleCall DEF Return

\* A command that may have reached the controller.
LEMMA ReachesType ==
  ASSUME WateringInv, NEW u \in Callers, UNCHANGED dev \/ (call[u].pc = "send" /\ Reaches(u))
  PROVE  /\ DevOK(dev')
         /\ call[u].pc = "send" /\ Reaches(u) /\ Starts(call[u]) => dev'.run \in Runs
         /\ Running(dev') => \/ call[u].pc = "send" /\ AskedFor(call[u], dev')
                             \/ SameRun(dev', dev)
<1>1. DevOK(dev) /\ call[u] \in Calls /\ CallOK(call[u])
  BY DEF WateringInv
<1>2. CASE UNCHANGED dev /\ ~Reaches(u)
  BY <1>1, <1>2 DEF SameRun
<1>3. CASE call[u].pc = "send" /\ Reaches(u)
  BY <1>1, <1>3, ReachedType DEF Reaches, CallOK
<1>4. CASE UNCHANGED dev /\ call[u].pc # "send"
  BY <1>1, <1>4 DEF SameRun
<1> QED
  BY <1>2, <1>3, <1>4

\* A status that is looked at.
LEMMA ObserveType ==
  ASSUME WateringInv, NEW a \in Observed(act, Status)
  PROVE  a \in Activities /\ Confirmed(a) \in Activities
BY ObservedType, ConfirmedType, StatusType DEF WateringInv

\* The caller's steps keep the types.
LEMMA CallStepType ==
  ASSUME WateringInv, NEW u \in Callers,
         PressStart(u) \/ PressOther(u) \/ CallStep(u) \/ CancelCall(u)
  PROVE  WateringInv'
<1>0. /\ DevOK(dev) /\ act \in Activities /\ file \in Intents \cup {None}
      /\ CoOK(co, mon) /\ co \in Coordinators
      /\ call \in [Callers -> Calls] /\ \A v \in Callers : CallOK(call[v])
      /\ call[u] \in Calls /\ CallOK(call[u])
      /\ loaded \in BOOLEAN /\ spent \in [{"commands", "cancels", "crashes"} -> Nat]
  BY DEF WateringInv, CoOK
<1>s. ASSUME NEW what \in {"commands", "cancels", "crashes"}, NEW limit, Spend(what, limit)
      PROVE  spent' \in [{"commands", "cancels", "crashes"} -> Nat]
  BY <1>0, <1>s DEF Spend
<1>1. CASE PressStart(u)
  <2>1. PICK x \in {[station |-> s, program |-> None] : s \in Stations}
                   \cup {[station |-> None, program |-> p] : p \in Programs} :
          /\ act' = Journaling(act, Intent(x.station, x.program))
          /\ call' = [call EXCEPT ![u] =
               [pc |-> "journal", op |-> IF x.program = None THEN "station" ELSE "program",
                station |-> x.station, program |-> x.program, run |-> None]]
    BY <1>1 DEF PressStart
  <2> DEFINE op == IF x.program = None THEN "station" ELSE "program"
             c == [pc |-> "journal", op |-> op, station |-> x.station,
                   program |-> x.program, run |-> None]
  <2>2. x.station \in Stations \cup {None} /\ x.program \in Programs \cup {None}
    OBVIOUS
  <2>3. op \in {"station", "program"} /\ call' = [call EXCEPT ![u] = c]
    BY <2>1
  <2>9. op = "program" => x.program # None
    OBVIOUS
  <2> HIDE DEF op
  <2>4. CallOK(c)
    BY <2>2, <2>3, <2>9 DEF CallOK, Calls, Starts
  <2>5. call' \in [Callers -> Calls] /\ \A v \in Callers : CallOK(call'[v])
    BY <2>3, <2>4, CallFrame
  <2>6. Intent(x.station, x.program) \in Intents
    BY <2>2 DEF Intent, Intents
  <2>7. act' \in Activities
    BY <1>0, <2>1, <2>6, JournalingType
  <2>8. spent' \in [{"commands", "cancels", "crashes"} -> Nat]
    BY <1>s, <1>1 DEF PressStart
  <2> QED
    BY <1>0, <1>1, <2>5, <2>7, <2>8 DEF PressStart, WateringInv
<1>2. CASE PressOther(u)
  <2>1. PICK op \in {"stop", "on", "off"} :
          call' = [call EXCEPT ![u] = [Idle EXCEPT !.pc = "send", !.op = op]]
    BY <1>2 DEF PressOther
  <2>2. CallOK([Idle EXCEPT !.pc = "send", !.op = op])
    BY DEF Idle, CallOK, Calls, Starts
  <2>3. call' \in [Callers -> Calls] /\ \A v \in Callers : CallOK(call'[v])
    BY <2>1, <2>2, CallFrame
  <2>4. spent' \in [{"commands", "cancels", "crashes"} -> Nat]
    BY <1>s, <1>2 DEF PressOther
  <2> QED
    BY <1>0, <1>2, <2>3, <2>4 DEF PressOther, WateringInv
<1>3. CASE Journaled(u)
  <2>1. file' \in Intents \cup {None}
    BY <1>0, <1>3 DEF Journaled, Activities
  <2>2. call' \in [Callers -> Calls] /\ \A v \in Callers : CallOK(call'[v])
    <3>1. CASE co.active
      BY <1>3, <3>1, CallReturns DEF Journaled
    <3>2. CASE ~co.active
      <4>1. Goto(u, "send") /\ call[u].op # "none"
        BY <1>0, <1>3, <3>2 DEF Journaled, CallOK, Starts
      <4> QED
        BY <4>1, CallGoes
    <3> QED
      BY <3>1, <3>2
  <2> QED
    BY <1>0, <1>3, <2>1, <2>2 DEF Journaled, WateringInv
<1>4. CASE JournalFails(u)
  <2>1. call' \in [Callers -> Calls] /\ \A v \in Callers : CallOK(call'[v])
    BY <1>4, CallReturns DEF JournalFails
  <2> QED
    BY <1>0, <1>4, <2>1 DEF JournalFails, WateringInv
<1>5. CASE StartSent(u)
  <2> DEFINE c == [call[u] EXCEPT !.pc = "status", !.run = dev'.run]
  <2>1. DevOK(dev') /\ dev'.run \in Runs
    BY <1>5, ReachesType DEF StartSent
  <2>2. CallOK(c)
    <3>1. dev'.run # None
      BY <2>1, WateringAssumption DEF Runs
    <3>2. /\ c \in Calls /\ c.pc = "status" /\ c.op = call[u].op /\ c.run = dev'.run
          /\ c.program = call[u].program
      BY <1>0, <2>1 DEF Calls
    <3>3. c.op # "none"
      BY <1>5, <3>2 DEF StartSent, Starts
    <3> HIDE DEF c
    <3> QED
      BY <1>0, <3>1, <3>2, <3>3 DEF CallOK
  <2>3. call' = [call EXCEPT ![u] = c]
    BY <1>0, <1>5 DEF StartSent, Calls
  <2> HIDE DEF c
  <2>4. call' \in [Callers -> Calls] /\ \A v \in Callers : CallOK(call'[v])
    BY <2>2, <2>3, CallFrame
  <2>5. co' \in Coordinators /\ co'.ref = co.ref
    BY <1>0, <1>5 DEF StartSent, Coordinators
  <2>6. CoOK(co', mon')
    BY <1>0, <1>5, <2>5 DEF StartSent, CoOK
  <2> QED
    BY <1>0, <1>5, <2>1, <2>4, <2>6 DEF StartSent, WateringInv
<1>6. CASE SwitchSent(u)
  <2>1. DevOK(dev')
    BY <1>6, ReachesType DEF SwitchSent
  <2>2. call' \in [Callers -> Calls] /\ \A v \in Callers : CallOK(call'[v])
    BY <1>6, CallGoes DEF SwitchSent, Starts
  <2> QED
    BY <1>0, <1>6, <2>1, <2>2 DEF SwitchSent, WateringInv
<1>7. CASE StopSent(u)
  <2>1. DevOK(dev')
    BY <1>7, ReachesType DEF StopSent
  <2>2. call' \in [Callers -> Calls] /\ \A v \in Callers : CallOK(call'[v])
    BY <1>7, CallGoes, CallReturns DEF StopSent
  <2>3. co' \in Coordinators /\ co'.ref = None
    BY <1>0, <1>7, ClearedType DEF StopSent, Coordinators
  <2>4. CoOK(co', mon')
    BY <1>0, <1>7, <2>3, MonitorCancelled DEF StopSent
  <2> QED
    BY <1>0, <1>7, <2>1, <2>2, <2>4 DEF StopSent, WateringInv
<1>8. CASE Stopped(u)
  <2>1. call' \in [Callers -> Calls] /\ \A v \in Callers : CallOK(call'[v])
    BY <1>8, CallReturns DEF Stopped
  <2>2. CoOK(co', mon')
    BY <1>0, <1>8, ClearedType DEF Stopped, CoOK
  <2> QED
    BY <1>0, <1>8, <2>1, <2>2 DEF Stopped, WateringInv
<1>9. CASE Fails(u)
  <2>1. call' \in [Callers -> Calls] /\ \A v \in Callers : CallOK(call'[v])
    BY <1>9, CallReturns DEF Fails
  <2>2. CoOK(co', mon')
    BY <1>0, <1>9, ClearedType DEF Fails, CoOK
  <2>3. DevOK(dev')
    BY <1>9, ReachesType DEF Fails
  <2> QED
    BY <1>0, <1>9, <2>1, <2>2, <2>3 DEF Fails, WateringInv
<1>10. CASE StationStarted(u)
  <2> DEFINE after == Applied(co, Status)
  <2>1. call' \in [Callers -> Calls] /\ \A v \in Callers : CallOK(call'[v])
    BY <1>10, CallReturns DEF StationStarted
  <2>2. act' \in Activities
    BY <1>10, ObserveType DEF StationStarted
  <2>3. after \in Coordinators /\ after.ref = co.ref
    BY <1>0, AppliedType
  <2>4. call[u].run \in Runs
    BY <1>0, <1>10 DEF StationStarted, CallOK, Calls, Starts
  <2>5. CASE after.watering
    <3>1. co' = [after EXCEPT !.ref = call[u].run] /\ mon' = [mon EXCEPT ![call[u].run] = "head"]
      BY <1>10, <2>5 DEF StationStarted
    <3> HIDE DEF after
    <3>2. co' \in Coordinators /\ co'.ref = call[u].run
      BY <2>3, <2>4, <3>1 DEF Coordinators
    <3>3. CoOK(co', mon')
      BY <1>0, <2>4, <3>1, <3>2 DEF CoOK, MonitorPcs
    <3> QED
      BY <1>0, <1>10, <2>1, <2>2, <3>3 DEF StationStarted, WateringInv
  <2>6. CASE ~after.watering
    <3>1. co' = Cleared(after) /\ mon' = mon
      BY <1>10, <2>6 DEF StationStarted
    <3> HIDE DEF after
    <3>2. CoOK(co', mon')
      BY <1>0, <2>3, <3>1, ClearedType DEF CoOK
    <3> QED
      BY <1>0, <1>10, <2>1, <2>2, <3>2 DEF StationStarted, WateringInv
  <2> QED
    BY <2>5, <2>6
<1>11. CASE ProgramStarted(u)
  <2>1. call' \in [Callers -> Calls] /\ \A v \in Callers : CallOK(call'[v])
    BY <1>11, CallReturns DEF ProgramStarted
  <2>2. act' \in Activities
    BY <1>11, ObserveType DEF ProgramStarted
  <2>3. CoOK(co', mon')
    BY <1>0, <1>11, AppliedType DEF ProgramStarted, CoOK
  <2> QED
    BY <1>0, <1>11, <2>1, <2>2, <2>3 DEF ProgramStarted, WateringInv
<1>12. CASE Switched(u)
  <2>1. call' \in [Callers -> Calls] /\ \A v \in Callers : CallOK(call'[v])
    BY <1>12, CallReturns DEF Switched
  <2>2. act' \in Activities
    BY <1>12, ObserveType DEF Switched, Fetch, Observe
  <2>3. CoOK(co', mon')
    BY <1>0, <1>12, AppliedType DEF Switched, Fetch, CoOK
  <2> QED
    BY <1>0, <1>12, <2>1, <2>2, <2>3 DEF Switched, WateringInv
<1>13. CASE CancelCall(u)
  <2> DEFINE torn == co.torn \/ (call[u].pc = "status" /\ call[u].op = "station")
  <2>1. call' \in [Callers -> Calls] /\ \A v \in Callers : CallOK(call'[v])
    BY <1>13, CallReturns DEF CancelCall
  <2>2. torn \in BOOLEAN /\ co' = [co EXCEPT !.torn = torn]
    BY <1>13, <1>0 DEF CancelCall, Coordinators
  <2> HIDE DEF torn
  <2>3. co' \in Coordinators /\ co'.ref = co.ref
    BY <1>0, <2>2 DEF Coordinators
  <2>4. CoOK(co', mon')
    BY <1>0, <1>13, <2>3 DEF CancelCall, CoOK
  <2>5. DevOK(dev')
    BY <1>13, ReachesType DEF CancelCall
  <2>6. spent' \in [{"commands", "cancels", "crashes"} -> Nat]
    BY <1>s, <1>13 DEF CancelCall
  <2> QED
    BY <1>0, <1>13, <2>1, <2>4, <2>5, <2>6 DEF CancelCall, WateringInv
<1> QED
  BY <1>1, <1>2, <1>3, <1>4, <1>5, <1>6, <1>7, <1>8, <1>9, <1>10, <1>11, <1>12, <1>13 DEF CallStep

\* What a monitor's loop does to its own place and to the coordinator.
LEMMA LoopMoves ==
  ASSUME CoOK(co, mon), NEW m \in Runs, NEW c \in Coordinators, c.ref = co.ref,
         Loop(m, c) \/ Finish(m, c) \/ (Die(m, c) /\ mon[m] # "ended")
  PROVE  CoOK(co', mon') /\ (co'.active => co' = c)
<1>1. CASE Finish(m, c)
  <2>1. co' \in Coordinators /\ co'.ref = co.ref /\ ~co'.active
    BY <1>1, ClearedType DEF Finish
  <2> QED
    BY <1>1, <2>1, MonitorMoves DEF Finish, MonitorPcs
<1>2. CASE co' = c /\ mon' = [mon EXCEPT ![m] = "sleep"]
  BY <1>2, MonitorMoves DEF MonitorPcs
<1>3. CASE Die(m, c)
  <2> DEFINE ref == IF co.ref = m THEN None ELSE co.ref
  <2>1. co' = [Cleared(c) EXCEPT !.ref = ref]
    BY <1>3, ClearedType DEF Die
  <2>2. /\ Cleared(c) \in Coordinators /\ ~Cleared(c).active
        /\ ref \in Runs \cup {None} /\ ref \in {co.ref, None} /\ ref # m
    BY ClearedType, WateringAssumption DEF CoOK, Coordinators, Runs
  <2> HIDE DEF ref
  <2>3. co' \in Coordinators /\ co'.ref = ref /\ ~co'.active
    BY <2>1, <2>2 DEF Coordinators
  <2> QED
    BY <1>3, <2>2, <2>3, MonitorMoves DEF Die, MonitorPcs
<1> QED
  BY <1>1, <1>2, <1>3 DEF Loop

\* A monitor's step keeps the types, and leaves the coordinator active only
\* where it was, or where it looked at a status.
LEMMA MonitorStepType ==
  ASSUME WateringInv, NEW m \in Runs, MonitorStep(m)
  PROVE  /\ WateringInv'
         /\ co'.active => co' = co \/ co'.watering
<1> USE DEF MonitorSide
<1> DEFINE after == Applied(co, Status)
<1>0. /\ CoOK(co, mon) /\ co \in Coordinators /\ act \in Activities
      /\ after \in Coordinators /\ after.ref = co.ref /\ (after.active => after.watering)
  BY AppliedType DEF WateringInv, CoOK
<1>1. ASSUME act' \in Activities, CoOK(co', mon'), UNCHANGED MonitorSide PROVE WateringInv'
  BY <1>1 DEF WateringInv
<1> HIDE DEF after
<1>2. CASE MonitorStarts(m)
  <2>1. CASE Finish(m, co)
    BY <1>0, <1>1, <1>2, <2>1, LoopMoves DEF MonitorStarts
  <2>2. CASE mon' = [mon EXCEPT ![m] = "sleep"] /\ co' = co
    BY <1>0, <1>1, <1>2, <2>2, MonitorMoves DEF MonitorStarts, MonitorPcs
  <2> QED
    BY <1>2, <2>1, <2>2 DEF MonitorStarts
<1>3. CASE MonitorLooks(m)
  <2>1. act' \in Activities /\ UNCHANGED MonitorSide
    BY <1>3, ObserveType DEF MonitorLooks, Observe
  <2>2. CASE co' = after /\ mon' = [mon EXCEPT ![m] = "publish"]
    BY <1>0, <1>1, <2>1, <2>2, MonitorMoves DEF MonitorPcs
  <2>3. CASE Finish(m, after)
    BY <1>0, <1>1, <2>1, <2>3, LoopMoves
  <2> QED
    BY <1>3, <2>2, <2>3 DEF MonitorLooks, after
<1>4. CASE MonitorMisses(m)
  BY <1>0, <1>1, <1>4, LoopMoves DEF MonitorMisses
<1>5. CASE MonitorPublishes(m)
  <2>1. act' \in Activities /\ UNCHANGED MonitorSide
    BY <1>5, ObserveType DEF MonitorPublishes, Observe
  <2>2. Loop(m, after)
    BY <1>5 DEF MonitorPublishes, after
  <2> QED
    BY <1>0, <1>1, <2>1, <2>2, LoopMoves
<1>6. CASE MonitorEnds(m)
  <2> DEFINE ref == IF co.ref = m THEN None ELSE co.ref
  <2>1. act' \in Activities /\ UNCHANGED MonitorSide
    BY <1>6, ObserveType DEF MonitorEnds, Observe
  <2>2. co' = [after EXCEPT !.ref = ref] /\ mon' = [mon EXCEPT ![m] = "ended"]
    BY <1>0, <1>6 DEF MonitorEnds, after
  <2>3. ref \in Runs \cup {None} /\ ref \in {co.ref, None} /\ ref # m
    BY <1>0, WateringAssumption DEF Coordinators, Runs
  <2> HIDE DEF ref
  <2>4. co' \in Coordinators /\ co'.ref = ref /\ (co'.active => co'.watering)
    BY <1>0, <2>2, <2>3 DEF Coordinators
  <2> QED
    BY <1>0, <1>1, <2>1, <2>2, <2>3, <2>4, MonitorMoves DEF MonitorPcs
<1>7. CASE MonitorDies(m)
  BY <1>0, <1>1, <1>7, LoopMoves DEF MonitorDies
<1> QED
  BY <1>2, <1>3, <1>4, <1>5, <1>6, <1>7 DEF MonitorStep

\* The other steps keep the types.
LEMMA OtherStepType ==
  ASSUME WateringInv,
         \/ StartedElsewhere \/ NextStation \/ RunEnds
         \/ Poll \/ DelayedSave \/ Unload \/ Restart
  PROVE  WateringInv'
<1>0. /\ DevOK(dev) /\ act \in Activities /\ file \in Intents \cup {None}
      /\ CoOK(co, mon) /\ co \in Coordinators
  BY DEF WateringInv, CoOK
<1>1. ASSUME DevOK(dev'), UNCHANGED <<act, file, co, call, mon, loaded, spent>>
      PROVE  WateringInv'
  BY <1>1 DEF WateringInv
<1>2. CASE StartedElsewhere
  <2>1. dev.run < MaxRuns
    BY <1>2 DEF StartedElsewhere
  <2>2. \E s \in Stations \cup {None}, p \in Programs \cup {None}, cause \in Causes :
          dev' = Begun(s, p, cause)
    BY <1>2 DEF StartedElsewhere, Causes
  <2>3. DevOK(dev')
    BY <1>0, <2>1, <2>2, BegunType
  <2> QED
    BY <1>1, <1>2, <2>3 DEF StartedElsewhere
<1>3. CASE NextStation
  <2>1. DevOK(dev')
    BY <1>0, <1>3 DEF NextStation, DevOK, Devices, Running, Watering
  <2> QED
    BY <1>1, <1>3, <2>1 DEF NextStation
<1>4. CASE RunEnds
  <2>1. DevOK(dev')
    BY <1>0, <1>4, NoRunType DEF RunEnds, DevOK, Devices
  <2> QED
    BY <1>1, <1>4, <2>1 DEF RunEnds
<1>5. CASE Poll
  <2>1. act' \in Activities
    BY <1>5, ObserveType DEF Poll, Fetch, Observe
  <2>2. CoOK(co', mon')
    BY <1>0, <1>5, AppliedType DEF Poll, Fetch, CoOK
  <2> QED
    BY <1>5, <2>1, <2>2 DEF Poll, WateringInv
<1>6. CASE DelayedSave
  BY <1>0, <1>6 DEF DelayedSave, WateringInv, Activities
<1>7. CASE Unload
  <2>1. act' \in Activities /\ file' \in Intents \cup {None}
    BY <1>0, <1>7 DEF Unload, Activities
  <2>2. co' \in Coordinators /\ co'.ref = None
    BY <1>0, <1>7, ClearedType DEF Unload, Coordinators
  <2>3. CoOK(co', mon')
    BY <1>0, <1>7, <2>2, MonitorCancelled DEF Unload
  <2> QED
    BY <1>7, <2>1, <2>3 DEF Unload, WateringInv
<1>8. CASE Restart
  <2>1. act' \in Activities
    BY <1>0, <1>8, FreshType DEF Restart
  <2>2. CoOK(co', mon')
    BY <1>8 DEF Restart, CoOK, NewCoordinator, Coordinators, MonitorPcs
  <2>3. call' \in [Callers -> Calls] /\ \A v \in Callers : CallOK(call'[v])
    BY <1>8, IdleCall DEF Restart, CallOK
  <2>4. spent' \in [{"commands", "cancels", "crashes"} -> Nat]
    BY <1>8 DEF Restart, Spend, WateringInv
  <2> QED
    BY <1>8, <2>1, <2>2, <2>3, <2>4 DEF Restart, WateringInv
<1> QED
  BY <1>2, <1>3, <1>4, <1>5, <1>6, <1>7, <1>8

LEMMA WateringNext == WateringInv /\ [Next]_vars => WateringInv'
<1> SUFFICES ASSUME WateringInv, [Next]_vars PROVE WateringInv'
  OBVIOUS
<1>1. CASE UNCHANGED vars
  BY <1>1 DEF vars, WateringInv
<1>2. CASE Next
  BY <1>2, CallStepType, MonitorStepType, OtherStepType DEF Next
<1> QED
  BY <1>1, <1>2

LEMMA WateringHolds == Spec => []WateringInv
BY WateringInit, WateringNext, PTL DEF Spec

\* Under every interleaving of commands, cancellations, monitors, polls, runs
\* from elsewhere and restarts the variables keep their types, and the
\* coordinator's reference is to a monitor that has not ended.
THEOREM WateringTypes == Spec => []WateringTypeOK
BY WateringHolds, InvTyped, PTL

-----------------------------------------------------------------------------
(* A refusal is justified.                                                 *)

\* A start of a station that waits for its status.
AwaitsStatus(c) == c.pc = "status" /\ c.op = "station"

LEMMA RefusalInit == Init => RefusalIsJustified
BY DEF Init, NewCoordinator, RefusalIsJustified

\* Nothing that a refusal may rest on is taken away.
LEMMA RefusalKept ==
  ASSUME RefusalIsJustified,
         co'.active => co.active,
         co.watering => co'.watering, co.torn => co'.torn,
         \A u \in Callers : AwaitsStatus(call[u]) => AwaitsStatus(call'[u]) \/ co'.torn
  PROVE  RefusalIsJustified'
BY DEF RefusalIsJustified, AwaitsStatus

LEMMA RefusalNext == WateringInv /\ RefusalIsJustified /\ [Next]_vars => RefusalIsJustified'
<1> SUFFICES ASSUME WateringInv, RefusalIsJustified, [Next]_vars PROVE RefusalIsJustified'
  OBVIOUS
<1>0. /\ co \in Coordinators /\ DevOK(dev) /\ call \in [Callers -> Calls]
      /\ \A u \in Callers : call[u] \in Calls
      /\ Applied(co, Status) \in Coordinators
      /\ Applied(co, Status).active => Applied(co, Status).watering
  BY AppliedType DEF WateringInv, CoOK
<1>1. ASSUME co'.active => co'.watering PROVE RefusalIsJustified'
  BY <1>1 DEF RefusalIsJustified
<1>2. ASSUME co' = co, call' = call PROVE RefusalIsJustified'
  BY <1>2 DEF RefusalIsJustified
<1>3. ASSUME co' = co, NEW u \in Callers, ~AwaitsStatus(call[u]),
             \A v \in Callers \ {u} : call'[v] = call[v]
      PROVE  RefusalIsJustified'
  BY <1>3, RefusalKept
<1>4. ASSUME NEW u \in Callers, PressStart(u) \/ PressOther(u) PROVE RefusalIsJustified'
  <2>1. /\ co' = co /\ ~AwaitsStatus(call[u])
        /\ \A v \in Callers \ {u} : call'[v] = call[v]
    BY <1>0, <1>4 DEF PressStart, PressOther, AwaitsStatus
  <2> QED
    BY <1>3, <2>1
<1>5. ASSUME NEW u \in Callers, Return(u) \/ \E pc : Goto(u, pc)
      PROVE  \A v \in Callers \ {u} : call'[v] = call[v]
  BY <1>0, <1>5 DEF Return, Goto
<1>6. ASSUME NEW u \in Callers, Journaled(u) \/ JournalFails(u) \/ SwitchSent(u)
      PROVE  RefusalIsJustified'
  <2>1. co' = co /\ ~AwaitsStatus(call[u]) /\ (Return(u) \/ \E pc : Goto(u, pc))
    BY <1>6 DEF Journaled, JournalFails, SwitchSent, AwaitsStatus
  <2> QED
    BY <1>3, <1>5, <2>1
<1>7. ASSUME NEW u \in Callers, StartSent(u) PROVE RefusalIsJustified'
  <2> DEFINE c == [call[u] EXCEPT !.pc = "status", !.run = dev'.run]
  <2>1. call' = [call EXCEPT ![u] = c]
    BY <1>0, <1>7 DEF StartSent, Calls
  <2>2. c.pc = "status" /\ c.op = call[u].op
    BY <1>0 DEF Calls
  <2> HIDE DEF c
  <2>3. call'[u] = c /\ \A v \in Callers \ {u} : call'[v] = call[v]
    BY <1>0, <2>1
  <2>4. CASE call[u].op = "station"
    BY <2>2, <2>3, <2>4 DEF RefusalIsJustified
  <2>5. CASE call[u].op # "station"
    <3>1. co' = co /\ ~AwaitsStatus(call[u])
      BY <1>7, <2>5 DEF StartSent, AwaitsStatus
    <3> QED
      BY <1>3, <2>3, <3>1
  <2> QED
    BY <2>4, <2>5
<1>8. ASSUME NEW u \in Callers, StopSent(u) \/ Stopped(u) PROVE RefusalIsJustified'
  <2>1. ~co'.active
    <3>1. Cleared(co) \in Coordinators /\ ~Cleared(co).active
      BY <1>0, ClearedType
    <3>2. CASE co' = Cleared(co)
      BY <3>1, <3>2
    <3>3. CASE co' = [Cleared(co) EXCEPT !.stopEvent = TRUE, !.ref = None]
      BY <3>1, <3>3 DEF Coordinators
    <3> QED
      BY <1>8, <3>2, <3>3 DEF StopSent, Stopped
  <2> QED
    BY <1>1, <2>1
<1>9. ASSUME NEW u \in Callers, Fails(u) PROVE RefusalIsJustified'
  <2>1. CASE call[u].op = "station"
    BY <1>0, <1>1, <1>9, <2>1, ClearedType DEF Fails
  <2>2. CASE call[u].op # "station"
    BY <1>3, <1>5, <1>9, <2>2 DEF Fails, AwaitsStatus
  <2> QED
    BY <2>1, <2>2
<1>10. ASSUME NEW u \in Callers, StationStarted(u) PROVE RefusalIsJustified'
  <2> DEFINE after == Applied(co, Status)
  <2>1. after \in Coordinators /\ (after.active => after.watering)
    BY <1>0
  <2>2. IF after.watering THEN co' = [after EXCEPT !.ref = call[u].run]
                          ELSE co' = Cleared(after)
    BY <1>10 DEF StationStarted
  <2> HIDE DEF after
  <2>3. co'.active => co'.watering
    BY <2>1, <2>2, ClearedType DEF Coordinators
  <2> QED
    BY <1>1, <2>3
<1>11. ASSUME co' = Applied(co, Status) PROVE RefusalIsJustified'
  BY <1>0, <1>1, <1>11
<1>12. ASSUME NEW u \in Callers, ProgramStarted(u) \/ Switched(u) PROVE RefusalIsJustified'
  BY <1>11, <1>12 DEF ProgramStarted, Switched, Fetch
<1>13. ASSUME NEW u \in Callers, CancelCall(u) PROVE RefusalIsJustified'
  <2> DEFINE torn == co.torn \/ (call[u].pc = "status" /\ call[u].op = "station")
  <2>1. co' = [co EXCEPT !.torn = torn]
    BY <1>0, <1>13 DEF CancelCall, Coordinators
  <2> HIDE DEF torn
  <2>2. co'.active = co.active /\ co'.watering = co.watering /\ co'.torn = torn
    BY <1>0, <2>1 DEF Coordinators
  <2>3. \A v \in Callers \ {u} : call'[v] = call[v]
    BY <1>5, <1>13 DEF CancelCall
  <2>4. (co.torn => torn) /\ (AwaitsStatus(call[u]) => torn)
    BY DEF torn, AwaitsStatus
  <2> QED
    BY <2>2, <2>3, <2>4, RefusalKept
<1>14. ASSUME NEW m \in Runs, MonitorStep(m) PROVE RefusalIsJustified'
  <2>1. call' = call
    BY <1>14 DEF MonitorStep, MonitorStarts, MonitorLooks, MonitorMisses, MonitorPublishes,
       MonitorEnds, MonitorDies, MonitorSide
  <2>2. co'.active => co' = co \/ co'.watering
    BY <1>14, MonitorStepType
  <2> QED
    BY <1>1, <1>2, <2>1, <2>2 DEF RefusalIsJustified
<1>15. CASE StartedElsewhere \/ NextStation \/ RunEnds \/ DelayedSave \/ UNCHANGED vars
  BY <1>2, <1>15 DEF StartedElsewhere, NextStation, RunEnds, DelayedSave, vars
<1>16. CASE Poll
  BY <1>11, <1>16 DEF Poll, Fetch
<1>17. CASE Unload \/ Restart
  <2>1. ~co'.active
    <3>1. Cleared(co) \in Coordinators /\ ~Cleared(co).active
      BY <1>0, ClearedType
    <3>2. CASE co' = NewCoordinator
      BY <3>2 DEF NewCoordinator
    <3>3. CASE co' = [Cleared(co) EXCEPT !.stopEvent = TRUE, !.ref = None]
      BY <3>1, <3>3 DEF Coordinators
    <3> QED
      BY <1>17, <3>2, <3>3 DEF Unload, Restart
  <2> QED
    BY <1>1, <2>1
<1> QED
  BY <1>4, <1>6, <1>7, <1>8, <1>9, <1>10, <1>12, <1>13, <1>14, <1>15, <1>16, <1>17
     DEF Next, CallStep

\* "Irrigation is already in progress" is told for a reason, whatever commands,
\* cancellations, dying monitors and failed statuses come in between.
THEOREM RefusalJustified == Spec => []RefusalIsJustified
BY WateringInit, WateringNext, RefusalInit, RefusalNext, PTL DEF Spec

-----------------------------------------------------------------------------
(* Who started it. With two commands at once the history can be wrong (see *)
(* the run watering_blame); AttributionInv is inductive when no status is  *)
(* looked at between the journal of a start and its command, and no intent *)
(* expires between two statuses that count as continuous.                  *)

\* An intent that no status has been compared with since it was journaled.
Awaited(a) == a.pending # None /\ ~a.pending.seen

\* The record is of the run d or of one that the code cannot tell it from.
Recorded(a, d) == a.wasActive /\ a.current # None /\ a.current.program = d.program

\* A run of Home Assistant's own has an awaited intent until a status shows it,
\* unless the history knows nothing yet; from then on there is a record of it.
\* If no intent was displaced the awaited one fits the run, and the record tells
\* nobody else.
Followed(a, d) ==
  /\ Awaited(a) \/ ~a.observed \/ Recorded(a, d)
  /\ a.displaced \/ \/ ~a.observed
                    \/ Awaited(a) /\ Matches(a.pending, d)
                    \/ Recorded(a, d) /\ a.current.source \notin External

\* A record last written for a run of Home Assistant's own tells nobody else.
NotBlamed(a) ==
  ~a.displaced /\ a.current # None /\ a.current.cause = "ha" =>
    a.current.source \notin External

\* A start that is journaled and yet to be sent has an awaited intent: its own,
\* if it was not displaced.
Sends(c) == Starts(c) /\ c.pc \in {"journal", "send"}

OwnIntent(a, c) == a.pending.station = c.station /\ a.pending.program = c.program

AttributionInv ==
  /\ \A u \in Callers : Sends(call[u]) => /\ Awaited(act)
                                          /\ act.displaced \/ OwnIntent(act, call[u])
  /\ loaded => /\ Running(dev) /\ dev.cause = "ha" => Followed(act, dev)
               /\ NotBlamed(act)

\* A program that goes on is followed as before.
LEMMA SameRunFollowed ==
  ASSUME NEW a, NEW d, NEW e, SameRun(d, e), Followed(a, e)
  PROVE  Followed(a, d)
BY DEF SameRun, Followed, Recorded, Matches

\* A run that was asked for is followed by its intent.
LEMMA AskedForFollowed ==
  ASSUME NEW a, NEW c, CallOK(c), NEW d, AskedFor(c, d), Awaited(a),
         a.displaced \/ OwnIntent(a, c)
  PROVE  Followed(a, d)
<1>1. CASE a.displaced
  BY <1>1 DEF Followed
<1>2. CASE OwnIntent(a, c)
  <2>1. Matches(a.pending, d)
    BY <1>2 DEF AskedFor, OwnIntent, Matches, CallOK, Starts
  <2> QED
    BY <2>1 DEF Followed
<1> QED
  BY <1>1, <1>2

\* observe() blames nobody for a run of Home Assistant's own.
LEMMA ObserveBlamesNobody ==
  ASSUME ~LongPolls, NEW a \in Activities, NEW s \in Statuses, NEW x \in Observed(a, s),
         Running(s) /\ s.cause = "ha" => Followed(a, s)
  PROVE  /\ NotBlamed(x)
         /\ Running(s) /\ s.cause = "ha" => Followed(x, s)
<1>1. PICK continuous \in BOOLEAN, expired \in BOOLEAN, source \in {HA, UNKNOWN} \cup External :
        /\ continuous => a.observed
        /\ expired /\ continuous => LongPolls \/ (a.pending # None /\ a.pending.seen)
        /\ source \in Sources(a, s, continuous, expired)
        /\ x = Taken(a, s, continuous, expired, source)
  BY ObservedFields
<1> DEFINE goesOn == GoesOn(a, s, continuous, expired)
           said == IF goesOn THEN a.current.source ELSE source
           new == [source |-> said, program |-> s.program, cause |-> s.cause]
           displaced == a.displaced /\ goesOn
<1>2. /\ x.current = IF ~Running(s) THEN None ELSE new
      /\ x.wasActive <=> Running(s)
      /\ x.displaced <=> displaced
  BY <1>1 DEF Taken
<1>3. new \in Records /\ new # None
  <2>1. said \in {HA, UNKNOWN} \cup External
    BY DEF GoesOn, Records, Activities
  <2> HIDE DEF said
  <2>2. new \in Records
    BY <2>1 DEF Records, Statuses
  <2> QED
    BY <2>2, ActivityAssumption
<1>4. new.source = said /\ new.program = s.program /\ new.cause = s.cause
  OBVIOUS
<1>0. {HA, UNKNOWN} \cap External = {}
  BY DEF HA, UNKNOWN, External, SCHEDULE, BLUETOOTH
<1>5. ASSUME Running(s), s.cause = "ha", ~goesOn PROVE source \notin External
  <2>1. CASE Consumes(a, s, expired)
    BY <1>0, <1>1, <2>1 DEF Sources
  <2>2. CASE ~Consumes(a, s, expired) /\ Awaited(a)
    <3>1. a.pending \in Intents
      BY <2>2 DEF Awaited, Activities
    <3>2. CASE expired
      BY <1>0, <1>1, <2>2, <3>2 DEF Sources, Awaited
    <3>3. CASE ~expired
      <4>1. Kept(a, s, expired) = [a.pending EXCEPT !.seen = TRUE]
        BY <1>5, <2>2, <3>3 DEF Kept, Awaited
      <4>2. [a.pending EXCEPT !.seen = TRUE] \in Intents
        BY <3>1 DEF Intents
      <4>3. Kept(a, s, expired) # None
        BY <4>1, <4>2, ActivityAssumption
      <4> QED
        BY <1>0, <1>1, <2>2, <4>3 DEF Sources
    <3> QED
      BY <3>2, <3>3
  <2>3. CASE ~Consumes(a, s, expired) /\ ~Awaited(a)
    <3>1. CASE Kept(a, s, expired) # None \/ (~continuous /\ a.pending # None)
      BY <1>0, <1>1, <2>3, <3>1 DEF Sources
    <3>2. CASE ~(Kept(a, s, expired) # None \/ (~continuous /\ a.pending # None))
      <4>1. source \in Inferred(a, s, continuous)
        BY <1>1, <2>3, <3>2 DEF Sources
      <4>2. CASE ~a.observed
        BY <1>0, <4>1, <4>2 DEF Inferred
      <4>3. CASE a.observed
        <5>1. Recorded(a, s)
          BY <1>5, <2>3, <4>3 DEF Followed
        <5>2. ~continuous
          BY <1>5, <2>3, <5>1 DEF GoesOn, Recorded
        <5> QED
          BY <1>0, <4>1, <4>3, <5>1, <5>2 DEF Inferred, Recorded
      <4> QED
        BY <4>2, <4>3
    <3> QED
      BY <3>1, <3>2
  <2> QED
    BY <2>1, <2>2, <2>3
<1>6. ASSUME Running(s), s.cause = "ha", goesOn, ~a.displaced
      PROVE  a.current.source \notin External
  <2>1. a.observed /\ continuous /\ ~Consumes(a, s, expired)
    BY <1>1, <1>6 DEF GoesOn
  <2>2. ~(Awaited(a) /\ Matches(a.pending, s))
    BY <1>1, <1>6, <2>1 DEF Awaited, Consumes
  <2> QED
    BY <1>6, <2>1, <2>2 DEF Followed
<1>7. ASSUME Running(s), s.cause = "ha", ~displaced PROVE said \notin External
  BY <1>5, <1>6, <1>7
<1> HIDE DEF new, said, displaced
<1>8. NotBlamed(x)
  BY <1>2, <1>4, <1>7 DEF NotBlamed
<1>9. ASSUME Running(s), s.cause = "ha" PROVE Followed(x, s)
  <2>1. Recorded(x, s) /\ x.current = new
    BY <1>2, <1>3, <1>4, <1>9 DEF Recorded
  <2> QED
    BY <1>2, <1>4, <1>7, <1>9, <2>1 DEF Followed
<1> QED
  BY <1>8, <1>9

LEMMA AttributionInit == Init => AttributionInv
BY IdleCall, FreshType DEF Init, AttributionInv, Sends, Running, Watering, NotBlamed, Fresh

\* A status that is looked at when no start is on its way to the controller.
LEMMA AttributionObserved ==
  ASSUME Undisturbed, ~LongPolls, WateringInv, AttributionInv, MayObserve,
         NEW a \in Observed(act, Status), act' = a \/ act' = Confirmed(a),
         dev' = dev, loaded' = loaded,
         \A u \in Callers : Sends(call'[u]) => Sends(call[u])
  PROVE  AttributionInv'
<1>0. /\ act \in Activities /\ DevOK(dev) /\ Status \in Statuses
      /\ Running(Status) <=> Running(dev)
      /\ Running(dev) => /\ Status.program = dev.program /\ Status.cause = dev.cause
                         /\ SameRun(Status, dev) /\ SameRun(dev, Status)
  BY StatusType DEF WateringInv, SameRun
<1>1. \A u \in Callers : ~Sends(call'[u])
  BY DEF MayObserve, Sends
<1>2. ASSUME loaded
      PROVE  NotBlamed(a) /\ (Running(dev) /\ dev.cause = "ha" => Followed(a, dev))
  <2>1. Running(Status) /\ Status.cause = "ha" => Followed(act, Status)
    BY <1>0, <1>2, SameRunFollowed DEF AttributionInv
  <2>2. NotBlamed(a) /\ (Running(Status) /\ Status.cause = "ha" => Followed(a, Status))
    BY <1>0, <2>1, ObserveBlamesNobody
  <2> QED
    BY <1>0, <2>2, SameRunFollowed
<1>3. /\ a \in Activities /\ act'.current = a.current /\ act'.wasActive = a.wasActive
      /\ act'.displaced = a.displaced /\ act'.observed = a.observed
      /\ Awaited(act') <=> Awaited(a)
      /\ Awaited(a) => \A d : Matches(act'.pending, d) <=> Matches(a.pending, d)
  BY <1>0, ObservedType, ConfirmedType DEF Awaited, Matches
<1>4. ASSUME loaded
      PROVE  NotBlamed(act') /\ (Running(dev) /\ dev.cause = "ha" => Followed(act', dev))
  BY <1>2, <1>3, <1>4 DEF NotBlamed, Recorded, Followed
<1> QED
  BY <1>1, <1>4 DEF AttributionInv

\* A step that looks at no status, and sends at most what was journaled.
LEMMA AttributionBlind ==
  ASSUME AttributionInv, act' = act, loaded' = loaded,
         Running(dev') /\ dev'.cause = "ha" => Followed(act, dev') \/ SameRun(dev', dev),
         \A u \in Callers : Sends(call'[u]) =>
                              /\ Sends(call[u]) /\ call'[u].station = call[u].station
                              /\ call'[u].program = call[u].program
  PROVE  AttributionInv'
<1>1. ASSUME loaded, Running(dev'), dev'.cause = "ha" PROVE Followed(act, dev')
  BY <1>1, SameRunFollowed DEF AttributionInv, SameRun
<1> QED
  BY <1>1 DEF AttributionInv, OwnIntent

LEMMA AttributionNext ==
  ASSUME Undisturbed, ~LongPolls
  PROVE  WateringInv /\ AttributionInv /\ [Next]_vars => AttributionInv'
<1> SUFFICES ASSUME WateringInv, AttributionInv, [Next]_vars PROVE AttributionInv'
  OBVIOUS
<1>0. /\ DevOK(dev) /\ act \in Activities /\ file \in Intents \cup {None}
      /\ call \in [Callers -> Calls] /\ \A u \in Callers : CallOK(call[u]) /\ call[u] \in Calls
  BY DEF WateringInv
<1> DEFINE NoneSends == \A v \in Callers : Sends(call'[v]) =>
                          /\ Sends(call[v]) /\ call'[v].station = call[v].station
                          /\ call'[v].program = call[v].program
<1>1. ASSUME NEW u \in Callers, Return(u) PROVE NoneSends
  BY <1>0, <1>1, IdleCall DEF Return, Sends
<1>2. ASSUME NEW u \in Callers, NEW pc, Goto(u, pc), pc = "send" => call[u].pc = "journal",
             pc # "journal"
      PROVE  NoneSends
  <2> DEFINE c == [call[u] EXCEPT !.pc = pc]
  <2>1. call' = [call EXCEPT ![u] = c]
    BY <1>2 DEF Goto
  <2>2. /\ c.pc = pc /\ c.op = call[u].op
        /\ c.station = call[u].station /\ c.program = call[u].program
    BY <1>0 DEF Calls
  <2> HIDE DEF c
  <2>3. call'[u] = c /\ \A v \in Callers \ {u} : call'[v] = call[v]
    BY <1>0, <2>1
  <2>4. Sends(call'[u]) => Sends(call[u])
    BY <1>2, <2>2, <2>3 DEF Starts, Sends
  <2> QED
    BY <2>2, <2>3, <2>4
<1>3. ASSUME NEW u \in Callers, UNCHANGED dev \/ (call[u].pc = "send" /\ Reaches(u))
      PROVE  Running(dev') => Followed(act, dev') \/ SameRun(dev', dev)
  <2>1. CASE call[u].pc = "send" /\ AskedFor(call[u], dev')
    <3>1. Sends(call[u])
      BY <2>1 DEF AskedFor, Sends
    <3> QED
      BY <1>0, <2>1, <3>1, AskedForFollowed DEF AttributionInv
  <2> QED
    BY <1>3, <2>1, ReachesType
<1>4. ASSUME NEW u \in Callers, PressStart(u) PROVE AttributionInv'
  <2>1. PICK x \in {[station |-> s, program |-> None] : s \in Stations}
                   \cup {[station |-> None, program |-> p] : p \in Programs} :
          /\ act' = Journaling(act, Intent(x.station, x.program))
          /\ call' = [call EXCEPT ![u] =
               [pc |-> "journal", op |-> IF x.program = None THEN "station" ELSE "program",
                station |-> x.station, program |-> x.program, run |-> None]]
    BY <1>4 DEF PressStart
  <2> DEFINE i == Intent(x.station, x.program)
  <2>2. /\ i \in Intents /\ ~i.seen
        /\ i.station = x.station /\ i.program = x.program
    BY DEF Intent, Intents
  <2>3. act' = Journaling(act, i)
    BY <2>1
  <2>4. i # None
    BY <2>2, ActivityAssumption
  <2>5. /\ call'[u].station = x.station /\ call'[u].program = x.program
        /\ \A v \in Callers \ {u} : call'[v] = call[v]
    BY <1>0, <2>1
  <2> HIDE DEF i
  <2>6. /\ act'.pending = i /\ act'.current = act.current
        /\ act'.observed = act.observed /\ act'.wasActive = act.wasActive
        /\ act'.displaced <=> (act.displaced \/ Displaces(i, act.pending))
    BY <1>0, <2>2, <2>3, JournalingType
  <2>7. Awaited(act')
    BY <2>2, <2>4, <2>6 DEF Awaited
  <2>8. ASSUME ~act'.displaced, Awaited(act)
        PROVE  i.station = act.pending.station /\ i.program = act.pending.program
    BY <2>6, <2>8 DEF Displaces, Awaited
  <2>9. ASSUME NEW v \in Callers, Sends(call'[v]), ~act'.displaced
        PROVE  OwnIntent(act', call'[v])
    <3>1. CASE v = u
      BY <2>2, <2>5, <2>6, <3>1 DEF OwnIntent
    <3>2. CASE v # u
      BY <2>5, <2>6, <2>8, <2>9, <3>2 DEF AttributionInv, OwnIntent
    <3> QED
      BY <3>1, <3>2
  <2>10. ASSUME loaded, Running(dev), dev.cause = "ha" PROVE Followed(act', dev)
    <3>1. Followed(act, dev)
      BY <2>10 DEF AttributionInv
    <3>2. CASE act'.displaced
      BY <2>7, <3>2 DEF Followed
    <3>3. CASE ~act'.displaced
      <4>1. Awaited(act) /\ Matches(act.pending, dev) => Matches(i, dev)
        BY <2>8, <3>3 DEF Matches
      <4> QED
        BY <2>6, <2>7, <3>1, <3>3, <4>1 DEF Followed, Recorded
    <3> QED
      BY <3>2, <3>3
  <2>11. loaded => NotBlamed(act')
    BY <2>6 DEF AttributionInv, NotBlamed
  <2>12. dev' = dev /\ loaded' = loaded
    BY <1>4 DEF PressStart
  <2> QED
    BY <2>7, <2>9, <2>10, <2>11, <2>12 DEF AttributionInv
<1>12. ASSUME UNCHANGED <<dev, act, loaded>>, NoneSends PROVE AttributionInv'
  BY <1>12, AttributionBlind DEF SameRun
<1>5. ASSUME NEW u \in Callers, PressOther(u) PROVE AttributionInv'
  <2>1. PICK op \in {"stop", "on", "off"} :
          call' = [call EXCEPT ![u] = [Idle EXCEPT !.pc = "send", !.op = op]]
    BY <1>5 DEF PressOther
  <2>2. ~Starts([Idle EXCEPT !.pc = "send", !.op = op])
    BY DEF Idle, Starts
  <2>3. NoneSends
    BY <1>0, <2>1, <2>2 DEF Sends
  <2>4. act' = act /\ loaded' = loaded /\ dev' = dev
    BY <1>5 DEF PressOther
  <2> QED
    BY <1>12, <2>3, <2>4
<1>6. ASSUME NEW u \in Callers, Journaled(u) \/ JournalFails(u) \/ Stopped(u) PROVE AttributionInv'
  <2>1. NoneSends
    BY <1>1, <1>2, <1>6 DEF Journaled, JournalFails, Stopped
  <2> QED
    BY <1>6, <1>12, <2>1 DEF Journaled, JournalFails, Stopped
<1>7. ASSUME NEW u \in Callers, StartSent(u) PROVE AttributionInv'
  <2> DEFINE c == [call[u] EXCEPT !.pc = "status", !.run = dev'.run]
  <2>1. call' = [call EXCEPT ![u] = c]
    BY <1>0, <1>7 DEF StartSent, Calls
  <2>2. c.pc = "status"
    BY <1>0 DEF Calls
  <2> HIDE DEF c
  <2>3. NoneSends
    BY <1>0, <2>1, <2>2 DEF Sends
  <2>4. Running(dev') => Followed(act, dev') \/ SameRun(dev', dev)
    BY <1>3, <1>7 DEF StartSent
  <2>5. act' = act /\ loaded' = loaded
    BY <1>7 DEF StartSent
  <2> QED
    BY <2>3, <2>4, <2>5, AttributionBlind
<1>8. ASSUME NEW u \in Callers, SwitchSent(u) \/ StopSent(u) \/ Fails(u) \/ CancelCall(u)
      PROVE  AttributionInv'
  <2>1. NoneSends
    BY <1>1, <1>2, <1>8 DEF SwitchSent, StopSent, Fails, CancelCall
  <2>2. UNCHANGED dev \/ (call[u].pc = "send" /\ Reaches(u))
    BY <1>8 DEF SwitchSent, StopSent, Fails, CancelCall
  <2>3. act' = act /\ loaded' = loaded
    BY <1>8 DEF SwitchSent, StopSent, Fails, CancelCall
  <2> QED
    BY <1>3, <2>1, <2>2, <2>3, AttributionBlind
<1>9. ASSUME MayObserve, \E a \in Observed(act, Status) : act' = a \/ act' = Confirmed(a),
             dev' = dev, loaded' = loaded, NoneSends
      PROVE  AttributionInv'
  BY <1>9, AttributionObserved
<1>10. ASSUME NEW u \in Callers, StationStarted(u) \/ ProgramStarted(u) \/ Switched(u)
       PROVE  AttributionInv'
  <2>1. Return(u) /\ MayObserve /\ dev' = dev /\ loaded' = loaded
    BY <1>10 DEF StationStarted, ProgramStarted, Switched, Fetch, Observe
  <2>2. \E a \in Observed(act, Status) : act' = a \/ act' = Confirmed(a)
    BY <1>10 DEF StationStarted, ProgramStarted, Switched, Fetch, Observe
  <2> QED
    BY <1>1, <1>9, <2>1, <2>2
<1>11. ASSUME Observe, UNCHANGED <<dev, call, loaded>> PROVE AttributionInv'
  BY <1>9, <1>11 DEF Observe
<1>13. ASSUME NEW m \in Runs, MonitorStep(m) PROVE AttributionInv'
  <2>1. UNCHANGED <<dev, call, loaded>> /\ (act' = act \/ Observe)
    BY <1>13 DEF MonitorStep, MonitorStarts, MonitorLooks, MonitorMisses, MonitorPublishes,
       MonitorEnds, MonitorDies, MonitorSide
  <2> QED
    BY <1>11, <1>12, <2>1
<1>14. CASE Poll
  BY <1>11, <1>14 DEF Poll, Fetch
<1>15. CASE DelayedSave \/ UNCHANGED vars
  BY <1>12, <1>15 DEF DelayedSave, vars
<1>16. ASSUME Running(dev') /\ dev'.cause = "ha" => SameRun(dev', dev),
              UNCHANGED <<act, call, loaded>>
       PROVE  AttributionInv'
  BY <1>16, AttributionBlind
<1>17. CASE StartedElsewhere
  <2>1. dev'.cause # "ha"
    BY <1>17 DEF StartedElsewhere, Begun
  <2> QED
    BY <1>16, <1>17, <2>1 DEF StartedElsewhere
<1>18. CASE NextStation
  <2>1. SameRun(dev', dev)
    BY <1>0, <1>18 DEF NextStation, DevOK, Devices, SameRun, Running
  <2> QED
    BY <1>16, <1>18, <2>1 DEF NextStation
<1>19. CASE RunEnds
  <2>1. ~Running(dev')
    BY <1>0, <1>19, NoRunType DEF RunEnds, DevOK, Devices
  <2> QED
    BY <1>16, <1>19, <2>1 DEF RunEnds
<1>20. CASE Unload
  <2>1. act'.pending = act.pending /\ act'.displaced = act.displaced
    BY <1>0, <1>20 DEF Unload, Activities
  <2> QED
    BY <1>20, <2>1 DEF Unload, AttributionInv, Awaited, OwnIntent
<1>21. CASE Restart
  <2>1. \A v \in Callers : ~Starts(call'[v])
    BY <1>21, IdleCall DEF Restart
  <2>2. ~act'.observed /\ act'.current = None
    BY <1>21 DEF Restart, LoadedActivity, Fresh
  <2> QED
    BY <2>1, <2>2 DEF AttributionInv, Sends, NotBlamed, Followed
<1> QED
  BY <1>4, <1>5, <1>6, <1>7, <1>8, <1>10, <1>13, <1>14, <1>15, <1>17, <1>18, <1>19, <1>20, <1>21
     DEF Next, CallStep

\* activity.py, "Failed/cancelled commands stay uncertain, never attributed
\* externally": as long as no status is looked at while a start is journaled and
\* yet to be sent, and the poll interval lets no intent expire between two
\* statuses that count as continuous, a run that a command of Home Assistant
\* started, acknowledged or not, is never recorded as started by the phone or
\* the schedule, however commands overlap, fail or are cancelled.
THEOREM OwnRunNotBlamed ==
  ASSUME Undisturbed, ~LongPolls
  PROVE  Spec => []OwnRunNotExternal
<1>1. AttributionInv => OwnRunNotExternal
  BY DEF AttributionInv, NotBlamed, OwnRunNotExternal
<1>2. WateringInv /\ AttributionInv /\ [Next]_vars => AttributionInv'
  BY AttributionNext
<1> QED
  BY <1>1, <1>2, WateringInit, WateringNext, AttributionInit, PTL DEF Spec

=============================================================================
