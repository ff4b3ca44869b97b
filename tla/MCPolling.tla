------------------------------ MODULE MCPolling ------------------------------
(***************************************************************************)
(* What a status poll sets off, for TLC: the setting of the clock, the     *)
(* long reads, and the account of how the link does. They meet in nothing  *)
(* but the poll and the outcomes noted, so that an instance is about one   *)
(* of them.                                                                *)
(***************************************************************************)
EXTENDS BleHealth

CONSTANTS MaxRuns, MaxCalls


VARIABLES about,
          gate, timer, known, task, lock, active, runs, calls,
          poll, pending, seen, cooling, fresh, degraded, alarm, watering,
          waterings, owed

Heavy == INSTANCE HeavyReads
Clock == INSTANCE ClockSync WITH runs <- waterings

ASSUME PollingAssumption ==
    /\ {MaxRuns, MaxCalls} \subseteq Nat
    /\ None \notin Heavy!Tasks

heavyVars == <<gate, timer, known, task, lock, active, runs, calls>>
clockVars == <<poll, pending, seen, cooling, fresh, degraded, alarm, watering,
               waterings, owed>>

mcVars == <<vars, about, heavyVars, clockVars>>

MCInit ==
    /\ about \in {"health", "reads", "clock"}
    /\ Init /\ Heavy!Init /\ Clock!Init
    /\ about # "clock" => ~alarm

MCNext ==
    \/ about = "health" /\ Next /\ UNCHANGED <<about, heavyVars, clockVars>>
    \/ about = "reads" /\ Heavy!Next /\ UNCHANGED <<about, vars, clockVars>>
    \/ about = "clock" /\ Clock!Next /\ UNCHANGED <<about, vars, heavyVars>>

MCSpec ==
    /\ MCInit /\ [][MCNext]_mcVars
    /\ \/ about = "health" /\ Fairness
       \/ about = "reads" /\ Heavy!Fairness
       \/ about = "clock" /\ Clock!Fairness

\* The types of the parts; the lock is held by the task that reads.
PollingTypeOK == HealthTypeOK /\ Heavy!HeavyTypeOK /\ Clock!ClockTypeOK

\* The two liveness properties of the reads and of the clock, each of the
\* instances about it.
EverythingRead == about = "reads" => Heavy!EverythingIsRead
ClockIsSet == about = "clock" => Clock!ClockIsSet

=============================================================================
