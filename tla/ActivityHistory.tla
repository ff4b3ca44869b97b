--------------------------- MODULE ActivityHistory ---------------------------
(***************************************************************************)
(* WateringActivity (activity.py): who started the run that a status of    *)
(* the controller shows.  A command journals its intent before it is sent; *)
(* observe() pairs the intent with the first status that fits it.          *)
(*                                                                         *)
(* Time is what the code asks of it: whether the last status is recent     *)
(* enough to have seen everything (continuous) and whether the intent is   *)
(* older than its 300 seconds (expired).                                   *)
(***************************************************************************)
EXTENDS Naturals, FiniteSets

CONSTANTS
  Stations, Programs,
  None,
  LongPolls   \* the poll interval lets an intent expire between two statuses
              \*   that still count as continuous (more than 135 seconds)

HA        == "Manual Home Assistant"
SCHEDULE  == "Scheduled"
BLUETOOTH == "Manual Bluetooth"
UNKNOWN   == "Unknown"
External  == {SCHEDULE, BLUETOOTH}

\* What set the controller watering; the code does not know it.
Causes == {"ha", "phone", "schedule", "none"}

\* A program in an inter-station delay is shown without a station; a station
\* without a program is shown with a manual origin.
Statuses == [station : Stations \cup {None}, program : Programs \cup {None},
             cause : Causes]

Watering(s) == s.station # None
Running(s)  == Watering(s) \/ s.program # None
Manual(s)   == Watering(s) /\ s.program = None

\* seen: a status has been observed since the intent was journaled.
Intents == [station : Stations \cup {None}, program : Programs \cup {None},
            confirmed : BOOLEAN, seen : BOOLEAN]

\* cause is history: what started the run that the record was last written for.
Records == [source : {HA, UNKNOWN} \cup External, program : Programs \cup {None},
            cause : Causes]

\* pending, current, last_seen is not None, last_active.  displaced is history:
\* an intent that no status had been compared with was replaced by another one
\* while what is recorded went on.
Activities == [pending : Intents \cup {None}, current : Records \cup {None},
               observed : BOOLEAN, wasActive : BOOLEAN, displaced : BOOLEAN]

ASSUME ActivityAssumption ==
  /\ None \notin Stations \cup Programs \cup Intents \cup Records
  /\ LongPolls \in BOOLEAN

Fresh(pending) == [pending |-> pending, current |-> None,
                   observed |-> FALSE, wasActive |-> FALSE, displaced |-> FALSE]

-----------------------------------------------------------------------------
Intent(station, program) == [station |-> station, program |-> program,
                             confirmed |-> FALSE, seen |-> FALSE]

\* The intent replaces another one that is still to be compared with a status.
Displaces(intent, earlier) ==
  /\ earlier # None /\ ~earlier.seen
  /\ intent.station # earlier.station \/ intent.program # earlier.program

\* command() before the command.
Journaling(a, intent) ==
  [a EXCEPT !.pending = intent, !.displaced = @ \/ Displaces(intent, a.pending)]

\* The status shows the run the intent asked for.
Matches(intent, s) == IF intent.program # None
                        THEN intent.program = s.program
                        ELSE s.program = None /\ intent.station = s.station

\* The intent the status consumes, and the one it leaves pending.
Consumes(a, s, expired) == /\ a.pending # None /\ Running(s) /\ ~expired
                           /\ Matches(a.pending, s)

Kept(a, s, expired) ==
  IF a.pending = None \/ ~Running(s) \/ expired \/ Consumes(a, s, expired)
    THEN None ELSE [a.pending EXCEPT !.seen = TRUE]

\* _classify without an intent: the programs, the clock and the revision the
\* schedule is compared with may allow each answer.
Inferred(a, s, continuous) ==
  IF ~a.observed                    THEN {UNKNOWN}
  ELSE IF s.program = None          THEN {IF continuous THEN BLUETOOTH ELSE UNKNOWN}
  ELSE IF continuous                THEN {UNKNOWN, SCHEDULE, BLUETOOTH}
  ELSE IF a.wasActive               THEN {UNKNOWN}
                                    ELSE {UNKNOWN, SCHEDULE}

\* Mutated: an intent that was neither matched nor observed is forgotten.
SourcesForgetIntent(a, s, continuous, expired) ==
  IF Consumes(a, s, expired)
    THEN {IF a.pending.confirmed \/ Manual(s) THEN HA ELSE UNKNOWN}
    ELSE Inferred(a, s, continuous)

\* An unmatched recent attempt could have caused this run too.
Sources(a, s, continuous, expired) ==
  IF Consumes(a, s, expired)
    THEN {IF a.pending.confirmed \/ Manual(s) THEN HA ELSE UNKNOWN}
  ELSE IF Kept(a, s, expired) # None \/ (~continuous /\ a.pending # None)
    THEN {UNKNOWN}
    ELSE Inferred(a, s, continuous)

\* The status is taken to show the run being recorded.
GoesOn(a, s, continuous, expired) ==
  /\ a.current # None /\ continuous /\ Running(s)
  /\ ~Consumes(a, s, expired) /\ a.current.program = s.program

\* What observe() can make of a status.
Observed(a, s) ==
  {[pending   |-> Kept(a, s, t.expired),
    current   |-> IF ~Running(s) THEN None
                  ELSE [source  |-> IF GoesOn(a, s, t.continuous, t.expired)
                                      THEN a.current.source ELSE t.source,
                        program |-> s.program, cause |-> s.cause],
    observed  |-> TRUE,
    wasActive |-> Running(s),
    displaced |-> a.displaced /\ GoesOn(a, s, t.continuous, t.expired)] :
   t \in {u \in [continuous : BOOLEAN, expired : BOOLEAN,
                 source : {HA, UNKNOWN} \cup External] :
            /\ u.continuous => a.observed
            /\ u.expired /\ u.continuous => LongPolls \/ (a.pending # None /\ a.pending.seen)
            /\ u.source \in Sources(a, s, u.continuous, u.expired)}}

\* command() after the command: whatever intent is pending by now.
Confirmed(a) == IF a.pending = None THEN a
                                    ELSE [a EXCEPT !.pending.confirmed = TRUE]

\* load(): a restart cannot tell whether a run went on.
LoadedActivity(pending) ==
  Fresh(IF pending = None THEN None
                          ELSE [pending EXCEPT !.confirmed = FALSE, !.seen = FALSE])
=============================================================================
