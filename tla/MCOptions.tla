------------------------------ MODULE MCOptions ------------------------------
(***************************************************************************)
(* The editors of the options flow for TLC. One flow shows one of them     *)
(* (async_step_init), so that an instance is about the station names, or   *)
(* the programs, or the next starts the sensors show of more programs than *)
(* an editor is tried on.                                                  *)
(***************************************************************************)
EXTENDS StationNames

CONSTANTS A, B,
          Times, MonthDay, Stored, PhoneEdits, Presets, Forms, End,
          MaxSubmits, Horizon

VARIABLES menu, now, program, cached, snap, active, editor, phone, submits

\* With the theorems about it, which StationNamesProofs takes over to the flow.
Editor == INSTANCE ProgramEditorProofs WITH ctl <- program, flow <- editor

ASSUME OptionsAssumption ==
    MaxSubmits \in Nat /\ Editor!EditorConstants /\ Editor!CalendarHolds

editorVars == <<now, program, cached, snap, active, editor, phone, submits>>

mcVars == <<vars, menu, editorVars>>

\* Two outputs, of which the configuration knows one.
MCStart == <<A, Blank>>

Prog(cycle, week, period, synchro, starts) ==
    [cycle |-> cycle, week |-> week, period |-> period, synchro |-> synchro,
     starts |-> starts, waters |-> TRUE]

\* From the 30th of a month of 31 days on.
MCMonthDay == [d \in 0 .. 60 |-> IF d < 2 THEN 30 + d ELSE 1 + ((d - 2) % 31)]

\* The programs edited: an interval, and one that can never start.
MCEdited == {Prog("periodic", {}, 3, 2, {0}), Prog("custom", {}, 1, 0, {0})}

\* Those of which the next start is looked at, too: few and many days of the
\* week, every rule, intervals shorter and longer than the lookahead.
MCStored == MCEdited
    \cup {Prog("custom", week, 1, 0, s) : week \in {{0}, {1, 6}, 0 .. 6}, s \in {{0}, {0, 1}}}
    \cup {Prog(c, {}, 1, 0, s) : c \in {"even", "odd", "odd_31"}, s \in {{}, {0}, {1}}}
    \cup {Prog("periodic", {}, n, k, s) : n \in {1, 2, 16}, k \in {0, 1, 15}, s \in {{0}, {1}}}

MCPhoneEdits == {Prog("custom", {1}, 1, 0, {1})}

\* What the user may fill in, besides leaving the form as it is.
MCForms == {Prog("periodic", {}, 2, 0, {0})}

MCPresets == {<<>>, [cycle |-> "periodic", period |-> 3]}

-----------------------------------------------------------------------------

\* An editor is opened just before a midnight.
MCInit ==
    /\ menu \in {"names", "programs", "sensors"}
    /\ Init /\ Editor!Init
    /\ menu # "sensors" => now = Times - 1 /\ program \in MCEdited
    /\ menu = "names" => program.cycle = "periodic"

MCNext ==
    \/ menu = "names" /\ Next /\ UNCHANGED <<menu, editorVars>>
    \/ menu = "programs" /\ Editor!Next /\ UNCHANGED <<menu, vars>>
    \/ menu = "sensors" /\ (Editor!Tick \/ Editor!BackgroundRead) /\ UNCHANGED <<menu, vars>>

MCSpec ==
    /\ MCInit /\ [][MCNext]_mcVars
    /\ menu = "names" => Fairness

\* The types of both editors.
OptionsTypeOK == NamesTypeOK /\ Editor!EditorTypeOK

\* The promises of the program editor and of the next starts, and the liveness
\* of the names where the instance is about them.
SuccessIsAsShown == Editor!SuccessIsAsShown
NextStartIsTrue == menu # "names" => Editor!NextStartIsTrue
NamesRead == menu = "names" => NamesAreRead

=============================================================================
