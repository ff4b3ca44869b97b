------------------------------- MODULE Rainfall -------------------------------
(***************************************************************************)
(* The rainfall adjuster (rainfall.py): it discounts the water budgets of  *)
(* the selected programs from a confirmed baseline, or asks the controller *)
(* for a one-day delay, and keeps in Home Assistant's storage which budget *)
(* it expects to find.  The programs are also edited from the phone app.   *)
(*                                                                         *)
(* An adjustment holds its own lock, the heavy-read lock and the           *)
(* controller's transaction, so one runs at a time and no other task of    *)
(* Home Assistant comes between; each BLE operation connects anew, so the  *)
(* phone can.  An early return before the programs are read (no selection, *)
(* no fresh report, a pending restore, a controller that is off or         *)
(* watering) changes nothing and is no step.                               *)
(***************************************************************************)
EXTENDS Integers, FiniteSets

CONSTANTS
  Keys,          \* the controller's programs
  Selected,      \* the programs the user lets the adjuster manage
  Shapes,        \* what a program holds besides its budget
  Unscheduled,   \* the shape without a start or without a duration
  PhoneBudgets,  \* budgets the phone app sets, the initial baseline first
  Baseline,      \* the initial normal budget of every program
  Fractions,     \* discounts, in percent, that a report can call for
  DelayAllowed,  \* option whole_controller_delay
  None,
  MaxApplies, MaxEdits, MaxConfigs, MaxLosses, MaxCrashes  \* bounds

Budgets  == Nat \ {0}
Programs == [Keys -> [budget : Budgets, shape : Shapes]]
States   == [expected : [Selected -> Budgets \cup {None}], delay : BOOLEAN]

ASSUME RainAssumption ==
  /\ Selected \subseteq Keys /\ Unscheduled \in Shapes
  /\ Baseline \in PhoneBudgets /\ PhoneBudgets \subseteq Budgets
  /\ Fractions \subseteq 0..100
  /\ None \notin Nat \cup Keys \cup Programs
  /\ DelayAllowed \in BOOLEAN
  /\ {MaxApplies, MaxEdits, MaxConfigs, MaxLosses, MaxCrashes} \subseteq Nat

VARIABLES
  prog,     \* the controller's programs
  mode,     \* what a status says of the controller
  mem,      \* RainfallManager.state: expected_budgets, delay_episode
  file,     \* the same in the store's file
  options,  \* the entry's baselines and fingerprints
  task,     \* the adjustment under way
  foreign,  \* history, by program: an edit the adjuster did not expect, and
            \*   whether it fell where the adjuster no longer looks
  managed,  \* history, by program: every budget the adjuster has expected
  trampled, \* history: an edit in plain view was overwritten
  delays,   \* history: delays the controller received in this wet episode
  spent     \* how much of each bound is used up

vars == <<prog, mode, mem, file, options, task, foreign, managed, trampled, delays, spent>>

Modes == {"on", "watering", "temporary", "permanent"}

\* Python's round(n / 100): halves go to the even neighbour.
Rounded(n) ==
  LET q == n \div 100  r == n % 100
  IN  IF r > 50 \/ (r = 50 /\ q % 2 = 1) THEN q + 1 ELSE q

\* Mutated: a light baseline can be discounted to nothing.
DiscountedToZero(baseline, percent) == Rounded(baseline * percent)

\* The budget of a program under a discount.
Discounted(baseline, percent) ==
  IF Rounded(baseline * percent) < 1 THEN 1 ELSE Rounded(baseline * percent)

\* Where an adjustment is; from "next" to "reread" it works from a snapshot.
Planned == {"next", "journal", "preflight", "ready", "reread"}
Pcs     == Planned \cup {"idle", "read", "claim", "delay", "finish"}

TaskType == [pc : Pcs, percent : 0..100, snapshot : Programs \cup {None},
             todo : SUBSET Selected, key : Selected \cup {None}]

IdleTask == [pc |-> "idle", percent |-> 0, snapshot |-> None, todo |-> {}, key |-> None]

Init ==
  /\ \E unselected \in [Keys \ Selected -> Shapes], shape \in Shapes :
       prog = [k \in Keys |-> [budget |-> Baseline,
                               shape |-> IF k \in Selected THEN shape ELSE unselected[k]]]
  /\ options = [k \in Selected |-> [baseline |-> Baseline, shape |-> prog[k].shape]]
  /\ mode \in Modes
  /\ mem = [expected |-> [k \in Selected |-> None], delay |-> FALSE]
  /\ file = mem
  /\ task = IdleTask
  /\ foreign = [k \in Keys |-> "no"]
  /\ managed = [k \in Selected |-> {}]
  /\ trampled = FALSE
  /\ delays = 0
  /\ spent = [applies |-> 0, edits |-> 0, configs |-> 0, losses |-> 0, crashes |-> 0]

Spend(what, limit) == /\ spent[what] < limit
                      /\ spent' = [spent EXCEPT ![what] = @ + 1]

Goto(pc) == task' = [task EXCEPT !.pc = pc]
Leave    == task' = IdleTask

-----------------------------------------------------------------------------
(* Everybody else. *)

\* The phone app, or the schedule's end of a run, or the end of a delay.
ModeChanges ==
  /\ mode' \in Modes \ {mode}
  /\ UNCHANGED <<prog, mem, file, options, task, foreign, managed, trampled, delays, spent>>

\* A program somebody else left as p is one the adjuster must not touch.
Unexpected(k, p) ==
  /\ k \in Selected
  /\ \/ p.shape # options[k].shape
     \/ p.budget \notin {options[k].baseline} \cup managed[k]

\* An edit no check of this adjustment looks at: after the preflight of a write
\* and until the read that follows it, or back to what such a read has brought.
Unwatched(k, p) == \/ task.pc \in {"ready", "reread"}
                   \/ task.snapshot # None /\ p = task.snapshot[k]

\* A program is edited from the phone app.
PhoneEdits ==
  /\ Spend("edits", MaxEdits)
  /\ \E k \in Keys, b \in PhoneBudgets, s \in Shapes :
       LET p == [budget |-> b, shape |-> s]
       IN  /\ p # prog[k]
           /\ prog' = [prog EXCEPT ![k] = p]
           /\ foreign' = [foreign EXCEPT ![k] =
                IF ~ Unexpected(k, p) THEN "no"
                ELSE IF Unwatched(k, p) THEN "unseen" ELSE "seen"]
  /\ UNCHANGED <<mode, mem, file, options, task, managed, trampled, delays>>

\* The user confirms the baselines after a fresh read: each is the current
\* budget, or unchanged while the current budget is the expected discount.
\* The new options reload the entry.
Configure ==
  /\ task.pc = "idle"
  /\ Spend("configs", MaxConfigs)
  /\ \E b \in [Selected -> {options[k].baseline : k \in Selected}
                             \cup {prog[k].budget : k \in Selected}] :
       /\ \A k \in Selected :
            \/ prog[k].budget = b[k]
            \/ b[k] = options[k].baseline /\ prog[k].budget = mem.expected[k]
       /\ options' = [k \in Selected |-> [baseline |-> b[k], shape |-> prog[k].shape]]
  /\ mem' = file
  /\ foreign' = [k \in Keys |-> "no"]
  /\ UNCHANGED <<prog, mode, file, task, managed, trampled, delays>>

\* Home Assistant stops and starts again.
Restart ==
  /\ Spend("crashes", MaxCrashes)
  /\ mem' = file
  /\ Leave
  /\ UNCHANGED <<prog, mode, file, options, foreign, managed, trampled, delays>>

-----------------------------------------------------------------------------
(* The adjustment. *)

\* A fresh report, no pending restore, and a status that shows the
\* controller on and idle.  before_program passes the due programs only.
Begin ==
  /\ task.pc = "idle" /\ mode = "on"
  /\ Spend("applies", MaxApplies)
  /\ \E percent \in Fractions, keys \in SUBSET Selected \ {{}} :
       task' = [IdleTask EXCEPT !.pc = "read", !.percent = percent, !.todo = keys]
  /\ UNCHANGED <<prog, mode, mem, file, options, foreign, managed, trampled, delays>>

\* The fingerprint matches, and the budget is the baseline or the one expected.
Accepts(k) ==
  /\ prog[k].shape = options[k].shape
  /\ \/ prog[k].budget = options[k].baseline
     \/ prog[k].budget = mem.expected[k]

\* The delay would also pause a program the user has not selected.
PausesOthers == \E k \in Keys \ Selected : prog[k].shape # Unscheduled

\* The programs are read and checked; a discount to nothing becomes a delay.
ReadPrograms ==
  /\ task.pc = "read"
  /\ foreign' = [k \in Keys |-> IF foreign[k] = "unseen" THEN "seen" ELSE foreign[k]]
  /\ \/ /\ \/ \E k \in task.todo : ~ Accepts(k)
           \/ task.percent = 0 /\ (~ DelayAllowed \/ PausesOthers \/ mem.delay)
        /\ Leave
        /\ UNCHANGED mem
     \/ /\ \A k \in task.todo : Accepts(k)
        /\ task.percent # 0
        /\ task' = [task EXCEPT !.pc = "next", !.snapshot = prog]
        /\ UNCHANGED mem
     \/ /\ \A k \in task.todo : Accepts(k)
        /\ task.percent = 0 /\ DelayAllowed /\ ~ PausesOthers /\ ~ mem.delay
        /\ mem' = [mem EXCEPT !.delay = TRUE]
        /\ Goto("claim")
  /\ UNCHANGED <<prog, mode, file, options, managed, trampled, delays, spent>>

\* Any read of the controller may fail, and ends the adjustment.
ReadFails ==
  /\ task.pc \in {"read", "preflight", "reread"}
  /\ Spend("losses", MaxLosses)
  /\ Leave
  /\ UNCHANGED <<prog, mode, mem, file, options, foreign, managed, trampled, delays>>

Target(k) == Discounted(options[k].baseline, task.percent)
Differs(k) == task.snapshot[k].budget # Target(k)

\* The next program whose budget differs from its target.
NextProgram ==
  /\ task.pc = "next"
  /\ \E k \in task.todo :
       /\ Differs(k)
       /\ mem' = [mem EXCEPT !.expected[k] = Target(k)]
       /\ managed' = [managed EXCEPT ![k] = @ \cup {Target(k)}]
       /\ task' = [task EXCEPT !.pc = "journal", !.key = k, !.todo = @ \ {k}]
  /\ UNCHANGED <<prog, mode, file, options, foreign, trampled, delays, spent>>

\* Every program is at its target: the wet episode is over.
AllAdjusted ==
  /\ task.pc = "next" /\ \A k \in task.todo : ~ Differs(k)
  /\ mem' = [mem EXCEPT !.delay = FALSE]
  /\ delays' = 0
  /\ Goto("finish")
  /\ UNCHANGED <<prog, mode, file, options, foreign, managed, trampled, spent>>

\* Mutated: the state is written to the file when it suits the store.
SaveSkipsFile == UNCHANGED file

\* async_save: the whole state, before the adjustment goes on.
Save == file' = mem

SaveState ==
  /\ task.pc \in {"journal", "claim", "finish"}
  /\ Save
  /\ CASE task.pc = "journal" -> Goto("preflight")
       [] task.pc = "claim"   -> Goto("delay")
       [] task.pc = "finish"  -> Leave
  /\ UNCHANGED <<prog, mode, mem, options, foreign, managed, trampled, delays, spent>>

SaveFails ==
  /\ task.pc \in {"journal", "claim", "finish"}
  /\ Spend("losses", MaxLosses)
  /\ Leave
  /\ UNCHANGED <<prog, mode, mem, file, options, foreign, managed, trampled, delays>>

\* Mutated: the write does not name the revision it was planned on.
AnyRevision == TRUE

\* expected_revision: nothing has changed since the snapshot.
SameRevision == prog = task.snapshot

\* set_irrigation_program reads the controller once more before it writes.
Preflight ==
  /\ task.pc = "preflight"
  /\ IF SameRevision THEN Goto("ready") ELSE Leave
  /\ UNCHANGED <<prog, mode, mem, file, options, foreign, managed, trampled, delays, spent>>

\* The frames of one program, in order: the header with the budget comes
\* before the starts and durations.
WriteProgram ==
  /\ task.pc = "ready"
  /\ LET k    == task.key
         full == [task.snapshot[k] EXCEPT !.budget = mem.expected[k]]
     IN  /\ \/ /\ prog' = [prog EXCEPT ![k] = full]
               /\ Goto("reread")
               /\ UNCHANGED spent
            \/ /\ \E p \in {prog[k], [prog[k] EXCEPT !.budget = full.budget], full} :
                    prog' = [prog EXCEPT ![k] = p]
               /\ Spend("losses", MaxLosses)
               /\ Leave
         /\ trampled' = \/ trampled
                        \/ foreign[k] = "seen" /\ Unexpected(k, prog[k]) /\ prog' # prog
         /\ foreign' = [foreign EXCEPT ![k] = IF prog' # prog /\ prog'[k] = full
                                                THEN "no" ELSE @]
  /\ UNCHANGED <<mode, mem, file, options, managed, delays>>

\* The snapshot for the next program; it is not checked again.
Reread ==
  /\ task.pc = "reread"
  /\ task' = [task EXCEPT !.pc = "next", !.snapshot = prog, !.key = None]
  /\ UNCHANGED <<prog, mode, mem, file, options, foreign, managed, trampled, delays, spent>>

\* turn_off_x_days(1), sent again while its answer is lost; the status that
\* follows only reports.
SendDelay ==
  /\ task.pc = "delay"
  /\ Leave
  /\ \/ mode' = "temporary" /\ delays' = delays + 1 /\ UNCHANGED spent
     \/ Spend("losses", MaxLosses) /\ UNCHANGED <<mode, delays>>
  /\ UNCHANGED <<prog, mem, file, options, foreign, managed, trampled>>

Next == \/ ModeChanges \/ PhoneEdits \/ Configure \/ Restart
        \/ Begin \/ ReadPrograms \/ ReadFails \/ NextProgram \/ AllAdjusted
        \/ SaveState \/ SaveFails \/ Preflight \/ WriteProgram \/ Reread \/ SendDelay

Spec == Init /\ [][Next]_vars

-----------------------------------------------------------------------------
(* Properties. *)

\* Type invariant: the programs, the state in memory and in the file, the
\* options and the adjustment under way have the shapes the code gives
\* them, and no budget is ever zero.
RainTypeOK ==
  /\ prog \in Programs
  /\ mode \in Modes
  /\ mem \in States /\ file \in States
  /\ options \in [Selected -> [baseline : Budgets, shape : Shapes]]
  /\ task \in TaskType
  /\ task.pc \in Planned => task.snapshot # None
  /\ task.pc \in {"journal", "preflight", "ready"} =>
       task.key # None /\ mem.expected[task.key] # None
  /\ foreign \in [Keys -> {"no", "unseen", "seen"}]
  /\ managed \in [Selected -> SUBSET Budgets]
  /\ spent \in [applies : Nat, edits : Nat, configs : Nat, losses : Nat, crashes : Nat]

\* An edit from the phone to what the adjuster never expected is not
\* overwritten by an adjustment, unless it fell between the preflight of a
\* write and the read after it (rainfall.py checks fingerprint and budget once,
\* client_v2.py the revision).
PhoneEditsKept == ~ trampled

\* A wet episode is given one delay at most, across restarts and failures: the
\* episode is in the file before the command is sent (rainfall.py:267-269).
DelayedOnce == delays <= 1

\* A budget the adjuster changes in the controller lies between one and the
\* baseline, and the file already expects it: after a restart the adjuster
\* recognises its own write (rainfall.py:240-244).
OwnWritesExpected ==
  [][\A k \in Keys : prog'[k].budget # prog[k].budget =>
       \/ spent'.edits # spent.edits
       \/ /\ prog'[k].budget \in 1..options[k].baseline
          /\ file.expected[k] = prog'[k].budget]_vars

\* Why they hold.  What the adjuster expects it has managed; the budget on its
\* way is in range, and in the file once saved; an accepted program, as long as
\* it is what the snapshot shows, is none the adjuster must not touch; an
\* episode that was delayed is known in memory and in the file.
ExpectedManaged ==
  \A k \in Selected : {mem.expected[k], file.expected[k]} \subseteq managed[k] \cup {None}

BudgetUnderway ==
  /\ task.pc \in {"journal", "preflight", "ready"} =>
       mem.expected[task.key] \in 1..options[task.key].baseline
  /\ task.pc \in {"preflight", "ready"} =>
       file.expected[task.key] = mem.expected[task.key]

Harmless(k) == foreign[k] = "seen" => ~ Unexpected(k, prog[k])

AcceptedHarmless ==
  /\ task.pc \in Planned =>
       \A k \in task.todo :
         task.pc \in {"ready", "reread"} \/ prog[k] = task.snapshot[k] => Harmless(k)
  /\ task.pc \in {"journal", "preflight", "ready"} =>
       /\ task.key \notin task.todo
       /\ task.pc = "ready" \/ prog[task.key] = task.snapshot[task.key] => Harmless(task.key)

EpisodeKnown ==
  /\ delays \in 0..1
  /\ delays = 1 => mem.delay /\ file.delay
  /\ task.pc \in {"claim", "delay"} => delays = 0 /\ mem.delay
  /\ task.pc = "delay" => file.delay

RainInv == /\ RainTypeOK /\ PhoneEditsKept
           /\ ExpectedManaged /\ BudgetUnderway /\ AcceptedHarmless /\ EpisodeKnown

\* A refusal blames an edit "outside rainfall adjustment" (rainfall.py:226):
\* between adjustments a program nobody else has edited is one the adjuster
\* accepts.
RefusedOnlyIfEdited ==
  task.pc = "idle" => \A k \in Selected : foreign[k] = "no" => Accepts(k)
=============================================================================
