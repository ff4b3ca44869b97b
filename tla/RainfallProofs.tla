---------------------------- MODULE RainfallProofs ----------------------------
(***************************************************************************)
(* What the rainfall adjuster guarantees for any programs, shapes, budgets,*)
(* discounts and bounds: the four properties of Rainfall from the          *)
(* inductive invariant RainInv.                                            *)
(***************************************************************************)
EXTENDS Rainfall, TLAPS

USE RainAssumption

\* A discounted budget is at least one and at most the baseline.
LEMMA DiscountInRange ==
  ASSUME NEW b \in Budgets, NEW p \in 0..100
  PROVE  Discounted(b, p) \in 1..b
<1>1. b * p \in 0..(100 * b)
  BY DEF Budgets
<1>2. \A n \in 0..(100 * b) : Rounded(n) \in 0..b
  BY DEF Rounded, Budgets
<1>3. Rounded(b * p) \in 0..b
  BY <1>1, <1>2
<1> QED
  BY <1>3 DEF Discounted, Budgets

LEMMA DiscountIsBudget ==
  ASSUME NEW b \in Budgets, NEW p \in 0..100
  PROVE  Discounted(b, p) \in Budgets
<1>1. Discounted(b, p) \in 1..b
  BY DiscountInRange
<1> QED
  BY <1>1 DEF Budgets

\* What spending leaves of the bounds.
Spendable ==
  spent' \in [applies : Nat, edits : Nat, configs : Nat, losses : Nat, crashes : Nat]

LEMMA TypeInit == Init => RainTypeOK
<1> SUFFICES ASSUME Init PROVE RainTypeOK
  OBVIOUS
<1>1. prog \in Programs
  BY DEF Init, Programs
<1>2. options \in [Selected -> [baseline : Budgets, shape : Shapes]]
  BY <1>1 DEF Init, Programs
<1>3. mem \in States /\ file \in States
  BY DEF Init, States
<1>4. task = IdleTask /\ IdleTask \in TaskType
  BY DEF Init, IdleTask, TaskType, Pcs, Planned
<1> QED
  BY <1>1, <1>2, <1>3, <1>4 DEF Init, RainTypeOK, IdleTask, Planned

LEMMA TypeNext == RainTypeOK /\ [Next]_vars => RainTypeOK'
<1> SUFFICES ASSUME RainTypeOK, [Next]_vars PROVE RainTypeOK'
  OBVIOUS
<1> USE DEF RainTypeOK, TaskType, Pcs, Planned
<1>1. CASE ModeChanges
  BY <1>1 DEF ModeChanges
<1>2. CASE PhoneEdits
  <2>1. PICK k \in Keys, b \in PhoneBudgets, s \in Shapes :
          /\ prog' = [prog EXCEPT ![k] = [budget |-> b, shape |-> s]]
          /\ foreign' \in [Keys -> {"no", "unseen", "seen"}]
    BY <1>2 DEF PhoneEdits
  <2>2. prog' \in Programs
    BY <2>1 DEF Programs
  <2> QED
    BY <1>2, <2>1, <2>2 DEF PhoneEdits, Spend
<1>3. CASE Configure
  <2>1. options' \in [Selected -> [baseline : Budgets, shape : Shapes]]
    BY <1>3 DEF Configure, Programs
  <2> QED
    BY <1>3, <2>1 DEF Configure, Spend
<1>4. CASE Restart
  BY <1>4 DEF Restart, Leave, IdleTask, Spend
<1>5. CASE Begin
  <2>1. PICK percent \in Fractions, keys \in SUBSET Selected \ {{}} :
          task' = [IdleTask EXCEPT !.pc = "read", !.percent = percent, !.todo = keys]
    BY <1>5 DEF Begin
  <2>2. task' = [pc |-> "read", percent |-> percent, snapshot |-> None,
                 todo |-> keys, key |-> None]
    BY <2>1 DEF IdleTask
  <2> QED
    BY <1>5, <2>2 DEF Begin, Spend
<1>6. CASE ReadPrograms
  <2>1. mem' \in States
    BY <1>6 DEF ReadPrograms, States
  <2>2. foreign' \in [Keys -> {"no", "unseen", "seen"}]
    BY <1>6 DEF ReadPrograms
  <2> QED
    <3>1. \/ task' = IdleTask
          \/ task' = [task EXCEPT !.pc = "next", !.snapshot = prog]
          \/ task' = [task EXCEPT !.pc = "claim"]
      BY <1>6 DEF ReadPrograms, Leave, Goto
    <3>2. prog # None
      OBVIOUS
    <3>3. /\ task' \in TaskType
          /\ task'.pc \in {"idle", "next", "claim"}
          /\ task'.pc = "next" => task'.snapshot # None
      <4>1. CASE task' = IdleTask
        BY <4>1 DEF IdleTask
      <4>2. CASE task' = [task EXCEPT !.pc = "next", !.snapshot = prog]
        BY <3>2, <4>2
      <4>3. CASE task' = [task EXCEPT !.pc = "claim"]
        BY <4>3
      <4> QED
        BY <3>1, <4>1, <4>2, <4>3
    <3>4. UNCHANGED <<prog, mode, file, options, managed, spent>>
      BY <1>6 DEF ReadPrograms
    <3> QED
      BY <2>1, <2>2, <3>3, <3>4
<1>7. CASE ReadFails
  BY <1>7 DEF ReadFails, Leave, IdleTask, Spend
<1>8. CASE NextProgram
  <2>1. PICK k \in task.todo :
          /\ mem' = [mem EXCEPT !.expected[k] = Target(k)]
          /\ managed' = [managed EXCEPT ![k] = @ \cup {Target(k)}]
          /\ task' = [task EXCEPT !.pc = "journal", !.key = k, !.todo = @ \ {k}]
    BY <1>8 DEF NextProgram
  <2>2. Target(k) \in Budgets
    BY DiscountIsBudget DEF Target
  <2>3. mem' \in States /\ managed' \in [Selected -> SUBSET Budgets]
    BY <2>1, <2>2 DEF States
  <2> QED
    <3>1. k \in Selected /\ k # None /\ task.snapshot # None
      BY <1>8 DEF NextProgram
    <3>2. mem'.expected[k] # None
      BY <2>1, <2>2, <3>1 DEF States, Budgets
    <3>3. task'.pc = "journal" /\ task'.key = k /\ task'.snapshot = task.snapshot
      BY <2>1
    <3>4. task' \in TaskType
      BY <2>1, <3>1
    <3> QED
      BY <1>8, <2>3, <3>1, <3>2, <3>3, <3>4 DEF NextProgram
<1>9. CASE AllAdjusted
  BY <1>9 DEF AllAdjusted, Goto, States
<1>10. CASE SaveState
  <2>1. \/ task.pc = "journal" /\ task' = [task EXCEPT !.pc = "preflight"]
        \/ task.pc = "claim" /\ task' = [task EXCEPT !.pc = "delay"]
        \/ task.pc = "finish" /\ task' = IdleTask
    BY <1>10 DEF SaveState, Goto, Leave
  <2> QED
    BY <1>10, <2>1 DEF SaveState, Save, IdleTask
<1>11. CASE SaveFails
  BY <1>11 DEF SaveFails, Leave, IdleTask, Spend
<1>12. CASE Preflight
  BY <1>12 DEF Preflight, Goto, Leave, IdleTask
<1>13. CASE WriteProgram
  <2> DEFINE k    == task.key
             full == [task.snapshot[k] EXCEPT !.budget = mem.expected[k]]
  <2>1. k \in Selected /\ k \in Keys /\ task.snapshot \in Programs
    BY <1>13 DEF WriteProgram
  <2>2. PICK p \in {prog[k], [prog[k] EXCEPT !.budget = full.budget], full} :
          prog' = [prog EXCEPT ![k] = p]
    BY <1>13 DEF WriteProgram
  <2>3. full \in [budget : Budgets, shape : Shapes]
    BY <1>13, <2>1 DEF WriteProgram, Programs, States
  <2>4. prog' \in Programs
    BY <2>1, <2>2, <2>3 DEF Programs
  <2>5. foreign' \in [Keys -> {"no", "unseen", "seen"}]
    BY <1>13, <2>1 DEF WriteProgram
  <2>6. task' = [task EXCEPT !.pc = "reread"] \/ task' = IdleTask
    BY <1>13 DEF WriteProgram, Goto, Leave
  <2>7. UNCHANGED <<mode, mem, file, options, managed, delays>> /\ Spendable
    BY <1>13 DEF WriteProgram, Spend, Spendable
  <2> QED
    BY <2>1, <2>4, <2>5, <2>6, <2>7 DEF IdleTask, Spendable
<1>14. CASE Reread
  BY <1>14 DEF Reread, Programs
<1>15. CASE SendDelay
  BY <1>15 DEF SendDelay, Leave, IdleTask, Modes, Spend
<1>16. CASE UNCHANGED vars
  BY <1>16 DEF vars
<1> QED
  BY <1>1, <1>2, <1>3, <1>4, <1>5, <1>6, <1>7, <1>8, <1>9, <1>10, <1>11, <1>12,
     <1>13, <1>14, <1>15, <1>16 DEF Next
\* Where a step takes the adjustment.
LEMMA LeaveEnds == Leave => task'.pc = "idle"
BY DEF Leave, IdleTask

LEMMA GotoMoves ==
  ASSUME task \in TaskType, NEW pc \in Pcs, Goto(pc)
  PROVE  /\ task'.pc = pc
         /\ task'.key = task.key /\ task'.todo = task.todo /\ task'.snapshot = task.snapshot
BY DEF Goto, TaskType

LEMMA SaveMoves ==
  ASSUME RainTypeOK, SaveState
  PROVE  \/ task.pc = "journal" /\ Goto("preflight") /\ task'.pc = "preflight"
         \/ task.pc = "claim" /\ task'.pc = "delay"
         \/ task.pc = "finish" /\ task'.pc = "idle"
<1>1. \/ task.pc = "journal" /\ Goto("preflight")
      \/ task.pc = "claim" /\ Goto("delay")
      \/ task.pc = "finish" /\ Leave
  BY DEF SaveState
<1>2. "preflight" \in Pcs /\ "delay" \in Pcs
  BY DEF Pcs, Planned
<1> QED
  BY <1>1, <1>2, LeaveEnds, GotoMoves DEF RainTypeOK

LEMMA BeginMoves == Begin => task'.pc = "read"
<1> SUFFICES ASSUME Begin PROVE task'.pc = "read"
  OBVIOUS
<1>1. PICK percent \in Fractions, keys \in SUBSET Selected \ {{}} :
        task' = [IdleTask EXCEPT !.pc = "read", !.percent = percent, !.todo = keys]
  BY DEF Begin
<1> QED
  BY <1>1 DEF IdleTask

LEMMA ReadMoves ==
  ASSUME RainTypeOK, ReadPrograms
  PROVE  \/ task'.pc = "idle" /\ UNCHANGED mem
         \/ /\ \A k \in task.todo : Accepts(k)
            /\ task'.pc = "next" /\ task'.snapshot = prog /\ task'.todo = task.todo
            /\ UNCHANGED mem
         \/ /\ ~ mem.delay /\ mem'.delay /\ mem'.expected = mem.expected
            /\ task'.pc = "claim"
<1>1. CASE Leave /\ UNCHANGED mem
  BY <1>1, LeaveEnds
<1>2. CASE /\ \A k \in task.todo : Accepts(k)
           /\ task' = [task EXCEPT !.pc = "next", !.snapshot = prog]
           /\ UNCHANGED mem
  BY <1>2 DEF RainTypeOK, TaskType
<1>3. CASE ~ mem.delay /\ mem' = [mem EXCEPT !.delay = TRUE] /\ Goto("claim")
  <2>1. "claim" \in Pcs
    BY DEF Pcs
  <2>2. task'.pc = "claim"
    BY <1>3, <2>1, GotoMoves DEF RainTypeOK
  <2> QED
    BY <1>3, <2>2 DEF RainTypeOK, States
<1> QED
  BY <1>1, <1>2, <1>3 DEF ReadPrograms

\* The steps that leave a planned budget behind, or have none yet.
LEMMA OtherMoves ==
  ASSUME RainTypeOK,
         \/ ReadFails \/ AllAdjusted \/ SaveFails \/ Preflight \/ WriteProgram
         \/ Reread \/ SendDelay \/ Restart
  PROVE  \/ task'.pc \in {"idle", "finish", "next", "reread"}
         \/ task'.pc = "ready" /\ Preflight /\ Goto("ready")
<1>1. CASE ReadFails \/ SaveFails \/ SendDelay \/ Restart
  BY <1>1, LeaveEnds DEF ReadFails, SaveFails, SendDelay, Restart
<1>2. CASE AllAdjusted
  BY <1>2, GotoMoves DEF AllAdjusted, RainTypeOK, Pcs
<1>3. CASE Preflight
  BY <1>3, LeaveEnds, GotoMoves DEF Preflight, RainTypeOK, Pcs, Planned
<1>4. CASE WriteProgram
  BY <1>4, LeaveEnds, GotoMoves DEF WriteProgram, RainTypeOK, Pcs, Planned
<1>5. CASE Reread
  BY <1>5 DEF Reread, RainTypeOK, TaskType
<1> QED
  BY <1>1, <1>2, <1>3, <1>4, <1>5

-----------------------------------------------------------------------------
(* The invariant, conjunct by conjunct. *)

\* What the adjuster expects stays among what it has managed.
LEMMA ExpectedNext ==
  RainTypeOK /\ ExpectedManaged /\ [Next]_vars => ExpectedManaged'
<1> SUFFICES ASSUME RainTypeOK, ExpectedManaged, [Next]_vars PROVE ExpectedManaged'
  OBVIOUS
<1> USE DEF ExpectedManaged
<1>1. CASE NextProgram
  <2>1. PICK k \in task.todo :
          /\ mem' = [mem EXCEPT !.expected[k] = Target(k)]
          /\ managed' = [managed EXCEPT ![k] = @ \cup {Target(k)}]
          /\ UNCHANGED file
    BY <1>1 DEF NextProgram
  <2>2. k \in Selected
    BY DEF RainTypeOK, TaskType
  <2>3. \A x \in Selected : managed[x] \subseteq managed'[x]
    BY <2>1 DEF RainTypeOK
  <2>4. \A x \in Selected : mem'.expected[x] \in {mem.expected[x]} \cup managed'[x]
    BY <2>1, <2>2 DEF RainTypeOK, States
  <2> QED
    BY <2>1, <2>3, <2>4
<1>2. CASE ReadPrograms \/ AllAdjusted
  <2>1. mem'.expected = mem.expected /\ UNCHANGED <<file, managed>>
    BY <1>2 DEF ReadPrograms, AllAdjusted, RainTypeOK, States
  <2> QED
    BY <2>1
<1>3. CASE SaveState
  BY <1>3 DEF SaveState, Save
<1>4. CASE Configure \/ Restart
  BY <1>4 DEF Configure, Restart
<1>5. CASE UNCHANGED <<mem, file, managed>>
  BY <1>5
<1> QED
  BY <1>1, <1>2, <1>3, <1>4, <1>5 DEF Next, vars, ModeChanges, PhoneEdits, Begin,
     ReadFails, SaveFails, Preflight, WriteProgram, Reread, SendDelay

\* The budget on its way is in range, and in the file once it is saved.
LEMMA UnderwayNext ==
  RainTypeOK /\ BudgetUnderway /\ [Next]_vars => BudgetUnderway'
<1> SUFFICES ASSUME RainTypeOK, BudgetUnderway, [Next]_vars PROVE BudgetUnderway'
  OBVIOUS
<1> USE DEF BudgetUnderway
<1>1. CASE NextProgram
  <2>1. PICK k \in task.todo :
          /\ mem' = [mem EXCEPT !.expected[k] = Target(k)]
          /\ task' = [task EXCEPT !.pc = "journal", !.key = k, !.todo = @ \ {k}]
          /\ UNCHANGED options
    BY <1>1 DEF NextProgram
  <2>2. k \in Selected /\ Target(k) \in 1..options[k].baseline
    BY DiscountInRange DEF Target, RainTypeOK, TaskType
  <2>3. task'.pc = "journal" /\ task'.key = k
    BY <2>1 DEF RainTypeOK, TaskType
  <2>4. mem'.expected[k] = Target(k)
    BY <2>1, <2>2 DEF RainTypeOK, States
  <2> QED
    BY <2>1, <2>2, <2>3, <2>4
<1>2. CASE SaveState
  <2>1. CASE task.pc = "journal" /\ Goto("preflight") /\ task'.pc = "preflight"
    <3>1. task'.key = task.key
      BY <2>1, GotoMoves DEF RainTypeOK, Pcs, Planned
    <3> QED
      BY <1>2, <2>1, <3>1 DEF SaveState, Save
  <2>2. CASE task'.pc \in {"delay", "idle"}
    BY <2>2
  <2> QED
    BY <1>2, <2>1, <2>2, SaveMoves
<1>3. CASE Preflight /\ task'.pc = "ready" /\ Goto("ready")
  <2>1. task'.key = task.key
    BY <1>3, GotoMoves DEF RainTypeOK, Pcs, Planned
  <2> QED
    BY <1>3, <2>1 DEF Preflight
<1>4. CASE task'.pc \notin {"journal", "preflight", "ready"}
  BY <1>4
<1>5. CASE Configure
  BY <1>5 DEF Configure
<1>6. CASE UNCHANGED <<mem, file, options, task>>
  BY <1>6
<1> QED
  BY <1>1, <1>2, <1>3, <1>4, <1>5, <1>6, BeginMoves, ReadMoves, OtherMoves
     DEF Next, vars, ModeChanges, PhoneEdits

\* A delayed episode stays known.
LEMMA EpisodeNext ==
  RainTypeOK /\ EpisodeKnown /\ [Next]_vars => EpisodeKnown'
<1> SUFFICES ASSUME RainTypeOK, EpisodeKnown, [Next]_vars PROVE EpisodeKnown'
  OBVIOUS
<1> USE DEF EpisodeKnown
<1>1. CASE ReadPrograms
  <2>1. UNCHANGED <<file, delays>>
    BY <1>1 DEF ReadPrograms
  <2>2. CASE UNCHANGED mem /\ task'.pc \notin {"claim", "delay"}
    BY <2>1, <2>2
  <2>3. CASE ~ mem.delay /\ mem'.delay /\ task'.pc = "claim"
    BY <2>1, <2>3
  <2> QED
    BY <1>1, <2>2, <2>3, ReadMoves
<1>2. CASE NextProgram
  <2>1. mem'.delay = mem.delay /\ task'.pc = "journal"
    BY <1>2 DEF NextProgram, RainTypeOK, TaskType, States
  <2> QED
    BY <1>2, <2>1 DEF NextProgram
<1>3. CASE AllAdjusted
  <2>1. task'.pc \notin {"claim", "delay"}
    BY <1>3, OtherMoves
  <2> QED
    BY <1>3, <2>1 DEF AllAdjusted
<1>4. CASE SaveState
  <2>1. /\ task'.pc = "delay" => task.pc = "claim"
        /\ task'.pc # "claim"
    BY <1>4, SaveMoves
  <2> QED
    BY <1>4, <2>1 DEF SaveState, Save
<1>5. CASE Configure
  BY <1>5 DEF Configure
<1>6. CASE Restart
  <2>1. task'.pc = "idle"
    BY <1>6, LeaveEnds DEF Restart
  <2> QED
    BY <1>6, <2>1 DEF Restart
<1>7. CASE SendDelay
  <2>1. task'.pc = "idle"
    BY <1>7, LeaveEnds DEF SendDelay
  <2> QED
    BY <1>7, <2>1 DEF SendDelay
<1>8. CASE Begin \/ ReadFails \/ SaveFails \/ Preflight \/ WriteProgram \/ Reread
  <2>1. task'.pc \notin {"claim", "delay"}
    BY <1>8, BeginMoves, OtherMoves
  <2>2. UNCHANGED <<mem, file, delays>>
    BY <1>8 DEF Begin, ReadFails, SaveFails, Preflight, WriteProgram, Reread
  <2> QED
    BY <2>1, <2>2
<1>9. CASE UNCHANGED <<mem, file, task, delays>>
  BY <1>9
<1> QED
  BY <1>1, <1>2, <1>3, <1>4, <1>5, <1>6, <1>7, <1>8, <1>9
     DEF Next, vars, ModeChanges, PhoneEdits
\* A program the adjuster accepts is none it must not touch.
LEMMA AcceptedExpected ==
  ASSUME RainTypeOK, ExpectedManaged, NEW k \in Selected, Accepts(k)
  PROVE  ~ Unexpected(k, prog[k])
<1>1. prog[k].budget \in Budgets
  BY DEF RainTypeOK, Programs
<1>2. prog[k].budget # None
  BY <1>1 DEF Budgets
<1>3. prog[k].budget = mem.expected[k] => prog[k].budget \in managed[k]
  BY <1>2 DEF ExpectedManaged
<1> QED
  BY <1>3 DEF Accepts, Unexpected

\* Of the programs still to be written, those that are what the snapshot shows
\* stay harmless: an edit back to it is one that no check looks at.
LEMMA HarmlessNext ==
  RainTypeOK /\ ExpectedManaged /\ AcceptedHarmless /\ [Next]_vars => AcceptedHarmless'
<1> SUFFICES ASSUME RainTypeOK, ExpectedManaged, AcceptedHarmless, [Next]_vars
             PROVE  AcceptedHarmless'
  OBVIOUS
<1>1. task.todo \subseteq Selected /\ Selected \subseteq Keys
  BY DEF RainTypeOK, TaskType
<1>2. CASE PhoneEdits
  <2>1. PICK x \in Keys, p \in [budget : PhoneBudgets, shape : Shapes] :
          /\ prog' = [prog EXCEPT ![x] = p]
          /\ foreign' = [foreign EXCEPT ![x] =
               IF ~ Unexpected(x, p) THEN "no"
               ELSE IF Unwatched(x, p) THEN "unseen" ELSE "seen"]
    <3>1. PICK x \in Keys, b \in PhoneBudgets, s \in Shapes :
            /\ prog' = [prog EXCEPT ![x] = [budget |-> b, shape |-> s]]
            /\ foreign' = [foreign EXCEPT ![x] =
                 IF ~ Unexpected(x, [budget |-> b, shape |-> s]) THEN "no"
                 ELSE IF Unwatched(x, [budget |-> b, shape |-> s]) THEN "unseen" ELSE "seen"]
      BY <1>2 DEF PhoneEdits
    <3>2. [budget |-> b, shape |-> s] \in [budget : PhoneBudgets, shape : Shapes]
      OBVIOUS
    <3> QED
      BY <3>1, <3>2
  <2>2. UNCHANGED <<task, options, managed>>
    BY <1>2 DEF PhoneEdits
  <2>3. \A k \in Keys \ {x} : prog'[k] = prog[k] /\ foreign'[k] = foreign[k]
    BY <2>1 DEF RainTypeOK, Programs
  <2>4. prog'[x] = p /\ foreign'[x] = IF ~ Unexpected(x, p) THEN "no"
                                      ELSE IF Unwatched(x, p) THEN "unseen" ELSE "seen"
    BY <2>1 DEF RainTypeOK, Programs
  <2> DEFINE StaysHarmless(k) ==
        foreign'[k] = "seen" =>
          ~ /\ k \in Selected
            /\ \/ prog'[k].shape # options[k].shape
               \/ prog'[k].budget \notin {options[k].baseline} \cup managed[k]
  <2>5. \A k \in Keys \ {x} : Harmless(k) => StaysHarmless(k)
    BY <2>3 DEF Harmless, Unexpected
  <2>6. \A k \in Keys :
          k = x /\ task.pc \in Planned
          /\ (task.pc \in {"ready", "reread"} \/ prog'[k] = task.snapshot[k])
            => StaysHarmless(k)
    BY <2>4 DEF Unexpected, Unwatched, RainTypeOK
  <2> HIDE DEF StaysHarmless
  <2>7. ASSUME NEW k \in Keys, task.pc \in Planned,
               task.pc \in {"ready", "reread"} \/ prog'[k] = task.snapshot[k],
               task.pc \in {"ready", "reread"} \/ prog[k] = task.snapshot[k] => Harmless(k)
        PROVE  StaysHarmless(k)
    <3>1. CASE k = x
      BY <2>6, <2>7, <3>1
    <3>2. CASE k # x
      <4>1. prog'[k] = prog[k]
        BY <2>3, <3>2
      <4>2. Harmless(k)
        BY <2>7, <4>1
      <4> QED
        BY <2>5, <3>2, <4>2
    <3> QED
      BY <3>1, <3>2
  <2>8. task.pc \in Planned =>
          \A k \in task.todo :
            task.pc \in {"ready", "reread"} \/ prog'[k] = task.snapshot[k] => StaysHarmless(k)
    BY <1>1, <2>7 DEF AcceptedHarmless
  <2>9. ASSUME task.pc \in {"journal", "preflight", "ready"}
        PROVE  /\ task.key \notin task.todo
               /\ task.pc = "ready" \/ prog'[task.key] = task.snapshot[task.key]
                    => StaysHarmless(task.key)
    <3>1. /\ task.key \notin task.todo
          /\ task.pc = "ready" \/ prog[task.key] = task.snapshot[task.key]
               => Harmless(task.key)
      BY <2>9 DEF AcceptedHarmless
    <3>2. task.pc \in Planned /\ task.pc # "reread" /\ task.key \in Keys
      BY <1>1, <2>9 DEF Planned, RainTypeOK, TaskType
    <3> QED
      BY <2>7, <3>1, <3>2
  <2> USE DEF StaysHarmless
  <2> QED
    BY <2>2, <2>8, <2>9 DEF AcceptedHarmless, Harmless, Unexpected
<1>3. CASE ReadPrograms /\ task'.pc = "next" /\ task'.todo = task.todo
           /\ \A k \in task.todo : Accepts(k)
  <2>1. UNCHANGED <<prog, options, managed>>
    BY <1>3 DEF ReadPrograms
  <2>2. \A k \in task.todo : ~ Unexpected(k, prog[k])
    BY <1>1, <1>3, AcceptedExpected
  <2> QED
    BY <1>3, <2>1, <2>2 DEF AcceptedHarmless, Harmless, Unexpected
<1>4. CASE NextProgram
  <2>1. PICK k \in task.todo :
          /\ managed' = [managed EXCEPT ![k] = @ \cup {Target(k)}]
          /\ task' = [task EXCEPT !.pc = "journal", !.key = k, !.todo = @ \ {k}]
          /\ UNCHANGED <<prog, options, foreign>>
          /\ task.pc = "next"
    BY <1>4 DEF NextProgram
  <2>2. /\ task'.pc = "journal" /\ task'.key = k /\ task'.todo = task.todo \ {k}
        /\ task'.snapshot = task.snapshot
    BY <2>1 DEF RainTypeOK, TaskType
  <2>3. \A x \in Selected : managed[x] \subseteq managed'[x]
    BY <2>1 DEF RainTypeOK
  <2>4. \A x \in Selected : Harmless(x) => Harmless(x)'
    BY <2>1, <2>3 DEF Harmless, Unexpected
  <2>5. \A x \in task.todo : prog[x] = task.snapshot[x] => Harmless(x)
    BY <2>1 DEF AcceptedHarmless, Planned
  <2> QED
    BY <1>1, <2>1, <2>2, <2>4, <2>5 DEF AcceptedHarmless, Planned
<1>5. CASE SaveState
  <2>1. UNCHANGED <<prog, options, foreign, managed>>
    BY <1>5 DEF SaveState
  <2>2. \A x : Harmless(x)' <=> Harmless(x)
    BY <2>1 DEF Harmless, Unexpected
  <2>3. CASE task.pc = "journal" /\ Goto("preflight") /\ task'.pc = "preflight"
    <3>1. /\ task'.key = task.key /\ task'.todo = task.todo
          /\ task'.snapshot = task.snapshot
      BY <2>3, GotoMoves DEF RainTypeOK, Pcs, Planned
    <3> QED
      BY <2>1, <2>2, <2>3, <3>1 DEF AcceptedHarmless, Planned
  <2>4. CASE task'.pc \in {"delay", "idle"}
    BY <2>4 DEF AcceptedHarmless, Planned
  <2> QED
    BY <1>5, <2>3, <2>4, SaveMoves
<1>6. CASE Preflight /\ task'.pc = "ready" /\ Goto("ready")
  <2>1. /\ task'.key = task.key /\ task'.todo = task.todo
        /\ task'.snapshot = task.snapshot
    BY <1>6, GotoMoves DEF RainTypeOK, Pcs, Planned
  <2>2. task.pc = "preflight" /\ prog = task.snapshot
        /\ UNCHANGED <<prog, options, foreign, managed>>
    BY <1>6, LeaveEnds DEF Preflight, SameRevision
  <2>3. \A x : Harmless(x)' <=> Harmless(x)
    BY <2>2 DEF Harmless, Unexpected
  <2> QED
    BY <1>6, <2>1, <2>2, <2>3 DEF AcceptedHarmless, Planned
<1>7. CASE WriteProgram /\ task'.pc = "reread"
  <2>1. Goto("reread")
    BY <1>7, LeaveEnds DEF WriteProgram
  <2>2. /\ task.pc = "ready" /\ task'.todo = task.todo
        /\ UNCHANGED <<options, managed>>
    BY <1>7, <2>1, GotoMoves DEF WriteProgram, RainTypeOK, Pcs, Planned
  <2>3. \A x \in Keys \ {task.key} : prog'[x] = prog[x] /\ foreign'[x] = foreign[x]
    BY <1>7 DEF WriteProgram, RainTypeOK, Programs
  <2>4. \A x \in Keys \ {task.key} : Harmless(x) => Harmless(x)'
    BY <2>2, <2>3 DEF Harmless, Unexpected
  <2>5. task.key \notin task.todo /\ \A x \in task.todo : Harmless(x)
    BY <2>2 DEF AcceptedHarmless, Planned
  <2> QED
    BY <1>1, <1>7, <2>2, <2>4, <2>5 DEF AcceptedHarmless, Planned
<1>8. CASE Reread
  <2>1. /\ task.pc = "reread" /\ task'.pc = "next" /\ task'.todo = task.todo
        /\ UNCHANGED <<prog, options, foreign, managed>>
    BY <1>8 DEF Reread, RainTypeOK, TaskType
  <2>2. \A x : Harmless(x)' <=> Harmless(x)
    BY <2>1 DEF Harmless, Unexpected
  <2> QED
    BY <2>1, <2>2 DEF AcceptedHarmless, Planned
<1>9. CASE task'.pc \notin Planned
  BY <1>9 DEF AcceptedHarmless, Planned
<1>10. CASE AllAdjusted \/ ReadFails \/ SaveFails \/ SendDelay \/ Restart
  <2>1. task'.pc \in {"finish", "idle"}
    BY <1>10, LeaveEnds, GotoMoves DEF AllAdjusted, ReadFails, SaveFails, SendDelay,
       Restart, RainTypeOK, Pcs
  <2> QED
    BY <1>9, <2>1 DEF Planned
<1>11. CASE Begin \/ Configure
  <2>1. task'.pc \notin Planned
    BY <1>11, BeginMoves DEF Configure, Planned
  <2> QED
    BY <1>9, <2>1
<1>12. CASE UNCHANGED <<prog, options, task, foreign, managed>>
  <2>1. \A x : Harmless(x)' <=> Harmless(x)
    BY <1>12 DEF Harmless, Unexpected
  <2> QED
    BY <1>12, <2>1 DEF AcceptedHarmless
<1>13. CASE ReadPrograms
  BY <1>3, <1>9, <1>13, ReadMoves DEF Planned
<1>14. CASE Preflight
  <2>1. \/ Goto("ready") /\ task'.pc = "ready"
        \/ task'.pc = "idle"
    BY <1>14, LeaveEnds, GotoMoves DEF Preflight, RainTypeOK, Pcs, Planned
  <2> QED
    BY <1>6, <1>9, <1>14, <2>1 DEF Planned
<1>15. CASE WriteProgram
  <2>1. task'.pc \in {"reread", "idle"}
    BY <1>15, LeaveEnds, GotoMoves DEF WriteProgram, RainTypeOK, Pcs, Planned
  <2> QED
    BY <1>7, <1>9, <1>15, <2>1 DEF Planned
<1> QED
  BY <1>2, <1>4, <1>5, <1>8, <1>10, <1>11, <1>12, <1>13, <1>14, <1>15
     DEF Next, vars, ModeChanges

LEMMA KeptNext ==
  RainTypeOK /\ PhoneEditsKept /\ AcceptedHarmless /\ [Next]_vars => PhoneEditsKept'
<1> SUFFICES ASSUME RainTypeOK, PhoneEditsKept, AcceptedHarmless, [Next]_vars
             PROVE  PhoneEditsKept'
  OBVIOUS
<1>1. CASE WriteProgram
  <2>1. Harmless(task.key)
    BY <1>1 DEF WriteProgram, AcceptedHarmless
  <2> QED
    BY <1>1, <2>1 DEF WriteProgram, Harmless, PhoneEditsKept
<1>2. CASE UNCHANGED trampled
  BY <1>2 DEF PhoneEditsKept
<1> QED
  BY <1>1, <1>2 DEF Next, vars, ModeChanges, PhoneEdits, Configure, Restart, Begin,
     ReadPrograms, ReadFails, NextProgram, AllAdjusted, SaveState, SaveFails,
     Preflight, Reread, SendDelay

LEMMA RainInit == Init => RainInv
<1> SUFFICES ASSUME Init PROVE RainInv
  OBVIOUS
<1>1. ExpectedManaged
  BY DEF Init, ExpectedManaged
<1>2. task.pc = "idle" /\ delays = 0 /\ trampled = FALSE
  BY DEF Init, IdleTask
<1>3. BudgetUnderway /\ AcceptedHarmless /\ EpisodeKnown /\ PhoneEditsKept
  BY <1>2 DEF BudgetUnderway, AcceptedHarmless, EpisodeKnown, PhoneEditsKept, Planned
<1> QED
  BY <1>1, <1>3, TypeInit DEF RainInv

LEMMA RainNext == RainInv /\ [Next]_vars => RainInv'
BY TypeNext, ExpectedNext, UnderwayNext, EpisodeNext, HarmlessNext, KeptNext DEF RainInv

LEMMA RainHolds == Spec => []RainInv
<1>1. Init => RainInv
  BY RainInit
<1>2. RainInv /\ [Next]_vars => RainInv'
  BY RainNext
<1> QED
  BY <1>1, <1>2, PTL DEF Spec

-----------------------------------------------------------------------------
\* The adjuster's state, the programs and the options keep their types.
THEOREM RainTypes == Spec => []RainTypeOK
<1>1. RainInv => RainTypeOK
  BY DEF RainInv
<1> QED
  BY <1>1, RainHolds, PTL

\* No adjustment (rainfall.py _apply_locked) overwrites a phone edit that one
\* of its checks could have seen.
THEOREM EditsKept == Spec => []PhoneEditsKept
<1>1. RainInv => PhoneEditsKept
  BY DEF RainInv
<1> QED
  BY <1>1, RainHolds, PTL

\* A wet episode (rainfall.py _apply_skip) is given one delay at most.
THEOREM OneDelay == Spec => []DelayedOnce
<1>1. RainInv => DelayedOnce
  BY DEF RainInv, EpisodeKnown, DelayedOnce
<1> QED
  BY <1>1, RainHolds, PTL

\* A step that changes a budget is the phone's, or writes what the file expects.
LEMMA WritesStep ==
  ASSUME RainInv, [Next]_vars, NEW k \in Keys, prog'[k].budget # prog[k].budget
  PROVE  \/ spent'.edits # spent.edits
         \/ /\ prog'[k].budget \in 1..options[k].baseline
            /\ file.expected[k] = prog'[k].budget
<1> USE DEF RainInv
<1>1. CASE PhoneEdits
  <2>1. spent' = [spent EXCEPT !.edits = @ + 1]
    BY <1>1 DEF PhoneEdits, Spend
  <2> QED
    BY <2>1 DEF RainTypeOK
<1>2. CASE WriteProgram
  <2>1. task.pc = "ready" /\ task.key \in Keys
    BY <1>2 DEF WriteProgram, RainTypeOK, TaskType
  <2>2. PICK p \in {prog[task.key],
                    [prog[task.key] EXCEPT !.budget =
                       [task.snapshot[task.key] EXCEPT !.budget = mem.expected[task.key]].budget],
                    [task.snapshot[task.key] EXCEPT !.budget = mem.expected[task.key]]} :
          prog' = [prog EXCEPT ![task.key] = p]
    BY <1>2 DEF WriteProgram
  <2>3. k = task.key /\ prog'[k] = p
    BY <2>1, <2>2 DEF RainTypeOK, Programs
  <2>4. prog[k] \in [budget : Budgets, shape : Shapes]
        /\ task.snapshot[k] \in [budget : Budgets, shape : Shapes]
    BY <2>1, <2>3 DEF RainTypeOK, TaskType, Programs, Planned
  <2>5. prog'[k].budget = mem.expected[k]
    BY <2>2, <2>3, <2>4
  <2> QED
    BY <2>1, <2>3, <2>5 DEF BudgetUnderway
<1>3. CASE UNCHANGED prog
  BY <1>3
<1> QED
  BY <1>1, <1>2, <1>3 DEF Next, vars, ModeChanges, Configure, Restart, Begin,
     ReadPrograms, ReadFails, NextProgram, AllAdjusted, SaveState, SaveFails,
     Preflight, Reread, SendDelay

\* Every budget the adjuster writes is in range and in the file beforehand.
THEOREM WritesExpected == Spec => OwnWritesExpected
<1>1. RainInv /\ [Next]_vars =>
        [\A k \in Keys : prog'[k].budget # prog[k].budget =>
           \/ spent'.edits # spent.edits
           \/ /\ prog'[k].budget \in 1..options[k].baseline
              /\ file.expected[k] = prog'[k].budget]_vars
  BY WritesStep
<1> QED
  BY <1>1, RainHolds, PTL DEF Spec, OwnWritesExpected
=============================================================================
