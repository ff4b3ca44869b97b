------------------------ MODULE ProgramRestoreProofs ------------------------
(***************************************************************************)
(* Theorems of ProgramRestore, for any programs, blocks and callers.       *)
(***************************************************************************)
EXTENDS ProgramRestore, TLAPS

(* The operators on snapshots and stores stay within their types. *)

\* Restoring a backup into a snapshot gives a snapshot.
LEMMA PatchedType ==
  ASSUME NEW s \in Snapshots, NEW p \in Backups
  PROVE  Patched(s, p) \in Snapshots
BY DEF Patched, Snapshots, Backups, Slots

\* The logical programs of a snapshot are a backup.
LEMMA LogicalType ==
  ASSUME NEW s \in Snapshots
  PROVE  Logical(s) \in Backups
BY DEF Logical, Snapshots, Backups, Slots

\* Loading a store file gives a store with the file's journal.
LEMMA LoadedType ==
  ASSUME NEW file \in Stores
  PROVE  /\ Loaded(file) \in Stores
         /\ Loaded(file).pending = file.pending
<1>1. CASE file.snapshot # None /\ file.programs # None
  <2>1. file.snapshot \in Snapshots /\ file.programs \in Backups
    BY <1>1 DEF Stores
  <2>2. Patched(file.snapshot, file.programs) \in Snapshots
    BY <2>1, PatchedType
  <2>3. QED
    BY <2>2 DEF Loaded, Stores
<1>2. CASE ~(file.snapshot # None /\ file.programs # None)
  BY <1>2 DEF Loaded
<1>3. QED
  BY <1>1, <1>2

\* Settling a journal gives a store without one.
LEMMA ReconciledType ==
  ASSUME NEW m \in Stores, m.pending # None, NEW s \in Snapshots
  PROVE  /\ Reconciled(m, s) \in Stores
         /\ Reconciled(m, s).pending = None
         /\ Reconciled(m, s).programs = m.programs
<1>1. m.pending \in Journals
  BY DEF Stores
<1>2. m.pending.expected \in Snapshots
  BY <1>1 DEF Journals
<1>3. QED
  BY <1>2 DEF Reconciled, Stores

\* A block stored in the controller leaves a snapshot there.
LEMMA StoreType ==
  ASSUME ctl \in Snapshots, NEW b \in Slots, NEW c \in Contents, Store(b, c)
  PROVE  ctl' \in Snapshots
BY DEF Store, Snapshots

-----------------------------------------------------------------------------
(* Type correctness. *)

\* What the store holds, by component.
LEMMA StoreFields ==
  ASSUME NEW m \in Stores
  PROVE  /\ m.programs \in Backups \cup {None}
         /\ m.snapshot \in Snapshots \cup {None}
         /\ m.pending \in Journals \cup {None}
         /\ \A p \in Backups \cup {None} : [m EXCEPT !.programs = p] \in Stores
         /\ \A j \in Journals \cup {None} : [m EXCEPT !.pending = j] \in Stores
         /\ \A x \in Snapshots \cup {None} : Finished(m, x) \in Stores
         /\ Aborted(m) \in Stores
         /\ \A p \in Backups \cup {None}, x \in Snapshots \cup {None} :
              [m EXCEPT !.programs = p, !.snapshot = x] \in Stores
BY DEF Stores, Finished, Aborted

\* The initial states are well typed.
LEMMA TypeInit == Init => TypeOK
<1> SUFFICES ASSUME Init PROVE TypeOK
  OBVIOUS
<1>1. EmptyStore \in Stores
  BY DEF EmptyStore, Stores
<1>2. mem \in Stores
  <2>1. PICK file \in {EmptyStore} \cup LegacyStores : mem = Loaded(file)
    BY DEF Init
  <2>2. file \in Stores
    BY <1>1, ConstantsAssumption
  <2>3. QED
    BY <2>1, <2>2, LoadedType
<1>3. TaskOK(IdleTask)
  BY DEF TaskOK, IdleTask, TaskType, RestorePcs
<1>4. task \in [Restorers -> TaskType] /\ \A r \in Restorers : TaskOK(task[r])
  BY <1>3 DEF Init, TaskOK
<1>5. queued \in Restorers \cup {"refresh", "update", "editor", None}
  BY DEF Init
<1>6. spent \in [{"restores", "edits", "crashes"} -> Nat]
  BY DEF Init
<1>7. QED
  BY <1>2, <1>4, <1>5, <1>6 DEF Init, TypeOK, IdleRefresh, IdleUpdate

\* A task that changes only its own record keeps the others well typed.
LEMMA TaskFrame ==
  ASSUME TypeOK, NEW r \in Restorers, NEW t, TaskOK(t), task' = [task EXCEPT ![r] = t]
  PROVE  /\ task' \in [Restorers -> TaskType]
         /\ \A q \in Restorers : TaskOK(task'[q])
         /\ task'[r] = t
BY DEF TypeOK, TaskOK

\* Moving a task that has what its new place implies.
LEMMA GotoOK ==
  ASSUME NEW t, TaskOK(t), NEW pc \in RestorePcs, t.pc # "idle",
         pc \notin {"idle", "reading"} => t.before # None,
         pc \in {"journaling", "preflight", "ready", "writing", "verified"}
           => t.expected # None
  PROVE  TaskOK([t EXCEPT !.pc = pc])
BY DEF TaskOK, TaskType

LEMMA IdleOK == TaskOK(IdleTask)
BY DEF TaskOK, TaskType, IdleTask, RestorePcs

\* What a read tells, a mark taken and a verified mutation leave of the types.
LEMMA HistoryType ==
  ASSUME TypeOK
  PROVE  /\ \A s : Told(s) => unsettled' \subseteq Journals
         /\ MarkTaken => forgotten' \in BOOLEAN
         /\ Verified => unsettled' \subseteq Journals /\ forgotten' \in BOOLEAN
BY DEF TypeOK, Told, MarkTaken, Verified

\* A step of a restore keeps the types.
LEMMA TypeRestore ==
  ASSUME TypeOK, NEW r \in Restorers, StartRestore(r) \/ RestoreStep(r) \/ CancelRestore(r)
  PROVE  TypeOK'
<1> USE DEF history
<1> DEFINE TasksOK == /\ task' \in [Restorers -> TaskType]
                      /\ \A q \in Restorers : TaskOK(task'[q])
<1>1. ASSUME Leave(r) PROVE TasksOK
  BY <1>1, IdleOK, TaskFrame DEF Leave
<1>2. ASSUME NEW pc \in RestorePcs, Goto(r, pc), task[r].pc # "idle",
             pc \notin {"idle", "reading"} => task[r].before # None,
             pc \in {"journaling", "preflight", "ready", "writing", "verified"}
               => task[r].expected # None
      PROVE  TasksOK
  <2>1. task' = [task EXCEPT ![r] = [task[r] EXCEPT !.pc = pc]]
    BY <1>2 DEF Goto
  <2>2. QED
    BY <1>2, <2>1, GotoOK, TaskFrame DEF TypeOK
<1>3. CASE StartRestore(r)
  <2> DEFINE t == [IdleTask EXCEPT !.pc = "reading", !.programs = mem.programs,
                                   !.resuming = mem.pending # None]
  <2>1. TaskOK(t)
    BY <1>3, StoreFields DEF StartRestore, TaskOK, TaskType, IdleTask, RestorePcs, TypeOK
  <2>2. TasksOK
    BY <1>3, <2>1, TaskFrame DEF StartRestore
  <2>3. QED
    BY <1>3, <2>2 DEF StartRestore, Spend, Others, TypeOK
<1>4. CASE ReadBefore(r)
  <2> DEFINE t == [task[r] EXCEPT !.pc = "read", !.before = ctl]
  <2>1. TaskOK(t)
    <3>1. /\ task[r] \in TaskType /\ task[r].programs # None
          /\ ctl \in Snapshots /\ ctl # None
      BY <1>4, ConstantsAssumption DEF ReadBefore, TaskOK, TypeOK
    <3>2. QED
      BY <3>1 DEF TaskOK, TaskType, RestorePcs
  <2>2. TasksOK
    BY <1>4, <2>1, TaskFrame DEF ReadBefore
  <2>3. QED
    BY <1>4, <2>2 DEF ReadBefore, Others, TypeOK
<1>5. CASE RestoreRefused(r)
  BY <1>1, <1>5 DEF RestoreRefused, Others, TypeOK
<1>6. CASE SettleEarlier(r)
  <2> DEFINE t == [task[r] EXCEPT !.pc = "settling", !.resuming = FALSE]
  <2>1. TaskOK(t)
    BY <1>6 DEF SettleEarlier, TaskOK, TaskType, RestorePcs, TypeOK
  <2>2. TasksOK
    BY <1>6, <2>1, TaskFrame DEF SettleEarlier
  <2>3. mem' \in Stores
    BY <1>6, ReconciledType DEF SettleEarlier, SettlingRead, TaskOK, TaskType, TypeOK
  <2>4. QED
    BY <1>6, <2>2, <2>3, HistoryType DEF SettleEarlier, Others, TypeOK
<1>7. CASE PlanRefused(r)
  BY <1>1, <1>7 DEF PlanRefused, Others, TypeOK
<1>8. CASE PlanNothing(r)
  <2>1. task[r].pc \in {"read", "planning"} /\ task[r].before \in Snapshots
    BY <1>8 DEF PlanNothing, Planning, TaskOK, TaskType, TypeOK
  <2>2. TasksOK
    BY <1>2, <1>8, <2>1, ConstantsAssumption DEF PlanNothing, RestorePcs
  <2>3. mem' \in Stores
    BY <1>8, <2>1, StoreFields DEF PlanNothing, TypeOK
  <2>4. QED
    BY <1>8, <2>2, <2>3, HistoryType DEF PlanNothing, Others, TypeOK
<1>9. CASE BeginRestore(r)
  <2> DEFINE expected == Patched(task[r].before, task[r].programs)
             todo == {b \in Editable : expected.blocks[b] # task[r].before.blocks[b]}
             t == [task[r] EXCEPT !.pc = "journaling", !.expected = expected, !.todo = todo]
             j == [before |-> task[r].before, expected |-> expected]
  <2>1. task[r].before \in Snapshots /\ task[r].programs \in Backups
    BY <1>9 DEF BeginRestore, Planning, TaskOK, TaskType, TypeOK
  <2>2. expected \in Snapshots
    BY <2>1, PatchedType
  <2> HIDE DEF expected
  <2>3. j \in Journals
    BY <2>1, <2>2 DEF Journals
  <2>4. mem' \in Stores
    <3>1. mem' = [mem EXCEPT !.pending = j]
      BY <1>9 DEF BeginRestore, expected
    <3>2. QED
      BY <2>3, <3>1, StoreFields DEF TypeOK
  <2>5. TaskOK(t)
    <3>1. task[r] \in TaskType /\ task[r].programs # None
      BY <2>1, ConstantsAssumption DEF TypeOK
    <3>2. todo \in SUBSET Editable
      OBVIOUS
    <3> HIDE DEF todo
    <3>3. QED
      BY <2>1, <2>2, <3>1, <3>2, ConstantsAssumption DEF TaskOK, TaskType, RestorePcs
  <2>6. task' = [task EXCEPT ![r] = t]
    BY <1>9 DEF BeginRestore, expected
  <2>7. TasksOK
    BY <2>5, <2>6, TaskFrame
  <2>8. QED
    BY <1>9, <2>4, <2>7, HistoryType DEF BeginRestore, Others, TypeOK
<1>10. CASE Preflight(r)
  <2>1. TasksOK
    BY <1>2, <1>10 DEF Preflight, RestorePcs, TaskOK, TypeOK
  <2>2. QED
    BY <1>10, <2>1 DEF Preflight, Others, TypeOK
<1>11. CASE AbortRestore(r)
  <2>1. TasksOK
    BY <1>2, <1>11 DEF AbortRestore, RestorePcs, TaskOK, TypeOK
  <2>2. QED
    BY <1>11, <2>1, StoreFields, HistoryType DEF AbortRestore, Others, TypeOK
<1>12. CASE OpenMutation(r)
  <2>1. TasksOK
    BY <1>2, <1>12 DEF OpenMutation, RestorePcs, TaskOK, TypeOK
  <2>2. Entry(task[r]) \in Journals
    <3>1. task[r].before \in Snapshots /\ task[r].expected \in Snapshots
      BY <1>12 DEF OpenMutation, TaskOK, TaskType, TypeOK
    <3>2. QED
      BY <3>1 DEF Entry, Journals
  <2>3. QED
    BY <1>12, <2>1, <2>2 DEF OpenMutation, Others, TypeOK
<1>13. ASSUME task[r].pc = "writing", NEW b \in task[r].todo,
              Store(b, task[r].expected.blocks[b])
       PROVE  ctl' \in Snapshots
  <2>1. task[r].expected \in Snapshots /\ b \in Slots
    BY <1>13 DEF TypeOK, TaskOK, TaskType, Slots
  <2>2. task[r].expected.blocks[b] \in Contents
    BY <2>1 DEF Snapshots
  <2>3. QED
    BY <1>13, <2>1, <2>2, StoreType DEF TypeOK
<1>14. CASE WriteBlock(r)
  <2>1. PICK b \in task[r].todo :
          /\ Store(b, task[r].expected.blocks[b])
          /\ task' = [task EXCEPT ![r] = [task[r] EXCEPT !.todo = @ \ {b}]]
    BY <1>14 DEF WriteBlock
  <2>2. TaskOK([task[r] EXCEPT !.todo = @ \ {b}])
    BY DEF TypeOK, TaskOK, TaskType
  <2>3. TasksOK
    BY <2>1, <2>2, TaskFrame
  <2>4. ctl' \in Snapshots
    BY <1>13, <1>14, <2>1 DEF WriteBlock
  <2>5. QED
    BY <1>14, <2>3, <2>4 DEF WriteBlock, Others, TypeOK
<1>15. CASE LoseWrite(r)
  <2>1. ctl' \in Snapshots
    BY <1>13, <1>15 DEF LoseWrite, TypeOK
  <2>2. QED
    BY <1>1, <1>15, <2>1 DEF LoseWrite, Others, TypeOK
<1>16. CASE ReadBack(r)
  <2>1. TasksOK
    BY <1>2, <1>16 DEF ReadBack, RestorePcs, TaskOK, TypeOK
  <2>2. QED
    BY <1>16, <2>1 DEF ReadBack, Others, TypeOK
<1>17. CASE FinishRestore(r)
  <2>1. TasksOK
    BY <1>2, <1>17 DEF FinishRestore, RestorePcs, TaskOK, TypeOK
  <2>2. task[r].expected \in Snapshots \cup {None}
    BY DEF TypeOK, TaskType
  <2>3. QED
    BY <1>17, <2>1, <2>2, StoreFields, HistoryType DEF FinishRestore, Others, TypeOK
<1>18. CASE Saved(r)
  <2>1. task[r].pc \in {"settling", "journaling", "finishing", "aborting"}
    BY <1>18 DEF Saved, AfterSave
  <2>2. CASE task[r].pc \in {"finishing", "aborting"}
    <3>1. Leave(r)
      BY <1>18, <2>2 DEF Saved, AfterSave
    <3>2. QED
      BY <1>1, <1>18, <3>1 DEF Saved, Flush, Others, TypeOK
  <2>3. CASE task[r].pc = "settling"
    <3>1. Goto(r, "planning")
      BY <1>18, <2>3 DEF Saved, AfterSave
    <3>2. TasksOK
      BY <1>2, <2>3, <3>1 DEF RestorePcs, TaskOK, TypeOK
    <3>3. QED
      BY <1>18, <3>2 DEF Saved, Flush, Others, TypeOK
  <2>4. CASE task[r].pc = "journaling"
    <3>1. Goto(r, "preflight")
      BY <1>18, <2>4 DEF Saved, AfterSave
    <3>2. TasksOK
      BY <1>2, <2>4, <3>1 DEF RestorePcs, TaskOK, TypeOK
    <3>3. QED
      BY <1>18, <3>2 DEF Saved, Flush, Others, TypeOK
  <2>5. QED
    BY <2>1, <2>2, <2>3, <2>4
<1>19. CASE SaveFails(r)
  BY <1>1, <1>19 DEF SaveFails, FlushFails, Others, TypeOK
<1>20. CASE CancelRestore(r)
  BY <1>1, <1>20 DEF CancelRestore, Others, TypeOK
<1>21. QED
  BY <1>3, <1>4, <1>5, <1>6, <1>7, <1>8, <1>9, <1>10, <1>11, <1>12, <1>14, <1>15,
     <1>16, <1>17, <1>18, <1>19, <1>20 DEF RestoreStep

\* A step of the schedule refresh keeps the types.
LEMMA TypeRefresh ==
  ASSUME TypeOK, RefreshRead \/ RefreshStep
  PROVE  TypeOK'
<1> USE DEF history
<1>1. CASE RefreshRead
  BY <1>1, ConstantsAssumption DEF RefreshRead, RestoreSide, TypeOK
<1>2. CASE RefreshSettle
  <2>1. refresh.seen \in Snapshots
    BY <1>2 DEF RefreshSettle, TypeOK
  <2>2. mem' \in Stores
    BY <1>2, <2>1, ReconciledType DEF RefreshSettle, RefreshSettles, TypeOK
  <2>3. QED
    BY <1>2, <2>2, HistoryType DEF RefreshSettle, RestoreSide, TypeOK
<1>3. CASE RefreshAdopt
  <2>1. refresh.seen \in Snapshots
    BY <1>3 DEF RefreshAdopt, Noting, TypeOK
  <2>2. mem' \in Stores
    BY <1>3, <2>1, LogicalType, StoreFields DEF RefreshAdopt, TypeOK
  <2>3. QED
    BY <1>3, <2>2 DEF RefreshAdopt, Noting, RestoreSide, TypeOK
<1>4. CASE RefreshDone
  BY <1>4 DEF RefreshDone, IdleRefresh, RestoreSide, TypeOK
<1>5. CASE RefreshSaved
  BY <1>5 DEF RefreshSaved, Flush, IdleRefresh, RestoreSide, TypeOK
<1>6. CASE RefreshSaveFails
  BY <1>6 DEF RefreshSaveFails, FlushFails, IdleRefresh, RestoreSide, TypeOK
<1>7. QED
  BY <1>1, <1>2, <1>3, <1>4, <1>5, <1>6 DEF RefreshStep

\* A step of the backup update keeps the types.
LEMMA TypeUpdate ==
  ASSUME TypeOK, StartUpdate \/ UpdateStep
  PROVE  TypeOK'
<1> USE DEF history
<1>1. CASE StartUpdate
  BY <1>1 DEF StartUpdate, UpdateSide, TypeOK
<1>2. CASE UpdateRead
  BY <1>2, ConstantsAssumption DEF UpdateRead, UpdateSide, TypeOK
<1>3. CASE UpdateReplace
  <2>1. update.seen \in Snapshots
    BY <1>3 DEF UpdateReplace, TypeOK
  <2>2. mem' \in Stores
    BY <1>3, <2>1, LogicalType, StoreFields DEF UpdateReplace, TypeOK
  <2>3. update' \in [pc : {"idle", "reading", "read", "saving"},
                     seen : Snapshots \cup {None}, old : Stores \cup {None}]
    BY <1>3 DEF UpdateReplace, TypeOK
  <2>4. mem # None
    BY ConstantsAssumption DEF TypeOK
  <2>5. QED
    BY <1>3, <2>1, <2>2, <2>3, <2>4, ConstantsAssumption DEF UpdateReplace, UpdateSide, TypeOK
<1>4. CASE UpdateRefused
  BY <1>4 DEF UpdateRefused, IdleUpdate, UpdateSide, TypeOK
<1>5. CASE UpdateSaved
  BY <1>5 DEF UpdateSaved, Flush, IdleUpdate, UpdateSide, TypeOK
<1>6. CASE UpdateSaveFails
  <2>1. update.old \in Stores
    BY <1>6 DEF UpdateSaveFails, TypeOK
  <2>2. mem' \in Stores
    BY <1>6, <2>1, StoreFields DEF UpdateSaveFails, TypeOK
  <2>3. QED
    BY <1>6, <2>2 DEF UpdateSaveFails, FlushFails, IdleUpdate, UpdateSide, TypeOK
<1>7. QED
  BY <1>1, <1>2, <1>3, <1>4, <1>5, <1>6 DEF UpdateStep

\* A step of the editor or of the phone, and a restart, keep the types.
LEMMA TypeEdit ==
  ASSUME TypeOK, EditProgram \/ EditLost \/ EditSaved \/ EditSaveFails \/ PhoneEdit \/ Restart
  PROVE  TypeOK'
<1> USE DEF history
<1>1. ASSUME NEW what \in {"restores", "edits", "crashes"}, NEW limit, Spend(what, limit)
      PROVE  spent' \in [{"restores", "edits", "crashes"} -> Nat]
  BY <1>1 DEF Spend, TypeOK
<1>2. ASSUME \E b \in Slots, content \in Contents : Store(b, content)
      PROVE  ctl' \in Snapshots
  BY <1>2, StoreType DEF TypeOK
<1>3. (\E b \in Editable, content \in Contents : Store(b, content))
        => \E b \in Slots, content \in Contents : Store(b, content)
  BY DEF Slots
<1>4. CASE EditProgram
  <2>1. ctl' \in Snapshots /\ spent' \in [{"restores", "edits", "crashes"} -> Nat]
    BY <1>1, <1>2, <1>3, <1>4 DEF EditProgram
  <2>2. mem' \in Stores
    <3>1. Logical(ctl') \in Backups
      BY <2>1, LogicalType
    <3>2. [mem EXCEPT !.programs = Logical(ctl')] \in Stores
      BY <3>1, StoreFields DEF TypeOK
    <3>3. mem' = [mem EXCEPT !.programs = Logical(ctl')] \/ mem' = mem
      BY <1>4 DEF EditProgram
    <3>4. QED
      BY <3>2, <3>3 DEF TypeOK
  <2>3. QED
    BY <1>4, <2>1, <2>2 DEF EditProgram, TypeOK
<1>5. CASE EditLost
  <2>1. ctl' \in Snapshots /\ spent' \in [{"restores", "edits", "crashes"} -> Nat]
    BY <1>1, <1>2, <1>3, <1>5 DEF EditLost
  <2>2. QED
    BY <1>5, <2>1 DEF EditLost, TypeOK
<1>6. CASE EditSaved
  BY <1>6 DEF EditSaved, Flush, TypeOK
<1>7. CASE PhoneEdit
  <2>1. ctl' \in Snapshots /\ spent' \in [{"restores", "edits", "crashes"} -> Nat]
    BY <1>1, <1>2, <1>7 DEF PhoneEdit
  <2>2. QED
    BY <1>7, <2>1 DEF PhoneEdit, TypeOK
<1>8. CASE Restart
  <2>1. mem' \in Stores /\ disk' \in Stores
    BY <1>8, LoadedType DEF Restart, TypeOK
  <2>2. spent' \in [{"restores", "edits", "crashes"} -> Nat]
    BY <1>1, <1>8 DEF Restart
  <2>3. task' \in [Restorers -> TaskType] /\ \A r \in Restorers : TaskOK(task'[r])
    BY <1>8, IdleOK DEF Restart, TaskOK
  <2>4. QED
    BY <1>8, <2>1, <2>2, <2>3 DEF Restart, IdleRefresh, IdleUpdate, TypeOK
<1>9. CASE EditSaveFails
  BY <1>9 DEF EditSaveFails, FlushFails, TypeOK
<1>10. QED
  BY <1>4, <1>5, <1>6, <1>7, <1>8, <1>9

\* Every step keeps the types.
LEMMA TypeNext == TypeOK /\ [Next]_vars => TypeOK'
<1> SUFFICES ASSUME TypeOK, [Next]_vars PROVE TypeOK'
  OBVIOUS
<1>1. CASE Next
  BY <1>1, TypeRestore, TypeRefresh, TypeUpdate, TypeEdit DEF Next
<1>2. CASE UNCHANGED vars
  BY <1>2 DEF vars, TypeOK, history
<1>3. QED
  BY <1>1, <1>2

\* Under every interleaving the event loop allows the variables keep their
\* types, and a task that has reached a place has what the code at that place
\* reads (a backup, a read, an expectation).
THEOREM TypeCorrect == Spec => []TypeOK
<1>1. QED
  BY TypeInit, TypeNext, PTL DEF Spec

-----------------------------------------------------------------------------
(* The journal.  JournalInv is inductive for one operation at a time.      *)

\* What the operations on the store do to its parts.
LEMMA StoreEffects ==
  ASSUME NEW m \in Stores
  PROVE  /\ \A j : [m EXCEPT !.pending = j].pending = j
         /\ \A j : [m EXCEPT !.pending = j].programs = m.programs
         /\ \A p : [m EXCEPT !.programs = p].pending = m.pending
         /\ \A p : [m EXCEPT !.programs = p].programs = p
         /\ \A p, x : [m EXCEPT !.programs = p, !.snapshot = x].pending = m.pending
         /\ \A x : Finished(m, x).pending = None
         /\ \A x : Finished(m, x).programs = m.programs
         /\ Aborted(m).pending = None
         /\ Aborted(m).programs = m.programs
BY DEF Stores, Finished, Aborted

\* While a restore runs alone the others stay idle, so that only its own
\* place in the protocol is in question.
LEMMA OthersIdle ==
  ASSUME Serial, NEW r \in Restorers, Active(r), Journaled(r)',
         \A q \in Restorers \ {r} : task'[q] = task[q]
  PROVE  \A q \in Restorers : Journaled(q)'
<1> SUFFICES ASSUME NEW q \in Restorers, q # r PROVE Journaled(q)'
  OBVIOUS
<1>1. task[q].pc = "idle"
  BY DEF Serial, Active
<1>2. task'[q].pc = "idle"
  BY <1>1
<1>3. QED
  BY <1>2 DEF Journaled, Entry

\* Writing the file leaves the journal there as it is in memory, or the file
\* as it was.
LEMMA FlushJournal ==
  ASSUME Flush, mem' = mem
  PROVE  /\ queued' = None
         /\ disk'.pending = mem.pending \/ (queued = None /\ disk' = disk)
BY DEF Flush

\* No entry is Python's None.
LEMMA NoneIsNoEntry == None \notin Journals
BY ConstantsAssumption

\* A step of a restore keeps the invariant.
LEMMA JournalRestore ==
  ASSUME JournalInv, NEW r \in Restorers,
         StartRestore(r) \/ RestoreStep(r) \/ CancelRestore(r)
  PROVE  PendingUntilTold' /\ \A q \in Restorers : Journaled(q)'
<1> USE DEF Others, history
<1>1. /\ mem \in Stores /\ task \in [Restorers -> TaskType]
      /\ unsettled \subseteq Journals /\ PendingUntilTold /\ Serial
      /\ \A q \in Restorers : Journaled(q)
  BY DEF JournalInv, TypeOK
<1>2. ASSUME NEW t, task' = [task EXCEPT ![r] = t]
      PROVE  task'[r] = t /\ \A q \in Restorers \ {r} : task'[q] = task[q]
  BY <1>1, <1>2
<1>3. ASSUME NEW pc, Goto(r, pc)
      PROVE  /\ task'[r] = [task[r] EXCEPT !.pc = pc]
             /\ task'[r].pc = pc /\ task'[r].before = task[r].before
             /\ task'[r].expected = task[r].expected
             /\ \A q \in Restorers \ {r} : task'[q] = task[q]
  BY <1>1, <1>3 DEF Goto, TaskType
<1>4. ASSUME Leave(r)
      PROVE  task'[r].pc = "idle" /\ \A q \in Restorers \ {r} : task'[q] = task[q]
  BY <1>1, <1>4 DEF Leave, IdleTask
<1>5. ASSUME Leave(r), Active(r) PROVE \A q \in Restorers : Journaled(q)'
  <2>1. Journaled(r)'
    BY <1>4, <1>5 DEF Journaled, Entry
  <2>2. QED
    BY <1>1, <1>4, <1>5, <2>1, OthersIdle
<1>6. CASE StartRestore(r)
  <2>1. /\ task'[r].pc = "reading" /\ mem.programs # None
        /\ \A q \in Restorers \ {r} : task'[q] = task[q]
        /\ UNCHANGED <<mem, disk, queued, history>>
    BY <1>1, <1>6 DEF StartRestore, IdleTask
  <2>2. QED
    BY <1>1, <2>1 DEF Journaled, PendingUntilTold
<1>7. CASE ReadBefore(r)
  <2>1. /\ task[r].pc = "reading" /\ task'[r].pc = "read"
        /\ \A q \in Restorers \ {r} : task'[q] = task[q]
        /\ UNCHANGED <<mem, disk, queued, history>>
    BY <1>1, <1>7 DEF ReadBefore, TaskType
  <2>2. Journaled(r)'
    BY <1>1, <2>1 DEF Journaled
  <2>3. QED
    BY <1>1, <2>1, <2>2, OthersIdle DEF PendingUntilTold, Active
<1>8. CASE RestoreRefused(r)
  BY <1>1, <1>5, <1>8 DEF RestoreRefused, Active, PendingUntilTold
<1>9. CASE SettleEarlier(r)
  <2>1. /\ task[r].pc = "read" /\ task'[r].pc = "settling"
        /\ \A q \in Restorers \ {r} : task'[q] = task[q]
    BY <1>1, <1>9 DEF SettleEarlier, TaskType
  <2>2. mem'.programs # None
    <3>1. mem' = Reconciled(mem, task[r].before) /\ mem.programs # None
      BY <1>1, <1>9, <2>1 DEF SettleEarlier, Journaled
    <3>2. QED
      BY <1>1, <3>1 DEF Reconciled, Stores
  <2>3. Journaled(r)'
    BY <2>1, <2>2 DEF Journaled
  <2>5. PendingUntilTold'
    <3>1. mem.pending # None /\ mem' = Reconciled(mem, task[r].before)
      BY <1>9 DEF SettleEarlier, SettlingRead
    <3>2. mem'.pending = None
      BY <1>1, <3>1 DEF Reconciled, Stores
    <3>3. unsettled' \subseteq unsettled /\ forgotten' = (unsettled' # {})
      BY <1>9 DEF SettleEarlier, SettlingRead, Told, MarkTaken
    <3> QED
      BY <1>1, <3>2, <3>3, ConstantsAssumption, NoneIsNoEntry DEF PendingUntilTold
  <2>4. QED
    BY <1>1, <1>9, <2>1, <2>3, <2>5, OthersIdle DEF Active
<1>10. CASE PlanRefused(r)
  BY <1>1, <1>5, <1>10 DEF PlanRefused, Planning, Active, PendingUntilTold
<1>11. CASE PlanNothing(r)
  <2>1. /\ task[r].pc # "idle" /\ task'[r].pc = "finishing"
        /\ \A q \in Restorers \ {r} : task'[q] = task[q]
    BY <1>3, <1>11 DEF PlanNothing, Planning
  <2>2. Journaled(r)'
    BY <1>1, <1>11, <2>1, StoreEffects DEF Journaled, PlanNothing
  <2>3. QED
    BY <1>1, <1>11, <2>1, <2>2, OthersIdle DEF PlanNothing, Verified, PendingUntilTold, Active
<1>12. CASE BeginRestore(r)
  <2> DEFINE expected == Patched(task[r].before, task[r].programs)
  <2>1. /\ task[r].pc # "idle" /\ task'[r].pc = "journaling"
        /\ task'[r].before = task[r].before /\ task'[r].expected = expected
        /\ \A q \in Restorers \ {r} : task'[q] = task[q]
    BY <1>1, <1>12 DEF BeginRestore, Planning, TaskType
  <2>2. /\ mem' = [mem EXCEPT !.pending = [before |-> task[r].before, expected |-> expected]]
        /\ queued' = r /\ disk' = disk
        /\ unsettled' = {j \in unsettled : ~Settles(j, task[r].before)} /\ forgotten' = forgotten
    BY <1>12 DEF BeginRestore, Told
  <2> HIDE DEF expected
  <2>3. /\ mem'.pending = [before |-> task[r].before, expected |-> expected]
        /\ mem'.programs = mem.programs /\ mem.programs # None
    BY <1>1, <2>1, <2>2, StoreEffects DEF Journaled
  <2>4. Journaled(r)'
    <3>1. Entry(task'[r]) = [before |-> task[r].before, expected |-> expected]
      BY <2>1 DEF Entry
    <3>2. Settles(Entry(task'[r]), task[r].before)
      BY <3>1 DEF Settles
    <3>3. QED
      BY <2>1, <2>2, <2>3, <3>1, <3>2 DEF Journaled
  <2>5. PendingUntilTold'
    <3>1. Settles([before |-> task[r].before, expected |-> expected], task[r].before)
      BY DEF Settles
    <3>2. mem'.pending # None
      <4>1. TaskOK(task[r]) /\ task[r].pc \notin {"idle", "reading"}
        BY <1>12 DEF JournalInv, TypeOK, BeginRestore, Planning
      <4>2. task[r].before \in Snapshots /\ task[r].programs \in Backups
        BY <4>1 DEF TaskOK, TaskType
      <4>3. expected \in Snapshots
        BY <4>2, PatchedType DEF expected
      <4>4. mem'.pending \in Journals
        BY <2>3, <4>2, <4>3 DEF Journals
      <4> QED
        BY <4>4, NoneIsNoEntry
    <3> QED
      BY <1>1, <2>2, <2>3, <3>1, <3>2 DEF PendingUntilTold
  <2>6. QED
    BY <1>1, <2>1, <2>4, <2>5, OthersIdle DEF Active
<1>13. CASE Preflight(r)
  <2>1. /\ task[r].pc = "preflight" /\ UNCHANGED <<mem, disk, queued, history>>
        /\ task'[r].pc = "ready" /\ task'[r].before = task[r].before
        /\ task'[r].expected = task[r].expected
        /\ \A q \in Restorers \ {r} : task'[q] = task[q]
    BY <1>3, <1>13 DEF Preflight
  <2>2. Journaled(r)'
    BY <1>1, <2>1 DEF Journaled, Entry
  <2>3. QED
    BY <1>1, <2>1, <2>2, OthersIdle DEF PendingUntilTold, Active
<1>14. CASE AbortRestore(r)
  <2>1. /\ task[r].pc \in {"preflight", "ready"}
        /\ task'[r].pc = "aborting" /\ task'[r].before = task[r].before
        /\ task'[r].expected = task[r].expected
        /\ \A q \in Restorers \ {r} : task'[q] = task[q]
    BY <1>3, <1>14 DEF AbortRestore
  <2>2. /\ mem' = Aborted(mem) /\ mem.programs # None
        /\ unsettled' = unsettled /\ forgotten' = (unsettled # {})
    BY <1>1, <1>14, <2>1 DEF AbortRestore, MarkTaken, Journaled, Entry
  <2>3. Journaled(r)'
    BY <1>1, <2>1, <2>2, StoreEffects DEF Journaled
  <2>4. PendingUntilTold'
    BY <1>1, <2>2, StoreEffects, NoneIsNoEntry DEF PendingUntilTold
  <2>5. QED
    BY <1>1, <2>1, <2>3, <2>4, OthersIdle DEF Active
<1>15. CASE OpenMutation(r)
  <2>1. /\ task[r].pc = "ready" /\ UNCHANGED <<mem, disk>>
        /\ task'[r].pc = "writing" /\ task'[r].before = task[r].before
        /\ task'[r].expected = task[r].expected
        /\ \A q \in Restorers \ {r} : task'[q] = task[q]
    BY <1>3, <1>15 DEF OpenMutation
  <2>2. /\ disk.pending = mem.pending
        /\ mem.pending = Entry(task[r])
    BY <1>1, <2>1 DEF Journaled
  <2>3. mem.pending # None
    <3>1. TaskOK(task[r]) /\ task[r] \in TaskType
      BY DEF JournalInv, TypeOK
    <3>2. task[r].before \in Snapshots /\ task[r].expected \in Snapshots
      BY <2>1, <3>1 DEF TaskOK, TaskType
    <3>3. mem.pending \in Journals
      BY <2>2, <3>2 DEF Journals, Entry
    <3>4. QED
      BY <3>3, NoneIsNoEntry
  <2>4. Journaled(r)'
    BY <1>1, <2>1, <2>2 DEF Journaled, Entry
  <2>5. QED
    BY <1>1, <2>1, <2>2, <2>3, <2>4, OthersIdle DEF PendingUntilTold, Active
<1>16. CASE WriteBlock(r)
  <2>1. /\ task[r].pc = "writing" /\ task'[r].pc = "writing"
        /\ task'[r].before = task[r].before /\ task'[r].expected = task[r].expected
        /\ \A q \in Restorers \ {r} : task'[q] = task[q]
        /\ UNCHANGED <<mem, disk, queued, history>>
    BY <1>1, <1>16 DEF WriteBlock, TaskType
  <2>2. Journaled(r)'
    BY <1>1, <2>1 DEF Journaled, Entry
  <2>3. QED
    BY <1>1, <2>1, <2>2, OthersIdle DEF PendingUntilTold, Active
<1>17. CASE LoseWrite(r)
  BY <1>1, <1>5, <1>17 DEF LoseWrite, Active, PendingUntilTold
<1>18. CASE ReadBack(r)
  <2>1. /\ task[r].pc = "writing" /\ UNCHANGED <<mem, disk, queued, history>>
        /\ task'[r].pc = "verified" /\ task'[r].before = task[r].before
        /\ task'[r].expected = task[r].expected
        /\ \A q \in Restorers \ {r} : task'[q] = task[q]
    BY <1>3, <1>18 DEF ReadBack
  <2>2. Journaled(r)'
    BY <1>1, <2>1 DEF Journaled, Entry
  <2>3. QED
    BY <1>1, <2>1, <2>2, OthersIdle DEF PendingUntilTold, Active
<1>19. CASE FinishRestore(r)
  <2>1. /\ task[r].pc = "verified"
        /\ task'[r].pc = "finishing" /\ task'[r].before = task[r].before
        /\ task'[r].expected = task[r].expected
        /\ \A q \in Restorers \ {r} : task'[q] = task[q]
    BY <1>3, <1>19 DEF FinishRestore
  <2>2. /\ unsettled' = {} /\ mem' = Finished(mem, task[r].expected)
        /\ mem.programs # None
    BY <1>1, <1>19, <2>1 DEF FinishRestore, Verified, Journaled
  <2>3. Journaled(r)'
    BY <1>1, <2>1, <2>2, StoreEffects DEF Journaled
  <2>4. QED
    BY <1>1, <2>1, <2>2, <2>3, OthersIdle DEF PendingUntilTold, Active
<1>20. CASE Saved(r)
  <2>1. /\ task[r].pc \in {"settling", "journaling", "finishing", "aborting"}
        /\ UNCHANGED <<mem, history>> /\ Flush
    BY <1>20 DEF Saved, AfterSave
  <2>2. PendingUntilTold'
    BY <1>1, <2>1, FlushJournal DEF PendingUntilTold
  <2>3. CASE task[r].pc \in {"finishing", "aborting"}
    <3>1. Leave(r)
      BY <1>20, <2>3 DEF Saved, AfterSave
    <3>2. QED
      BY <1>5, <2>2, <2>3, <3>1 DEF Active
  <2>4. CASE task[r].pc = "settling"
    <3>1. Goto(r, "planning")
      BY <1>20, <2>4 DEF Saved, AfterSave
    <3>2. task'[r].pc = "planning" /\ mem.programs # None
      BY <1>1, <1>3, <2>4, <3>1 DEF Journaled
    <3>3. Journaled(r)'
      BY <2>1, <3>2 DEF Journaled
    <3>4. QED
      BY <1>1, <1>3, <2>2, <2>4, <3>1, <3>3, OthersIdle DEF Active
  <2>5. CASE task[r].pc = "journaling"
    <3>1. Goto(r, "preflight")
      BY <1>20, <2>5 DEF Saved, AfterSave
    <3>2. disk'.pending = mem.pending
      BY <1>1, <2>1, <2>5, FlushJournal, ConstantsAssumption DEF Journaled
    <3>3. Journaled(r)'
      BY <1>1, <1>3, <2>1, <2>5, <3>1, <3>2 DEF Journaled, Entry
    <3>4. QED
      BY <1>1, <1>3, <2>2, <2>5, <3>1, <3>3, OthersIdle DEF Active
  <2>6. QED
    BY <2>1, <2>3, <2>4, <2>5
<1>21. CASE SaveFails(r)
  <2>1. Leave(r) /\ task[r].pc # "idle" /\ UNCHANGED <<mem, disk, history>>
    BY <1>21 DEF SaveFails, AfterSave
  <2>2. QED
    BY <1>1, <1>5, <2>1 DEF Active, PendingUntilTold
<1>22. CASE CancelRestore(r)
  BY <1>1, <1>5, <1>22 DEF CancelRestore, PendingUntilTold
<1>23. QED
  BY <1>6, <1>7, <1>8, <1>9, <1>10, <1>11, <1>12, <1>13, <1>14, <1>15, <1>16, <1>17,
     <1>18, <1>19, <1>20, <1>21, <1>22 DEF RestoreStep

\* While the refresh or the update runs no restore does, so that nothing is
\* asked of their steps but to keep the journal of a mutation begun.
LEMMA AllIdle ==
  ASSUME Serial, refresh.pc # "idle" \/ update.pc # "idle", task' = task
  PROVE  \A q \in Restorers : Journaled(q)'
<1>1. \A q \in Restorers : task'[q].pc = "idle"
  BY DEF Serial, Active
<1>2. QED
  BY <1>1 DEF Journaled

\* A step of the schedule refresh keeps the invariant.
LEMMA JournalRefresh ==
  ASSUME JournalInv, RefreshRead \/ RefreshStep
  PROVE  PendingUntilTold' /\ \A q \in Restorers : Journaled(q)'
<1> USE DEF RestoreSide, history
<1>1. mem \in Stores /\ unsettled \subseteq Journals /\ PendingUntilTold /\ Serial /\ \A q \in Restorers : Journaled(q)
  BY DEF JournalInv, TypeOK
<1>2. CASE RefreshRead
  BY <1>1, <1>2 DEF RefreshRead, PendingUntilTold, Journaled
<1>3. CASE RefreshSettle
  <2>1. mem.pending # None /\ mem' = Reconciled(mem, refresh.seen) /\ task' = task
    BY <1>3 DEF RefreshSettle, RefreshSettles
  <2>2. mem'.pending = None
    BY <1>1, <2>1 DEF Reconciled, Stores
  <2>3. unsettled' \subseteq unsettled /\ forgotten' = (unsettled' # {})
    BY <1>3 DEF RefreshSettle, RefreshSettles, Told, MarkTaken
  <2>4. PendingUntilTold'
    BY <1>1, <2>2, <2>3, NoneIsNoEntry DEF PendingUntilTold
  <2> QED
    BY <1>1, <1>3, <2>1, <2>4, AllIdle DEF RefreshSettle
<1>4. CASE RefreshAdopt
  <2>1. /\ refresh.pc # "idle" /\ task' = task /\ mem'.pending = mem.pending
        /\ UNCHANGED <<disk, history>>
    BY <1>1, <1>4, StoreEffects DEF RefreshAdopt, Noting
  <2>2. QED
    BY <1>1, <2>1, AllIdle DEF PendingUntilTold
<1>5. CASE RefreshDone
  BY <1>1, <1>5, AllIdle DEF RefreshDone, Noting, PendingUntilTold
<1>6. CASE RefreshSaved
  BY <1>1, <1>6, AllIdle, FlushJournal DEF RefreshSaved, PendingUntilTold
<1>7. CASE RefreshSaveFails
  BY <1>1, <1>7, AllIdle DEF RefreshSaveFails, PendingUntilTold
<1>8. QED
  BY <1>2, <1>3, <1>4, <1>5, <1>6, <1>7 DEF RefreshStep

\* A step of the backup update keeps the invariant.
LEMMA JournalUpdate ==
  ASSUME JournalInv, StartUpdate \/ UpdateStep
  PROVE  PendingUntilTold' /\ \A q \in Restorers : Journaled(q)'
<1> USE DEF UpdateSide, history
<1>1. mem \in Stores /\ PendingUntilTold /\ Serial /\ \A q \in Restorers : Journaled(q)
  BY DEF JournalInv, TypeOK
<1>2. CASE StartUpdate
  BY <1>1, <1>2 DEF StartUpdate, PendingUntilTold, Journaled
<1>3. CASE UpdateRead
  BY <1>1, <1>3 DEF UpdateRead, PendingUntilTold, Journaled
<1>4. CASE UpdateReplace
  <2>1. /\ update.pc # "idle" /\ task' = task /\ mem'.pending = mem.pending
        /\ UNCHANGED <<disk, history>>
    BY <1>1, <1>4, StoreEffects DEF UpdateReplace
  <2>2. QED
    BY <1>1, <2>1, AllIdle DEF PendingUntilTold
<1>5. CASE UpdateRefused
  BY <1>1, <1>5, AllIdle DEF UpdateRefused, PendingUntilTold
<1>6. CASE UpdateSaved
  BY <1>1, <1>6, AllIdle, FlushJournal DEF UpdateSaved, PendingUntilTold
<1>7. CASE UpdateSaveFails
  <2>1. /\ update.pc # "idle" /\ task' = task /\ mem'.pending = mem.pending
        /\ UNCHANGED <<disk, history>>
    BY <1>1, <1>7, StoreEffects DEF UpdateSaveFails
  <2>2. QED
    BY <1>1, <2>1, AllIdle DEF PendingUntilTold
<1>8. QED
  BY <1>2, <1>3, <1>4, <1>5, <1>6, <1>7 DEF UpdateStep

\* A step of the editor or of the phone, and a restart, keep the invariant.
LEMMA JournalEdit ==
  ASSUME JournalInv, EditProgram \/ EditLost \/ EditSaved \/ EditSaveFails \/ PhoneEdit \/ Restart
  PROVE  PendingUntilTold' /\ \A q \in Restorers : Journaled(q)'
<1> USE DEF history
<1>1. /\ mem \in Stores /\ disk \in Stores
      /\ PendingUntilTold /\ \A q \in Restorers : Journaled(q)
  BY DEF JournalInv, TypeOK
<1>2. CASE EditProgram
  <2>1. UNCHANGED <<disk, task, history>> /\ mem'.pending = mem.pending
    <3>1. mem' = [mem EXCEPT !.programs = Logical(ctl')] \/ mem' = mem
      BY <1>2 DEF EditProgram
    <3> DEFINE programs == Logical(ctl')
    <3>2. [mem EXCEPT !.programs = programs].pending = mem.pending
      <4> HIDE DEF programs
      <4>1. QED
        BY <1>1, StoreEffects
    <3>3. mem'.pending = mem.pending
      BY <3>1, <3>2
    <3>4. QED
      BY <1>2, <3>3 DEF EditProgram
  <2>2. mem.programs # None => mem' = mem /\ queued' = queued
    BY <1>2 DEF EditProgram, FirstBackup
  <2>3. QED
    BY <1>1, <2>1, <2>2 DEF PendingUntilTold, Journaled
<1>3. CASE EditLost \/ PhoneEdit
  BY <1>1, <1>3 DEF EditLost, PhoneEdit, PendingUntilTold, Journaled
<1>4. CASE EditSaved
  <2>1. Flush /\ UNCHANGED <<mem, task, history>>
    BY <1>4 DEF EditSaved
  <2>2. ASSUME NEW q \in Restorers PROVE Journaled(q)'
    BY <1>1, <2>1, FlushJournal, ConstantsAssumption DEF Journaled
  <2>3. QED
    BY <1>1, <2>1, <2>2, FlushJournal DEF PendingUntilTold
<1>5. CASE EditSaveFails
  <2>1. ASSUME NEW q \in Restorers PROVE queued # q
    BY <1>5, ConstantsAssumption DEF EditSaveFails, FlushFails
  <2>2. UNCHANGED <<mem, disk, task, history>>
    BY <1>5 DEF EditSaveFails
  <2>3. QED
    BY <1>1, <2>1, <2>2 DEF PendingUntilTold, Journaled
<1>6. CASE Restart
  <2>1. mem'.pending = disk.pending /\ disk'.pending = disk.pending /\ history' = history
    BY <1>1, <1>6, LoadedType DEF Restart
  <2>2. \A q \in Restorers : task'[q].pc = "idle"
    BY <1>6 DEF Restart, IdleTask
  <2>3. QED
    BY <1>1, <2>1, <2>2 DEF PendingUntilTold, Journaled
<1>7. QED
  BY <1>2, <1>3, <1>4, <1>5, <1>6

\* One operation at a time: the steps that begin an operation wait for the
\* others, and no other step wakes a restore or a read.
LEMMA SerialStep == TypeOK /\ Serial /\ SerialNext => Next /\ Serial'
<1> SUFFICES ASSUME TypeOK, Serial, SerialNext PROVE Next /\ Serial'
  OBVIOUS
<1> USE DEF Others, RestoreSide, UpdateSide
<1>1. Next
  BY DEF SerialNext, Next, StartAlone, RefreshAlone, UpdateAlone
<1>2. task \in [Restorers -> TaskType]
  BY DEF TypeOK
<1>3. ASSUME NEW r \in Restorers, NEW t, task' = [task EXCEPT ![r] = t],
             Active(r) \/ (NoRestore /\ refresh.pc = "idle" /\ update.pc = "idle"),
             UNCHANGED <<refresh, update>>
      PROVE  Serial'
  <2>1. refresh'.pc = "idle" /\ update'.pc = "idle"
    BY <1>3 DEF Serial
  <2>2. \A q \in Restorers : q # r => task'[q].pc = "idle"
    BY <1>2, <1>3 DEF Serial, Active, NoRestore
  <2>3. QED
    BY <2>1, <2>2 DEF Serial, Active
<1>4. ASSUME NEW r \in Restorers, StartAlone(r)
      PROVE  Serial'
  <2>1. PICK t : task' = [task EXCEPT ![r] = t]
    BY <1>4 DEF StartAlone, StartRestore
  <2>2. QED
    BY <1>3, <1>4, <2>1 DEF StartAlone, StartRestore
<1>5. ASSUME NEW r \in Restorers, RestoreStep(r) \/ CancelRestore(r)
      PROVE  Serial'
  <2>1. Active(r) /\ UNCHANGED <<refresh, update>>
    BY <1>5 DEF RestoreStep, CancelRestore, Active, ReadBefore, RestoreRefused,
       SettleEarlier, PlanRefused, PlanNothing, BeginRestore, Preflight, AbortRestore,
       OpenMutation, WriteBlock, LoseWrite, ReadBack, FinishRestore, Saved, SaveFails,
       Planning, AfterSave
  <2>2. \E t : task' = [task EXCEPT ![r] = t]
    BY <1>5 DEF RestoreStep, CancelRestore, Goto, Leave, ReadBefore, RestoreRefused,
       SettleEarlier, PlanRefused, PlanNothing, BeginRestore, Preflight, AbortRestore,
       OpenMutation, WriteBlock, LoseWrite, ReadBack, FinishRestore, Saved, SaveFails
  <2>3. QED
    BY <1>3, <2>1, <2>2
<1>6. ASSUME NoRestore \/ refresh.pc # "idle" \/ update.pc # "idle", task' = task
      PROVE  Serial'
  BY <1>6 DEF Serial, Active, NoRestore
<1>7. CASE RefreshAlone \/ RefreshStep
  BY <1>1, <1>6, <1>7 DEF RefreshAlone, RefreshRead, RefreshStep, RefreshSettle, RefreshAdopt,
     RefreshDone, RefreshSaved, RefreshSaveFails, Noting
<1>8. CASE UpdateAlone \/ UpdateStep
  BY <1>1, <1>6, <1>8 DEF UpdateAlone, StartUpdate, UpdateStep, UpdateRead, UpdateReplace,
     UpdateRefused, UpdateSaved, UpdateSaveFails
<1>9. CASE EditProgram \/ EditLost \/ EditSaved \/ EditSaveFails \/ PhoneEdit
  <2>1. UNCHANGED <<task, refresh, update>>
    BY <1>9 DEF EditProgram, EditLost, EditSaved, EditSaveFails, PhoneEdit
  <2>2. QED
    BY <1>1, <2>1 DEF Serial, Active
<1>10. CASE Restart
  BY <1>1, <1>10 DEF Restart, Serial, Active, IdleTask
<1>11. QED
  BY <1>1, <1>4, <1>5, <1>7, <1>8, <1>9, <1>10 DEF SerialNext

\* The journal invariant is inductive for one operation at a time.
LEMMA JournalNext == JournalInv /\ [SerialNext]_vars => JournalInv'
<1> SUFFICES ASSUME JournalInv, [SerialNext]_vars PROVE JournalInv'
  OBVIOUS
<1>1. CASE SerialNext
  <2>1. Next /\ Serial'
    BY <1>1, SerialStep DEF JournalInv
  <2>2. TypeOK'
    BY <2>1, TypeNext DEF JournalInv
  <2>3. PendingUntilTold' /\ \A q \in Restorers : Journaled(q)'
    BY <2>1, JournalRestore, JournalRefresh, JournalUpdate, JournalEdit DEF Next
  <2>4. QED
    BY <2>1, <2>2, <2>3 DEF JournalInv
<1>2. CASE UNCHANGED vars
  <2>1. TypeOK'
    BY <1>2, TypeNext DEF JournalInv
  <2>2. QED
    BY <1>2, <2>1 DEF JournalInv, vars, history, Serial, Active, PendingUntilTold, Journaled, Entry
<1>3. QED
  BY <1>1, <1>2

LEMMA JournalInit == Init => JournalInv
<1> SUFFICES ASSUME Init PROVE JournalInv
  OBVIOUS
<1>1. \A q \in Restorers : task[q].pc = "idle"
  BY DEF Init, IdleTask
<1>2. PendingUntilTold /\ Serial /\ \A q \in Restorers : Journaled(q)
  BY <1>1 DEF Init, PendingUntilTold, Serial, Active, Journaled
<1>3. QED
  BY <1>2, TypeInit DEF JournalInv

LEMMA JournalHolds == SerialSpec => []JournalInv
<1>1. QED
  BY JournalInit, JournalNext, PTL DEF SerialSpec

\* README: "the backup status remains pending until a fresh complete read can
\* safely reconcile the outcome". As long as one operation runs at a time and no
\* retry's entry has taken the mark away with it, a mutation whose outcome no
\* read has told keeps an entry pending, in memory and in the file; and the
\* entry under which frames were sent is the same in both.
THEOREM MarkStays == SerialSpec => []PendingUntilTold
<1>1. JournalInv => PendingUntilTold
  BY DEF JournalInv
<1>2. QED
  BY <1>1, JournalHolds, PTL

\* As long as one operation runs at a time, no frame is sent unless the file
\* holds the journal of the very mutation it belongs to.
THEOREM JournaledBeforeWrite == SerialSpec => []WriteIsJournaled
<1>1. JournalInv => WriteIsJournaled
  BY DEF JournalInv, Journaled, Entry, WriteIsJournaled
<1>2. QED
  BY <1>1, JournalHolds, PTL

-----------------------------------------------------------------------------
(* The store file implements the write-ahead journal.                      *)

\* Only the end of a save changes the journal in the file, and it neither
\* touches the controller nor learns anything.
LEMMA FlushRewrites ==
  ASSUME JournalInv, Flush, UNCHANGED <<mem, ctl, history>>
  PROVE  [Journal!Next]_(Journal!vars)
<1>1. disk'.pending = mem.pending \/ disk' = disk
  BY FlushJournal
<1>2. mem.pending \in Journals \cup {None}
  BY StoreFields DEF JournalInv, TypeOK
<1>3. disk.pending \in Journals \cup {None}
  BY StoreFields DEF JournalInv, TypeOK
<1>4. CASE mem.pending \in unsettled
  <2>1. disk'.pending = disk.pending
    BY <1>1, <1>4 DEF JournalInv, PendingUntilTold
  <2>2. Dirty' = Dirty
    BY <2>1 DEF Dirty, history
  <2> QED
    BY <2>1, <2>2 DEF Journal!vars
<1>5. CASE mem.pending \notin unsettled
  <2>1. PendingUntilTold
    BY DEF JournalInv
  <2>2. ~Dirty
    BY <1>5, <2>1 DEF Dirty, PendingUntilTold
  <2>3. CASE disk' = disk
    BY <2>3 DEF Dirty, Journal!vars, history
  <2>4. CASE disk'.pending = mem.pending
    <3>1. ~Dirty'
      BY <1>5, <2>4 DEF Dirty, history
    <3> QED
      BY <1>2, <2>2, <2>4, <3>1 DEF Dirty, Journal!Next, Journal!Rewrite
  <2> QED
    BY <1>1, <2>3, <2>4
<1>6. QED
  BY <1>4, <1>5

\* A step that leaves the file alone and tells an outcome, or nothing.
LEMMA MemoryLearns ==
  ASSUME JournalInv', UNCHANGED <<disk, ctl>>,
         (mem'.pending = mem.pending /\ history' = history) \/ mem'.pending \notin unsettled'
  PROVE  [Journal!Next]_(Journal!vars)
<1>1. Dirty' = FALSE \/ Dirty' = Dirty
  BY DEF Dirty, history, JournalInv, PendingUntilTold
<1> QED
  BY <1>1 DEF Journal!vars, Journal!Next, Journal!Learn

\* A step that only changes the controller.
LEMMA DeviceTouched ==
  ASSUME UNCHANGED <<disk, history>>, mem'.pending = mem.pending, ctl' \in Snapshots
  PROVE  [Journal!Next]_(Journal!vars)
BY DEF Dirty, history, Journal!vars, Journal!Next, Journal!Touch

\* Every step of the program is a step of the journal, or none.
LEMMA JournalStep ==
  JournalInv /\ JournalInv' /\ [SerialNext]_vars => [Journal!Next]_(Journal!vars)
<1> SUFFICES ASSUME JournalInv, JournalInv', [Next]_vars
             PROVE  [Journal!Next]_(Journal!vars)
  BY SerialStep DEF JournalInv
<1> USE DEF Others, RestoreSide, UpdateSide, history
<1>1. ctl' \in Snapshots /\ unsettled' \subseteq Journals /\ None \notin unsettled'
  BY NoneIsNoEntry DEF JournalInv, TypeOK
<1>0. mem \in Stores
  BY DEF JournalInv, TypeOK
<1>2. ASSUME NEW r \in Restorers, StartRestore(r) \/ RestoreStep(r) \/ CancelRestore(r)
      PROVE  [Journal!Next]_(Journal!vars)
  <2>1. CASE StartRestore(r) \/ CancelRestore(r)
    BY <2>1, MemoryLearns DEF StartRestore, CancelRestore
  <2>2. CASE ReadBefore(r) \/ RestoreRefused(r) \/ PlanRefused(r)
    BY <2>2, MemoryLearns DEF ReadBefore, RestoreRefused, PlanRefused
  <2>3. CASE Preflight(r) \/ ReadBack(r) \/ SaveFails(r)
    BY <2>3, MemoryLearns DEF Preflight, ReadBack, SaveFails
  <2>4. CASE SettleEarlier(r) \/ PlanNothing(r) \/ AbortRestore(r) \/ FinishRestore(r)
    <3>0. /\ Reconciled(mem, task[r].before).pending = None
          /\ \A x : Finished(mem, x).pending = None
          /\ Aborted(mem).pending = None
      BY <1>0, StoreEffects DEF Reconciled, Stores
    <3>1. mem'.pending = None
      BY <2>4, <3>0 DEF SettleEarlier, PlanNothing, AbortRestore, FinishRestore
    <3>2. UNCHANGED <<disk, ctl>>
      BY <2>4 DEF SettleEarlier, PlanNothing, AbortRestore, FinishRestore
    <3> QED
      BY <1>1, <3>1, <3>2, MemoryLearns
  <2>5. CASE OpenMutation(r)
    <3>1. /\ disk.pending = mem.pending /\ mem.pending = Entry(task[r])
          /\ mem' = mem /\ disk' = disk /\ ctl' = ctl
          /\ unsettled' = unsettled \cup {Entry(task[r])} /\ forgotten' = FALSE
      BY <2>5 DEF OpenMutation, JournalInv, Journaled
    <3>2. Dirty' = TRUE /\ disk.pending # None
      BY <1>1, <3>1 DEF Dirty
    <3>3. QED
      BY <3>1, <3>2 DEF Journal!vars, Journal!Next, Journal!Begin
  <2>6. CASE WriteBlock(r) \/ LoseWrite(r)
    BY <1>1, <2>6, DeviceTouched DEF WriteBlock, LoseWrite
  <2>7. CASE Saved(r)
    BY <2>7, FlushRewrites DEF Saved
  <2>9. CASE BeginRestore(r)
    <3> DEFINE entry == [before |-> task[r].before,
                         expected |-> Patched(task[r].before, task[r].programs)]
    <3>1. /\ mem' = [mem EXCEPT !.pending = entry] /\ UNCHANGED <<disk, ctl>>
          /\ unsettled' = {j \in unsettled : ~Settles(j, task[r].before)}
      BY <2>9 DEF BeginRestore, Told
    <3>2. Settles(entry, task[r].before)
      BY DEF Settles
    <3> HIDE DEF entry
    <3>3. mem'.pending = entry
      BY <1>0, <3>1, StoreEffects
    <3> QED
      BY <3>1, <3>2, <3>3, MemoryLearns
  <2>8. QED
    BY <1>2, <2>1, <2>2, <2>3, <2>4, <2>5, <2>6, <2>7, <2>9 DEF RestoreStep
<1>3. CASE RefreshRead \/ RefreshStep
  <2>1. CASE RefreshSaved
    BY <2>1, FlushRewrites DEF RefreshSaved
  <2>2. CASE RefreshSettle
    <3>1. mem'.pending = None
      BY <1>0, <2>2 DEF RefreshSettle, RefreshSettles, Reconciled, Stores
    <3> QED
      BY <1>1, <2>2, <3>1, MemoryLearns DEF RefreshSettle
  <2>3. CASE RefreshAdopt
    <3>1. mem'.pending = mem.pending
      BY <1>0, <2>3, StoreEffects DEF RefreshAdopt
    <3> QED
      BY <2>3, <3>1, MemoryLearns DEF RefreshAdopt
  <2>4. CASE RefreshRead \/ RefreshDone \/ RefreshSaveFails
    BY <2>4, MemoryLearns DEF RefreshRead, RefreshDone, RefreshSaveFails
  <2>5. QED
    BY <1>3, <2>1, <2>2, <2>3, <2>4 DEF RefreshStep
<1>4. CASE StartUpdate \/ UpdateStep
  <2>1. CASE UpdateSaved
    BY <2>1, FlushRewrites DEF UpdateSaved
  <2>2. CASE UpdateReplace \/ UpdateSaveFails
    <3>0. PICK p, x : mem' = [mem EXCEPT !.programs = p, !.snapshot = x]
      BY <2>2 DEF UpdateReplace, UpdateSaveFails
    <3>1. mem'.pending = mem.pending
      BY <1>0, <3>0, StoreEffects
    <3> QED
      BY <2>2, <3>1, MemoryLearns DEF UpdateReplace, UpdateSaveFails
  <2>3. CASE StartUpdate \/ UpdateRead \/ UpdateRefused
    BY <2>3, MemoryLearns DEF StartUpdate, UpdateRead, UpdateRefused
  <2>4. QED
    BY <1>4, <2>1, <2>2, <2>3 DEF UpdateStep
<1>5. CASE EditProgram
  <2> DEFINE programs == Logical(ctl')
  <2>1. mem' = [mem EXCEPT !.programs = programs] \/ mem' = mem
    BY <1>5 DEF EditProgram
  <2> HIDE DEF programs
  <2>3. [mem EXCEPT !.programs = programs].pending = mem.pending
    BY <1>0, StoreEffects
  <2>2. mem'.pending = mem.pending
    BY <2>1, <2>3
  <2> QED
    BY <1>1, <1>5, <2>2, DeviceTouched DEF EditProgram
<1>11. CASE EditLost \/ PhoneEdit
  BY <1>1, <1>11, DeviceTouched DEF EditLost, PhoneEdit
<1>6. CASE EditSaved
  BY <1>6, FlushRewrites DEF EditSaved
<1>7. CASE EditSaveFails
  BY <1>7, MemoryLearns DEF EditSaveFails
<1>8. CASE Restart
  <2>1. /\ disk'.pending = disk.pending /\ mem'.pending = disk.pending
        /\ UNCHANGED <<ctl, unsettled, forgotten>>
    BY <1>8, LoadedType DEF Restart, JournalInv, TypeOK
  <2>2. CASE disk.pending \in unsettled /\ ~forgotten
    <3>1. Dirty' = TRUE /\ disk.pending # None
      BY <1>1, <2>1, <2>2 DEF Dirty
    <3> QED
      BY <2>1, <3>1 DEF Journal!vars, Journal!Next, Journal!Begin
  <2>3. CASE ~(disk.pending \in unsettled /\ ~forgotten)
    <3>1. Dirty' = FALSE /\ Dirty = FALSE
      BY <2>1, <2>3 DEF Dirty
    <3> QED
      BY <2>1, <3>1 DEF Journal!vars
  <2>4. QED
    BY <2>2, <2>3
<1>9. CASE UNCHANGED vars
  BY <1>9 DEF vars, Dirty, Journal!vars
<1>10. QED
  BY <1>2, <1>3, <1>4, <1>5, <1>6, <1>7, <1>8, <1>9, <1>11 DEF Next

\* As long as one operation runs at a time, the store file is a write-ahead
\* journal for the programs in the controller.
THEOREM FileImplementsJournal == SerialSpec => ImplementsJournal
<1>1. Init => Journal!Init
  BY TypeInit, StoreFields DEF Init, TypeOK, Dirty, Journal!Init
<1>2. QED
  BY <1>1, JournalStep, JournalHolds, PTL DEF SerialSpec, ImplementsJournal, Journal!Spec

-----------------------------------------------------------------------------
(* Restores that overlap each other and everything else.  PlanInv is       *)
(* inductive under every interleaving.                                     *)

\* A backup put over a snapshot is read back as that backup, with the hidden
\* slots of the snapshot.
LEMMA PatchedDelivers ==
  ASSUME NEW s \in Snapshots, NEW p \in Backups
  PROVE  /\ Logical(Patched(s, p)) = p
         /\ \A x \in Hidden : Patched(s, p).blocks[x] = s.blocks[x]
<1>1. \A x \in Slots : Patched(s, p).blocks[x] = IF x \in Editable THEN p[x] ELSE s.blocks[x]
  BY DEF Patched, Snapshots
<1>2. Logical(Patched(s, p)) = [b \in Editable |-> p[b]]
  BY <1>1 DEF Logical, Slots
<1>3. [b \in Editable |-> p[b]] = p
  BY DEF Backups
<1>4. QED
  BY <1>1, <1>2, <1>3, ConstantsAssumption DEF Slots

\* A restore that moves on, with what it read and what it expects left as they
\* are, keeps its plan if it had one; so does one that leaves.
LEMMA PlanGoto ==
  ASSUME PlanInv, NEW r \in Restorers,
         \/ Leave(r)
         \/ \E pc : /\ Goto(r, pc)
                    /\ pc \in {"journaling", "preflight", "ready", "writing", "verified"} =>
                         task[r].pc \in {"journaling", "preflight", "ready", "writing", "verified"}
  PROVE  \A q \in Restorers : Planned(task'[q])
<1>1. CASE Leave(r)
  BY <1>1 DEF PlanInv, TypeOK, Leave, Planned, IdleTask
<1>2. ASSUME NEW pc, Goto(r, pc),
             pc \in {"journaling", "preflight", "ready", "writing", "verified"} =>
               task[r].pc \in {"journaling", "preflight", "ready", "writing", "verified"}
      PROVE  \A q \in Restorers : Planned(task'[q])
  <2>1. \A q \in Restorers \ {r} : task'[q] = task[q]
    BY <1>2 DEF PlanInv, TypeOK, Goto
  <2>2. task[r] \in TaskType /\ task'[r] = [task[r] EXCEPT !.pc = pc]
    BY <1>2 DEF PlanInv, TypeOK, Goto
  <2>3. /\ task'[r].pc = pc
        /\ task'[r].expected = task[r].expected
        /\ task'[r].before = task[r].before
        /\ task'[r].programs = task[r].programs
    BY <2>2 DEF TaskType
  <2>4. Planned(task'[r])
    BY <1>2, <2>3 DEF PlanInv, Planned
  <2>5. QED
    BY <2>1, <2>4 DEF PlanInv
<1>3. QED
  BY <1>1, <1>2

\* A step of a restore keeps every plan.
LEMMA PlanRestore ==
  ASSUME PlanInv, NEW r \in Restorers, StartRestore(r) \/ RestoreStep(r) \/ CancelRestore(r)
  PROVE  \A q \in Restorers : Planned(task'[q])
<1>1. CASE StartRestore(r)
  BY <1>1 DEF StartRestore, PlanInv, TypeOK, Planned, IdleTask
<1>2. CASE ReadBefore(r)
  BY <1>2 DEF ReadBefore, PlanInv, TypeOK, TaskType, Planned
<1>3. CASE RestoreRefused(r) \/ PlanRefused(r) \/ LoseWrite(r) \/ SaveFails(r) \/ CancelRestore(r)
  BY <1>3, PlanGoto DEF RestoreRefused, PlanRefused, LoseWrite, SaveFails, CancelRestore
<1>4. CASE SettleEarlier(r)
  BY <1>4 DEF SettleEarlier, PlanInv, TypeOK, TaskType, Planned
<1>5. CASE PlanNothing(r)
  BY <1>5, PlanGoto DEF PlanNothing
<1>6. CASE BeginRestore(r)
  <2> DEFINE e == Patched(task[r].before, task[r].programs)
             todo == {b \in Editable : e.blocks[b] # task[r].before.blocks[b]}
  <2>1. task' = [task EXCEPT ![r].pc = "journaling", ![r].expected = e, ![r].todo = todo]
    BY <1>6 DEF BeginRestore
  <2> HIDE DEF todo
  <2>2. \A q \in Restorers \ {r} : task'[q] = task[q]
    BY <2>1 DEF PlanInv, TypeOK
  <2>3. /\ task'[r].expected = e
        /\ task'[r].before = task[r].before
        /\ task'[r].programs = task[r].programs
    <3>1. task[r] \in TaskType
      BY DEF PlanInv, TypeOK
    <3>2. QED
      BY <2>1, <3>1 DEF PlanInv, TypeOK, TaskType
  <2>4. QED
    BY <2>2, <2>3 DEF PlanInv, Planned
<1>7. CASE Preflight(r)
  BY <1>7, PlanGoto DEF Preflight
<1>8. CASE AbortRestore(r)
  BY <1>8, PlanGoto DEF AbortRestore
<1>9. CASE OpenMutation(r)
  BY <1>9, PlanGoto DEF OpenMutation
<1>10. CASE WriteBlock(r)
  BY <1>10 DEF WriteBlock, PlanInv, TypeOK, TaskType, Planned
<1>11. CASE ReadBack(r)
  BY <1>11, PlanGoto DEF ReadBack
<1>12. CASE FinishRestore(r)
  BY <1>12, PlanGoto DEF FinishRestore
<1>13. CASE Saved(r)
  <2>1. CASE task[r].pc \in {"settling", "journaling"}
    BY <1>13, <2>1, PlanGoto DEF Saved, AfterSave
  <2>2. CASE task[r].pc \in {"finishing", "aborting"}
    BY <1>13, <2>2, PlanGoto DEF Saved, AfterSave
  <2>3. QED
    BY <1>13, <2>1, <2>2 DEF Saved, AfterSave
<1>14. QED
  BY <1>1, <1>2, <1>3, <1>4, <1>5, <1>6, <1>7, <1>8, <1>9, <1>10, <1>11, <1>12, <1>13
     DEF RestoreStep

\* Nobody else touches a restore, but a restart, which ends it.
LEMMA PlanNext == PlanInv /\ [Next]_vars => PlanInv'
<1> SUFFICES ASSUME PlanInv, [Next]_vars PROVE \A q \in Restorers : Planned(task'[q])
  BY TypeNext DEF PlanInv
<1>1. ASSUME NEW r \in Restorers, StartRestore(r) \/ RestoreStep(r) \/ CancelRestore(r)
      PROVE  \A q \in Restorers : Planned(task'[q])
  BY <1>1, PlanRestore
<1>2. CASE task' = task
  BY <1>2 DEF PlanInv
<1>3. CASE RefreshRead \/ RefreshStep
  BY <1>2, <1>3 DEF RefreshRead, RefreshStep, RefreshSettle, RefreshAdopt, RefreshDone,
                    RefreshSaved, RefreshSaveFails, RestoreSide
<1>4. CASE StartUpdate \/ UpdateStep
  BY <1>2, <1>4 DEF StartUpdate, UpdateStep, UpdateRead, UpdateReplace, UpdateRefused,
                    UpdateSaved, UpdateSaveFails, UpdateSide
<1>5. CASE EditProgram \/ EditLost \/ EditSaved \/ EditSaveFails \/ PhoneEdit
  BY <1>2, <1>5 DEF EditProgram, EditLost, EditSaved, EditSaveFails, PhoneEdit
<1>6. CASE Restart
  BY <1>6 DEF Restart, Planned, IdleTask
<1>7. CASE UNCHANGED vars
  BY <1>2, <1>7 DEF vars
<1>8. QED
  BY <1>1, <1>3, <1>4, <1>5, <1>6, <1>7 DEF Next

LEMMA PlanHolds == Spec => []PlanInv
<1>1. Init => PlanInv
  BY TypeInit DEF Init, PlanInv, Planned, IdleTask
<1>2. QED
  BY <1>1, PlanNext, PTL DEF Spec

\* A plan that is read back delivers the backup.
LEMMA PlanDelivers ==
  ASSUME PlanInv, NEW r \in Restorers, NEW s \in Snapshots,
         task[r].before \in Snapshots, task[r].programs \in Backups,
         s = Patched(task[r].before, task[r].programs)
  PROVE  Delivered(r, s)
BY PatchedDelivers DEF Delivered

\* The only steps of a restore that report success are its readback and its
\* finding that nothing is to be done, and both have compared.
LEMMA SuccessStep ==
  ASSUME PlanInv, [Next]_vars, NEW r \in Restorers
  PROVE  /\ task[r].pc = "writing" /\ task'[r].pc = "verified" => Delivered(r, ctl)
         /\ task[r].pc \in {"read", "planning"} /\ task'[r].pc = "finishing"
              => Delivered(r, task[r].before)
<1> DEFINE Reports == \/ task[r].pc = "writing" /\ task'[r].pc = "verified"
                      \/ task[r].pc \in {"read", "planning"} /\ task'[r].pc = "finishing"
<1> SUFFICES ASSUME Reports
             PROVE  /\ task[r].pc = "writing" => Delivered(r, ctl)
                    /\ task[r].pc \in {"read", "planning"} => Delivered(r, task[r].before)
  OBVIOUS
<1>1. /\ task \in [Restorers -> TaskType] /\ task[r] \in TaskType /\ ctl \in Snapshots
      /\ task[r].before \in Snapshots /\ task[r].programs \in Backups
  BY DEF PlanInv, TypeOK, TaskOK, TaskType
<1>2. task'[r] # task[r]
  OBVIOUS
<1>3. ReadBack(r) \/ PlanNothing(r)
  <2>1. ASSUME NEW q \in Restorers, StartRestore(q) \/ RestoreStep(q) \/ CancelRestore(q)
        PROVE  ReadBack(r) \/ PlanNothing(r)
    <3>1. CASE StartRestore(q)
      BY <1>1, <3>1 DEF StartRestore, Active, IdleTask
    <3>2. CASE ReadBefore(q) \/ SettleEarlier(q) \/ BeginRestore(q) \/ WriteBlock(q)
      BY <1>1, <3>2 DEF ReadBefore, SettleEarlier, BeginRestore, WriteBlock, TaskType
    <3>3. CASE RestoreRefused(q) \/ PlanRefused(q) \/ LoseWrite(q) \/ SaveFails(q) \/ CancelRestore(q)
      BY <1>1, <3>3 DEF RestoreRefused, PlanRefused, LoseWrite, SaveFails, CancelRestore, Leave, IdleTask
    <3>4. CASE Preflight(q) \/ AbortRestore(q) \/ OpenMutation(q) \/ FinishRestore(q)
      BY <1>1, <3>4 DEF Preflight, AbortRestore, OpenMutation, FinishRestore, Goto, TaskType
    <3>5. CASE Saved(q)
      BY <1>1, <3>5 DEF Saved, AfterSave, Goto, Leave, IdleTask, TaskType
    <3>6. CASE ReadBack(q) \/ PlanNothing(q)
      BY <1>1, <1>2, <3>6 DEF ReadBack, PlanNothing, Goto
    <3>7. QED
      BY <2>1, <3>1, <3>2, <3>3, <3>4, <3>5, <3>6 DEF RestoreStep
  <2>2. CASE RefreshRead \/ RefreshStep
    BY <1>2, <2>2 DEF RefreshRead, RefreshStep, RefreshSettle, RefreshAdopt, RefreshDone,
                      RefreshSaved, RefreshSaveFails, RestoreSide
  <2>3. CASE StartUpdate \/ UpdateStep
    BY <1>2, <2>3 DEF StartUpdate, UpdateStep, UpdateRead, UpdateReplace, UpdateRefused,
                      UpdateSaved, UpdateSaveFails, UpdateSide
  <2>4. CASE EditProgram \/ EditLost \/ EditSaved \/ EditSaveFails \/ PhoneEdit
    BY <1>2, <2>4 DEF EditProgram, EditLost, EditSaved, EditSaveFails, PhoneEdit
  <2>5. CASE Restart
    BY <2>5 DEF Restart, IdleTask
  <2>6. CASE UNCHANGED vars
    BY <1>2, <2>6 DEF vars
  <2>7. QED
    BY <2>1, <2>2, <2>3, <2>4, <2>5, <2>6 DEF Next
<1>4. CASE ReadBack(r)
  <2>1. ctl = Patched(task[r].before, task[r].programs) /\ task[r].pc = "writing"
    BY <1>4 DEF ReadBack, PlanInv, Planned
  <2>2. QED
    BY <1>1, <2>1, PlanDelivers
<1>5. CASE PlanNothing(r)
  <2>1. task[r].before = Patched(task[r].before, task[r].programs) /\ task[r].pc # "writing"
    BY <1>5 DEF PlanNothing, Planning
  <2>2. QED
    BY <1>1, <2>1, PlanDelivers
<1>6. QED
  BY <1>3, <1>4, <1>5

\* Whatever overlaps, other restores included: one that reports success has
\* read back the backup it copied at its start, and the hidden slots it found.
THEOREM SuccessDelivers == Spec => SuccessMeansRestored
<1>1. ASSUME PlanInv, [Next]_vars
      PROVE  [\A r \in Restorers :
                /\ task[r].pc = "writing" /\ task'[r].pc = "verified" => Delivered(r, ctl)
                /\ task[r].pc \in {"read", "planning"} /\ task'[r].pc = "finishing"
                     => Delivered(r, task[r].before)]_vars
  BY <1>1, SuccessStep
<1>2. QED
  BY <1>1, PlanHolds, PTL DEF Spec, SuccessMeansRestored

-----------------------------------------------------------------------------
(* The protected backup.  BackupInv is inductive for one operation at a    *)
(* time.                                                                   *)

\* The snapshot s stands for the backup programs, or that one is past encoding.
Agrees(programs, s) ==
  programs # None /\ s # None => Logical(s) = programs \/ ~Encodable(programs)

\* A store has nothing without a backup, and what it has, and what the restore
\* it waits for will leave it, stands for that backup.
Sound(m) ==
  /\ m.programs = None => m.snapshot = None /\ m.pending = None
  /\ Agrees(m.programs, m.snapshot)
  /\ m.pending # None => Agrees(m.programs, m.pending.expected)

\* A restore works for the backup in memory; an update, which runs alone, has
\* replaced a sound backup by a useful one; and the file's backup is the one in
\* memory, or still the replaced one.
Protected ==
  /\ Sound(mem) /\ Sound(disk)
  /\ \A r \in Restorers : Active(r) => task[r].programs = mem.programs
  /\ update.pc # "idle" => refresh.pc = "idle"
  /\ update.pc = "saving" => /\ mem.programs # None /\ Scheduled(mem.programs)
                             /\ mem.pending = None
                             /\ Sound(update.old)
  /\ disk.programs # None =>
       disk.programs = IF update.pc = "saving" /\ queued = "update"
                       THEN update.old.programs ELSE mem.programs

BackupInv == JournalInv /\ Protected

LEMMA PatchedLogical ==
  ASSUME NEW s \in Snapshots, NEW p \in Backups
  PROVE  Logical(Patched(s, p)) = p
BY DEF Logical, Patched, Snapshots, Backups, Slots

LEMMA LogicalScheduled ==
  ASSUME NEW s \in Snapshots
  PROVE  Scheduled(Logical(s)) <=> Scheduled(s.blocks)
BY DEF Logical, Scheduled

\* A read that settles a journal, and an abort, keep a store sound.
LEMMA SettledSound ==
  ASSUME NEW m \in Stores, Sound(m), m.pending # None, NEW s \in Snapshots,
         Settles(m.pending, s)
  PROVE  Sound(Reconciled(m, s))
<1> DEFINE j == m.pending
           kept == IF m.snapshot = None THEN j.expected ELSE m.snapshot
           x == IF s = j.before /\ s # j.expected THEN kept ELSE s
<1>1. j \in Journals /\ m.programs # None /\ Agrees(m.programs, j.expected)
  BY DEF Sound, Stores
<1>2. Agrees(m.programs, x)
  <2>1. Agrees(m.programs, kept)
    BY <1>1 DEF Sound
  <2>2. CASE s = j.before /\ s # j.expected
    BY <2>1, <2>2
  <2>3. CASE s = j.expected
    BY <1>1, <2>3
  <2>4. CASE DiffersOnlyByDate(s, j.expected) /\ s # j.before
    <3>1. Logical(s) = Logical(j.expected)
      BY <2>4 DEF DiffersOnlyByDate, Logical
    <3>2. j.expected # None
      BY <1>1, ConstantsAssumption DEF Journals
    <3> QED
      BY <1>1, <2>4, <3>1, <3>2 DEF Agrees
  <2> QED
    BY <2>2, <2>3, <2>4 DEF Settles
<1>3. Reconciled(m, s) = [m EXCEPT !.pending = None, !.snapshot = x]
  BY DEF Reconciled, Stores
<1> HIDE DEF x, j, kept
<1>4. /\ Reconciled(m, s).programs = m.programs /\ Reconciled(m, s).snapshot = x
      /\ Reconciled(m, s).pending = None
  BY <1>3 DEF Stores
<1> QED
  BY <1>1, <1>2, <1>4 DEF Sound

LEMMA AbortedSound ==
  ASSUME NEW m \in Stores, Sound(m)
  PROVE  Sound(Aborted(m))
<1>1. /\ Aborted(m).programs = m.programs /\ Aborted(m).snapshot = m.snapshot
      /\ Aborted(m).pending = None
  BY DEF Aborted, Stores
<1> QED
  BY <1>1 DEF Sound

\* A snapshot that stands for the backup may become the store's, or be waited for.
LEMMA FinishedSound ==
  ASSUME NEW m \in Stores, m.programs # None, NEW s, Agrees(m.programs, s)
  PROVE  Sound(Finished(m, s))
<1>1. /\ Finished(m, s).programs = m.programs /\ Finished(m, s).snapshot = s
      /\ Finished(m, s).pending = None
  BY DEF Finished, Stores
<1> QED
  BY <1>1 DEF Sound

LEMMA PendingSound ==
  ASSUME NEW m \in Stores, Sound(m), m.programs # None, NEW j, Agrees(m.programs, j.expected)
  PROVE  Sound([m EXCEPT !.pending = j])
<1>1. /\ [m EXCEPT !.pending = j].programs = m.programs
      /\ [m EXCEPT !.pending = j].snapshot = m.snapshot
      /\ [m EXCEPT !.pending = j].pending = j
  BY DEF Stores
<1> QED
  BY <1>1 DEF Sound

\* A first backup comes into a store that has nothing yet.
LEMMA AdoptedSound ==
  ASSUME NEW m \in Stores, Sound(m), m.programs = None, NEW p
  PROVE  Sound([m EXCEPT !.programs = p])
<1>1. /\ [m EXCEPT !.programs = p].programs = p
      /\ [m EXCEPT !.programs = p].snapshot = m.snapshot
      /\ [m EXCEPT !.programs = p].pending = m.pending
  BY DEF Stores
<1> QED
  BY <1>1 DEF Sound, Agrees

\* async_load leaves a sound store, also of a file an earlier release has left.
LEMMA LoadedSound ==
  ASSUME NEW file \in Stores,
         Sound(file) \/ (file.pending = None /\ file.programs # None)
  PROVE  Sound(Loaded(file)) /\ Loaded(file).programs = file.programs
<1> DEFINE Mixed == /\ file.pending = None /\ file.snapshot # None /\ file.programs # None
                    /\ \A b \in Editable : \/ file.programs[b] = file.snapshot.blocks[b]
                                           \/ file.programs[b] \notin Unencodable
<1>1. CASE Mixed
  <2> DEFINE s == Patched(file.snapshot, file.programs)
  <2>1. file.snapshot \in Snapshots /\ file.programs \in Backups
    BY <1>1 DEF Stores
  <2>2. Logical(s) = file.programs
    BY <2>1, PatchedLogical
  <2>3. Loaded(file) = [file EXCEPT !.snapshot = s]
    BY <1>1 DEF Loaded
  <2> HIDE DEF s
  <2>4. /\ Loaded(file).programs = file.programs /\ Loaded(file).snapshot = s
        /\ Loaded(file).pending = None
    BY <1>1, <2>3 DEF Stores
  <2> QED
    BY <1>1, <2>2, <2>4 DEF Sound, Agrees
<1>2. CASE ~Mixed
  <2>1. Loaded(file) = file
    BY <1>2 DEF Loaded
  <2>2. CASE Sound(file)
    BY <2>1, <2>2
  <2>3. CASE file.pending = None /\ file.programs # None
    <3>1. ASSUME file.snapshot # None PROVE ~Encodable(file.programs)
      BY <1>2, <2>3, <3>1 DEF Encodable
    <3> QED
      BY <2>1, <2>3, <3>1 DEF Sound, Agrees
  <2> QED
    BY <2>2, <2>3
<1> QED
  BY <1>1, <1>2

\* A restore leaves the backup as it is, and the store sound.
LEMMA BackupRestore ==
  ASSUME BackupInv, NEW r \in Restorers,
         StartAlone(r) \/ RestoreStep(r) \/ CancelRestore(r)
  PROVE  /\ update.pc = "idle" /\ refresh.pc = "idle" /\ UNCHANGED <<update, refresh>>
         /\ mem'.programs = mem.programs /\ Sound(mem')
         /\ disk' = disk \/ disk' = mem
         /\ \A q \in Restorers : task'[q].pc # "idle" => task'[q].programs = mem.programs
<1> USE DEF Others
<1>1. /\ mem \in Stores /\ task \in [Restorers -> TaskType] /\ task[r] \in TaskType
      /\ Serial /\ Sound(mem) /\ Journaled(r)
      /\ \A q \in Restorers : task[q].pc # "idle" => task[q].programs = mem.programs
  BY DEF BackupInv, Protected, JournalInv, TypeOK, Active
<1>2. ASSUME Active(r)
      PROVE  /\ update.pc = "idle" /\ refresh.pc = "idle"
             /\ mem.programs # None /\ task[r].programs = mem.programs
             /\ mem.programs \in Backups
  BY <1>1, <1>2 DEF Serial, Active, Journaled, Stores
<1>3. ASSUME NEW t, task' = [task EXCEPT ![r] = t],
             t.pc # "idle" => t.programs = mem.programs
      PROVE  \A q \in Restorers : task'[q].pc # "idle" => task'[q].programs = mem.programs
  BY <1>1, <1>3
<1>4. ASSUME Leave(r)
      PROVE  \A q \in Restorers : task'[q].pc # "idle" => task'[q].programs = mem.programs
  BY <1>3, <1>4 DEF Leave, IdleTask
<1>5. ASSUME NEW pc, Goto(r, pc), Active(r)
      PROVE  \A q \in Restorers : task'[q].pc # "idle" => task'[q].programs = mem.programs
  <2>1. task' = [task EXCEPT ![r] = [task[r] EXCEPT !.pc = pc]]
    BY <1>5 DEF Goto
  <2>2. [task[r] EXCEPT !.pc = pc].programs = mem.programs
    BY <1>1, <1>2, <1>5 DEF TaskType
  <2> QED
    BY <1>3, <2>1, <2>2
<1>6. CASE StartAlone(r)
  <2>1. task' = [task EXCEPT ![r] = [IdleTask EXCEPT !.pc = "reading",
                   !.programs = mem.programs, !.resuming = mem.pending # None]]
    BY <1>6 DEF StartAlone, StartRestore
  <2>2. [IdleTask EXCEPT !.pc = "reading", !.programs = mem.programs,
                         !.resuming = mem.pending # None].programs = mem.programs
    BY DEF IdleTask
  <2> QED
    BY <1>1, <1>3, <1>6, <2>1, <2>2 DEF StartAlone, StartRestore
<1>7. CASE ReadBefore(r)
  <2> DEFINE t == [task[r] EXCEPT !.pc = "read", !.before = ctl]
  <2>1. task' = [task EXCEPT ![r] = t] /\ Active(r)
    BY <1>7 DEF ReadBefore, Active
  <2>2. t.programs = mem.programs
    BY <1>1, <1>2, <2>1 DEF TaskType
  <2> HIDE DEF t
  <2> QED
    BY <1>1, <1>2, <1>3, <1>7, <2>1, <2>2 DEF ReadBefore
<1>8. CASE RestoreRefused(r)
  BY <1>1, <1>2, <1>4, <1>8 DEF RestoreRefused, Active
<1>9. CASE SettleEarlier(r)
  <2> DEFINE t == [task[r] EXCEPT !.pc = "settling", !.resuming = FALSE]
  <2>1. task' = [task EXCEPT ![r] = t] /\ Active(r)
    BY <1>9 DEF SettleEarlier, Active
  <2>2. t.programs = mem.programs
    BY <1>1, <1>2, <2>1 DEF TaskType
  <2>3. task[r].before \in Snapshots
    BY <1>9 DEF SettleEarlier, BackupInv, JournalInv, TypeOK, TaskOK, TaskType
  <2>4. Sound(mem') /\ mem'.programs = mem.programs
    BY <1>1, <1>9, <2>3, SettledSound, ReconciledType DEF SettleEarlier, SettlingRead
  <2> HIDE DEF t
  <2> QED
    BY <1>1, <1>2, <1>3, <1>9, <2>1, <2>2, <2>4 DEF SettleEarlier
<1>10. CASE PlanRefused(r)
  BY <1>1, <1>2, <1>4, <1>10 DEF PlanRefused, Planning, Active
<1>11. CASE PlanNothing(r)
  <2>1. Active(r) /\ task[r].before \in Snapshots
    BY <1>11 DEF PlanNothing, Planning, Active, BackupInv, JournalInv, TypeOK, TaskOK, TaskType
  <2>2. Patched(task[r].before, mem.programs) = task[r].before
    BY <1>2, <1>11, <2>1 DEF PlanNothing
  <2>3. Agrees(mem.programs, task[r].before)
    BY <1>2, <2>1, <2>2, PatchedLogical DEF Agrees
  <2>4. Sound(mem') /\ mem'.programs = mem.programs
    BY <1>1, <1>2, <1>11, <2>1, <2>3, FinishedSound, StoreEffects DEF PlanNothing
  <2> QED
    BY <1>2, <1>5, <1>11, <2>1, <2>4 DEF PlanNothing
<1>12. CASE BeginRestore(r)
  <2> DEFINE before == task[r].before
             expected == Patched(before, task[r].programs)
             t == [task[r] EXCEPT !.pc = "journaling", !.expected = expected,
                     !.todo = {b \in Editable : expected.blocks[b] # before.blocks[b]}]
             j == [before |-> before, expected |-> expected]
  <2>1. /\ task' = [task EXCEPT ![r] = t] /\ Active(r)
        /\ mem' = [mem EXCEPT !.pending = j]
    BY <1>12 DEF BeginRestore, Planning, Active
  <2>2. t.programs = mem.programs
    BY <1>1, <1>2, <2>1 DEF TaskType
  <2>3. before \in Snapshots
    BY <1>12 DEF BeginRestore, Planning, BackupInv, JournalInv, TypeOK, TaskOK, TaskType
  <2>4. Agrees(mem.programs, j.expected)
    BY <1>2, <2>1, <2>3, PatchedLogical DEF Agrees
  <2> HIDE DEF t, j
  <2>5. Sound(mem') /\ mem'.programs = mem.programs
    BY <1>1, <1>2, <2>1, <2>4, PendingSound, StoreEffects
  <2> QED
    BY <1>2, <1>3, <1>12, <2>1, <2>2, <2>5 DEF BeginRestore
<1>13. CASE Preflight(r)
  BY <1>1, <1>2, <1>5, <1>13 DEF Preflight, Active
<1>14. CASE AbortRestore(r)
  <2>1. Active(r)
    BY <1>14 DEF AbortRestore, Active
  <2>2. Sound(mem') /\ mem'.programs = mem.programs
    BY <1>1, <1>14, AbortedSound, StoreEffects DEF AbortRestore
  <2> QED
    BY <1>2, <1>5, <1>14, <2>1, <2>2 DEF AbortRestore
<1>15. CASE OpenMutation(r)
  BY <1>1, <1>2, <1>5, <1>15 DEF OpenMutation, Active
<1>16. CASE WriteBlock(r)
  <2>1. Active(r)
    BY <1>16 DEF WriteBlock, Active
  <2>2. PICK b \in task[r].todo :
          task' = [task EXCEPT ![r] = [task[r] EXCEPT !.todo = @ \ {b}]]
    BY <1>16 DEF WriteBlock
  <2>3. [task[r] EXCEPT !.todo = @ \ {b}].programs = mem.programs
    BY <1>1, <1>2, <2>1 DEF TaskType
  <2> QED
    BY <1>1, <1>2, <1>3, <1>16, <2>1, <2>2, <2>3 DEF WriteBlock
<1>17. CASE LoseWrite(r)
  BY <1>1, <1>2, <1>4, <1>17 DEF LoseWrite, Active
<1>18. CASE ReadBack(r)
  BY <1>1, <1>2, <1>5, <1>18 DEF ReadBack, Active
<1>19. CASE FinishRestore(r)
  <2>1. Active(r) /\ mem.pending = [before |-> task[r].before, expected |-> task[r].expected]
    BY <1>1, <1>19 DEF FinishRestore, Active, Journaled, Entry
  <2>2. mem.pending # None
    BY <2>1, <1>1, <1>19, ConstantsAssumption DEF FinishRestore, BackupInv, JournalInv, TypeOK,
       TaskOK, TaskType, Journals, Stores
  <2>3. Agrees(mem.programs, task[r].expected)
    BY <1>1, <2>1, <2>2 DEF Sound
  <2>4. Sound(mem') /\ mem'.programs = mem.programs
    BY <1>1, <1>2, <1>19, <2>1, <2>3, FinishedSound, StoreEffects DEF FinishRestore
  <2> QED
    BY <1>2, <1>5, <1>19, <2>1, <2>4 DEF FinishRestore
<1>20. CASE Saved(r)
  <2>1. Active(r) /\ UNCHANGED <<mem, update, refresh>> /\ (disk' = disk \/ disk' = mem)
    BY <1>20 DEF Saved, AfterSave, Active, Flush
  <2>2. Leave(r) \/ \E pc : Goto(r, pc)
    BY <1>20 DEF Saved
  <2> QED
    BY <1>1, <1>2, <1>4, <1>5, <2>1, <2>2
<1>21. CASE SaveFails(r)
  BY <1>1, <1>2, <1>4, <1>21 DEF SaveFails, AfterSave, Active
<1>22. CASE CancelRestore(r)
  BY <1>1, <1>2, <1>4, <1>22 DEF CancelRestore
<1> QED
  BY <1>6, <1>7, <1>8, <1>9, <1>10, <1>11, <1>12, <1>13, <1>14, <1>15, <1>16, <1>17,
     <1>18, <1>19, <1>20, <1>21, <1>22 DEF RestoreStep

\* A refresh runs beside no update, and changes the backup only to make the first.
LEMMA BackupRefresh ==
  ASSUME BackupInv, RefreshAlone \/ RefreshStep
  PROVE  /\ update.pc = "idle" /\ UNCHANGED <<update, task>>
         /\ \A q \in Restorers : ~Active(q)
         /\ Sound(mem')
         /\ disk' = disk \/ (disk' = mem /\ mem' = mem)
         /\ mem.programs # None => mem'.programs = mem.programs
<1> USE DEF RestoreSide
<1>1. /\ mem \in Stores /\ Serial /\ Sound(mem)
      /\ update.pc \in {"idle", "reading", "read", "saving"}
      /\ update.pc # "idle" => refresh.pc = "idle"
  BY DEF BackupInv, Protected, JournalInv, TypeOK
<1>2. CASE RefreshAlone
  BY <1>1, <1>2 DEF RefreshAlone, RefreshRead, NoRestore, HeavyReadFree
<1>3. ASSUME refresh.pc # "idle"
      PROVE  update.pc = "idle" /\ \A q \in Restorers : ~Active(q)
  BY <1>1, <1>3 DEF Serial
<1>4. CASE RefreshSettle
  <2>1. refresh.seen \in Snapshots /\ refresh.pc # "idle"
    BY <1>4 DEF RefreshSettle, BackupInv, JournalInv, TypeOK
  <2>2. Sound(mem') /\ mem'.programs = mem.programs
    BY <1>1, <1>4, <2>1, SettledSound, ReconciledType DEF RefreshSettle, RefreshSettles
  <2> QED
    BY <1>3, <1>4, <2>1, <2>2 DEF RefreshSettle
<1>5. CASE RefreshAdopt
  <2> DEFINE p == Logical(refresh.seen)
  <2>1. mem' = [mem EXCEPT !.programs = p] /\ mem.programs = None /\ refresh.pc # "idle"
    BY <1>5 DEF RefreshAdopt, FirstBackup, Noting
  <2> HIDE DEF p
  <2>2. Sound(mem')
    BY <1>1, <2>1, AdoptedSound
  <2> QED
    BY <1>3, <1>5, <2>1, <2>2 DEF RefreshAdopt
<1>6. CASE RefreshDone
  BY <1>1, <1>3, <1>6 DEF RefreshDone, Noting
<1>7. CASE RefreshSaved
  BY <1>1, <1>3, <1>7 DEF RefreshSaved, Flush
<1>8. CASE RefreshSaveFails
  BY <1>1, <1>3, <1>8 DEF RefreshSaveFails
<1> QED
  BY <1>2, <1>4, <1>5, <1>6, <1>7, <1>8 DEF RefreshStep

\* An update replaces a sound backup by another one, and may take it back.
LEMMA BackupUpdate ==
  ASSUME BackupInv, UpdateAlone \/ UpdateStep
  PROVE  Protected'
<1> USE DEF UpdateSide
<1>1. /\ mem \in Stores /\ Serial /\ Protected
      /\ update \in [pc : {"idle", "reading", "read", "saving"},
                     seen : Snapshots \cup {None}, old : Stores \cup {None}]
      /\ refresh.pc \in {"idle", "read", "settling", "noting", "saving"}
  BY DEF BackupInv, Protected, JournalInv, TypeOK
<1>2. task' = task /\ refresh' = refresh /\ \A q \in Restorers : task'[q].pc = "idle"
  BY <1>1 DEF UpdateAlone, NoRestore, StartUpdate, UpdateStep, UpdateRead, UpdateReplace,
     UpdateRefused, UpdateSaved, UpdateSaveFails, Serial, Active
<1>3. CASE UpdateAlone
  <2>1. /\ update' = [update EXCEPT !.pc = "reading"] /\ refresh.pc = "idle"
        /\ update.pc # "saving" /\ UNCHANGED <<mem, disk, queued>>
    BY <1>3 DEF UpdateAlone, StartUpdate, HeavyReadFree
  <2>2. update'.pc = "reading"
    BY <1>1, <2>1
  <2> QED
    BY <1>1, <1>2, <2>1, <2>2 DEF Protected, Active
<1>4. CASE UpdateRead
  <2>1. /\ update' = [update EXCEPT !.pc = "read", !.seen = ctl] /\ update.pc = "reading"
        /\ UNCHANGED <<mem, disk, queued>>
    BY <1>4 DEF UpdateRead
  <2>2. update'.pc = "read"
    BY <1>1, <2>1
  <2> QED
    BY <1>1, <1>2, <2>1, <2>2 DEF Protected, Active
<1>5. CASE UpdateReplace
  <2> DEFINE p == Logical(update.seen)
             s == update.seen
  <2>1. /\ mem' = [mem EXCEPT !.programs = p, !.snapshot = s]
        /\ update' = [update EXCEPT !.pc = "saving", !.old = mem]
        /\ update.pc = "read" /\ mem.pending = None /\ Scheduled(s.blocks)
        /\ disk' = disk /\ queued' = "update"
    BY <1>5 DEF UpdateReplace, Replaceable
  <2>2. s \in Snapshots
    BY <1>5 DEF UpdateReplace, BackupInv, JournalInv, TypeOK
  <2>3. p \in Backups /\ p # None /\ Scheduled(p) /\ Agrees(p, s)
    BY <2>1, <2>2, LogicalType, LogicalScheduled, ConstantsAssumption DEF Agrees
  <2>4. update'.pc = "saving" /\ update'.old = mem
    BY <1>1, <2>1
  <2> HIDE DEF p, s
  <2>5. Sound(mem') /\ mem'.programs = p /\ mem'.pending = None
    <3>1. mem'.programs = p /\ mem'.snapshot = s /\ mem'.pending = None
      BY <1>1, <2>1 DEF Stores
    <3> QED
      BY <2>3, <3>1 DEF Sound
  <2> QED
    BY <1>1, <1>2, <2>1, <2>3, <2>4, <2>5 DEF Protected, Active
<1>6. CASE UpdateRefused
  BY <1>1, <1>2, <1>6 DEF UpdateRefused, IdleUpdate, Protected, Active
<1>7. CASE UpdateSaved
  <2>1. /\ Flush /\ mem' = mem /\ update'.pc = "idle" /\ update.pc = "saving"
    BY <1>7 DEF UpdateSaved, IdleUpdate
  <2>2. disk' = mem \/ (disk' = disk /\ queued = None)
    BY <2>1 DEF Flush
  <2>3. Sound(disk') /\ (disk'.programs # None => disk'.programs = mem.programs)
    BY <1>1, <2>1, <2>2, ConstantsAssumption DEF Protected
  <2> QED
    BY <1>1, <1>2, <2>1, <2>3 DEF Protected, Active
<1>8. CASE UpdateSaveFails
  <2> DEFINE p == update.old.programs
             s == update.old.snapshot
  <2>1. /\ mem' = [mem EXCEPT !.programs = p, !.snapshot = s]
        /\ update'.pc = "idle" /\ update.pc = "saving" /\ queued = "update" /\ disk' = disk
    BY <1>8 DEF UpdateSaveFails, FlushFails, IdleUpdate
  <2>2. mem.pending = None /\ Agrees(p, s) /\ (p = None => s = None)
    BY <1>1, <2>1 DEF Protected, Sound
  <2>3. disk.programs # None => disk.programs = p
    BY <1>1, <2>1 DEF Protected
  <2> HIDE DEF p, s
  <2>4. Sound(mem') /\ mem'.programs = p
    <3>1. mem'.programs = p /\ mem'.snapshot = s /\ mem'.pending = None
      BY <1>1, <2>1, <2>2 DEF Stores
    <3> QED
      BY <2>2, <3>1 DEF Sound
  <2> QED
    BY <1>1, <1>2, <2>1, <2>3, <2>4 DEF Protected, Active
<1> QED
  BY <1>3, <1>4, <1>5, <1>6, <1>7, <1>8 DEF UpdateStep

\* The editor makes at most a first backup; a restart reads the file again.
LEMMA BackupEdit ==
  ASSUME BackupInv, EditProgram \/ EditLost \/ EditSaved \/ EditSaveFails \/ PhoneEdit \/ Restart
  PROVE  Protected'
<1>1. /\ mem \in Stores /\ disk \in Stores /\ Protected
      /\ \A r \in Restorers : Active(r) => mem.programs # None
  BY DEF BackupInv, JournalInv, TypeOK, Journaled, Active
<1>2. ASSUME UNCHANGED <<mem, disk, task, refresh, update, queued>> PROVE Protected'
  BY <1>1, <1>2 DEF Protected, Active
<1>3. CASE EditLost \/ PhoneEdit
  BY <1>2, <1>3 DEF EditLost, PhoneEdit
<1>4. CASE EditProgram
  <2>1. UNCHANGED <<disk, task, refresh, update>>
    BY <1>4 DEF EditProgram
  <2>2. CASE FirstBackup(ctl')
    <3> DEFINE p == Logical(ctl')
    <3>1. mem' = [mem EXCEPT !.programs = p] /\ mem.programs = None
      BY <1>4, <2>2 DEF EditProgram, FirstBackup
    <3> HIDE DEF p
    <3>2. Sound(mem')
      BY <1>1, <3>1, AdoptedSound DEF Protected
    <3>3. update.pc # "saving" /\ disk.programs = None /\ \A r \in Restorers : ~Active(r)
      BY <1>1, <3>1 DEF Protected
    <3> QED
      BY <1>1, <2>1, <3>2, <3>3 DEF Protected, Active
  <2>3. CASE ~FirstBackup(ctl')
    BY <1>2, <1>4, <2>3 DEF EditProgram
  <2> QED
    BY <2>2, <2>3
<1>5. CASE EditSaved
  <2>1. Flush /\ UNCHANGED <<mem, task, refresh, update>>
    BY <1>5 DEF EditSaved
  <2>2. queued' = None /\ (disk' = mem \/ (disk' = disk /\ queued = None))
    BY <2>1 DEF Flush
  <2>3. None # "update"
    BY ConstantsAssumption
  <2> QED
    BY <1>1, <2>1, <2>2, <2>3 DEF Protected, Active
<1>6. CASE EditSaveFails
  <2>1. UNCHANGED <<mem, disk, task, refresh, update>> /\ queued = "editor" /\ queued' = None
    BY <1>6 DEF EditSaveFails, FlushFails
  <2>2. None # "update"
    BY ConstantsAssumption
  <2> QED
    BY <1>1, <2>1, <2>2 DEF Protected, Active
<1>7. CASE Restart
  <2>1. /\ mem' = Loaded(disk) /\ disk' = Loaded(disk) /\ update'.pc = "idle"
        /\ \A r \in Restorers : task'[r].pc = "idle"
    BY <1>7 DEF Restart, IdleUpdate, IdleTask
  <2>2. Sound(Loaded(disk))
    BY <1>1, LoadedSound DEF Protected
  <2> QED
    BY <2>1, <2>2 DEF Protected, Active
<1> QED
  BY <1>3, <1>4, <1>5, <1>6, <1>7

LEMMA BackupNext == BackupInv /\ [SerialNext]_vars => BackupInv'
<1> SUFFICES ASSUME BackupInv, [SerialNext]_vars PROVE BackupInv'
  OBVIOUS
<1>1. JournalInv'
  BY JournalNext DEF BackupInv
<1>2. Protected
  BY DEF BackupInv
<1>3. ASSUME Sound(mem'), update.pc = "idle", update' = update,
             disk' = disk \/ (disk' = mem /\ mem'.programs = mem.programs),
             mem.programs # None => mem'.programs = mem.programs,
             \A q \in Restorers : task'[q].pc # "idle" => task'[q].programs = mem'.programs
      PROVE  Protected'
  <2>1. Sound(disk')
    BY <1>2, <1>3 DEF Protected
  <2>2. disk'.programs # None => disk'.programs = mem'.programs
    BY <1>2, <1>3 DEF Protected
  <2> QED
    BY <1>3, <2>1, <2>2 DEF Protected, Active
<1>4. ASSUME NEW r \in Restorers, StartAlone(r) \/ RestoreStep(r) \/ CancelRestore(r)
      PROVE  Protected'
  BY <1>3, <1>4, BackupRestore
<1>5. ASSUME RefreshAlone \/ RefreshStep PROVE Protected'
  <2>1. \A q \in Restorers : task'[q].pc = "idle"
    BY <1>5, BackupRefresh DEF Active
  <2> QED
    BY <1>3, <1>5, <2>1, BackupRefresh
<1>6. ASSUME UNCHANGED vars PROVE Protected'
  <2>1. UNCHANGED <<mem, disk, task, refresh, update, queued>>
    BY <1>6 DEF vars
  <2> QED
    BY <1>2, <2>1 DEF Protected, Active
<1>7. ASSUME UpdateAlone \/ UpdateStep PROVE Protected'
  BY <1>7, BackupUpdate
<1>8. ASSUME EditProgram \/ EditLost \/ EditSaved \/ EditSaveFails \/ PhoneEdit \/ Restart
      PROVE  Protected'
  BY <1>8, BackupEdit
<1>9. Protected'
  BY <1>4, <1>5, <1>6, <1>7, <1>8 DEF SerialNext
<1> QED
  BY <1>1, <1>9 DEF BackupInv

LEMMA BackupInit == Init => BackupInv
<1> SUFFICES ASSUME Init PROVE BackupInv
  OBVIOUS
<1>1. PICK file \in {EmptyStore} \cup LegacyStores : mem = Loaded(file)
  BY DEF Init
<1>2. Sound(mem)
  <2>1. file \in Stores
    BY ConstantsAssumption DEF EmptyStore, Stores
  <2>2. Sound(file) \/ (file.pending = None /\ file.programs # None)
    BY ConstantsAssumption DEF EmptyStore, Sound, Agrees
  <2> QED
    BY <1>1, <2>1, <2>2, LoadedSound
<1>3. Protected
  BY <1>2 DEF Init, Protected, Active, IdleTask, IdleUpdate
<1> QED
  BY <1>3, JournalInit DEF BackupInv

LEMMA BackupHolds == SerialSpec => []BackupInv
BY BackupInit, BackupNext, PTL DEF SerialSpec

\* Whatever is read, restored, updated, edited, lost or restarted, as long as
\* one operation runs at a time: in memory and in the file the raw snapshot
\* stands for the logical backup, unless that one is past encoding.
THEOREM SnapshotsAgree == SerialSpec => []SnapshotAgrees
<1>1. BackupInv => SnapshotAgrees
  BY DEF BackupInv, Protected, Sound, Agrees, SnapshotAgrees
<1> QED
  BY <1>1, BackupHolds, PTL

\* How a step may change the file: to what is in memory, or by loading it.
LEMMA FileStep ==
  ASSUME SerialNext
  PROVE  disk' = disk \/ disk' = mem \/ disk' = Loaded(disk)
<1> USE DEF Others, RestoreSide, UpdateSide, Flush
<1>1. ASSUME NEW r \in Restorers, StartAlone(r) \/ RestoreStep(r) \/ CancelRestore(r)
      PROVE  disk' = disk \/ disk' = mem
  BY <1>1 DEF StartAlone, StartRestore, RestoreStep, CancelRestore, ReadBefore,
     RestoreRefused, SettleEarlier, PlanRefused, PlanNothing, BeginRestore, Preflight,
     AbortRestore, OpenMutation, WriteBlock, LoseWrite, ReadBack, FinishRestore, Saved, SaveFails
<1>2. CASE RefreshAlone \/ RefreshStep
  BY <1>2 DEF RefreshAlone, RefreshRead, RefreshStep, RefreshSettle, RefreshAdopt, RefreshDone,
     RefreshSaved, RefreshSaveFails
<1>3. CASE UpdateAlone \/ UpdateStep
  BY <1>3 DEF UpdateAlone, StartUpdate, UpdateStep, UpdateRead, UpdateReplace, UpdateRefused,
     UpdateSaved, UpdateSaveFails
<1>4. CASE EditProgram \/ EditLost \/ EditSaved \/ EditSaveFails \/ PhoneEdit \/ Restart
  BY <1>4 DEF EditProgram, EditLost, EditSaved, EditSaveFails, PhoneEdit, Restart
<1> QED
  BY <1>1, <1>2, <1>3, <1>4 DEF SerialNext

\* As long as one operation runs at a time the file's backup, once there is one,
\* changes only while an update the user asked for is saved, and to a useful one.
THEOREM BackupIsProtected == SerialSpec => BackupChangesOnlyOnRequest
<1> DEFINE Step == disk.programs # None /\ disk'.programs # disk.programs =>
                     update.pc = "saving" /\ disk'.programs # None /\ Scheduled(disk'.programs)
<1>1. ASSUME BackupInv, SerialNext PROVE Step
  <2>1. disk \in Stores /\ Protected
    BY <1>1 DEF BackupInv, JournalInv, TypeOK
  <2>2. Loaded(disk).programs = disk.programs
    BY <2>1, LoadedSound DEF Protected
  <2> QED
    BY <1>1, <2>1, <2>2, FileStep DEF Protected
<1>2. BackupInv /\ [SerialNext]_vars => [Step]_vars
  BY <1>1
<1> QED
  BY <1>2, BackupHolds, PTL DEF SerialSpec, BackupChangesOnlyOnRequest

=============================================================================
