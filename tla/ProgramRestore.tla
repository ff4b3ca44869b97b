--------------------------- MODULE ProgramRestore ---------------------------
(***************************************************************************)
(* Restoring the protected irrigation programs of a BL-IP controller.      *)
(*                                                                         *)
(* ProgramBackupStore (program_backup.py) keeps a protected backup and a   *)
(* before/expected journal, in memory and in one file of Home Assistant's  *)
(* storage.  SolemCoordinator.restore_irrigation_programs (coordinator.py) *)
(* drives a restore over it, through write_program_frames                  *)
(* (ble/client_v2.py); the schedule refresh (coordinator_polling.py), the  *)
(* "update protected backup" button and the program editor share the same  *)
(* store and the same controller.  All of them are asyncio tasks of one    *)
(* event loop: an action below is what a task does between two awaits.     *)
(***************************************************************************)
EXTENDS Naturals, FiniteSets

CONSTANTS
  Editable,      \* the write blocks of the user-editable programs A, B and C
  Hidden,        \* the blocks of the nine additional slots, never written
  Contents,      \* what a block can hold
  Unscheduled,   \* the content of a block without start time or duration
  Unencodable,   \* contents the library decodes but refuses to patch
  Dates,         \* the start dates the controller keeps in its headers: [day, month]
  Restorers,     \* the callers of restore_irrigation_programs
  LegacyStores,  \* store files an earlier release may have left behind
  None,          \* Python's None
  MaxRestores,   \* bound: restores started
  MaxEdits,      \* bound: programs edited, here or from the phone app
  MaxCrashes     \* bound: restarts of Home Assistant

Slots     == Editable \cup Hidden
Snapshots == [blocks : [Slots -> Contents], date : Dates]
Backups   == [Editable -> Contents]
Journals  == [before : Snapshots, expected : Snapshots]
Stores    == [programs : Backups \cup {None},
              snapshot : Snapshots \cup {None},
              pending  : Journals \cup {None}]

ASSUME ConstantsAssumption ==
  /\ Editable \cap Hidden = {}
  /\ Unscheduled \in Contents
  /\ Unencodable \subseteq Contents
  /\ None \notin Snapshots \cup Backups \cup Journals \cup Stores
  /\ Restorers \cap {"refresh", "update", "editor"} = {}
  /\ None \notin Restorers \cup {"refresh", "update", "editor"}
  /\ LegacyStores \subseteq Stores
  /\ \A s \in LegacyStores : s.pending = None /\ s.programs # None
  /\ MaxRestores \in Nat /\ MaxEdits \in Nat /\ MaxCrashes \in Nat

VARIABLES
  mem,         \* the store object: _programs, _snapshot, _pending
  disk,        \* the store file
  queued,      \* whose data the store object still has to write, or None
  ctl,         \* the programs in the controller
  task,        \* the restores under way, by caller
  refresh,     \* the schedule refresh: where it is and what it read
  update,      \* the backup update: where it is, what it read and replaced
  editSaving,  \* the program editor is saving its first observed backup
  unsettled,   \* history: the entries under which frames were sent and whose
               \*   outcome no complete read has told yet
  forgotten,   \* history: the mark of a retry was taken back in spite of them
  spent        \* how much of each bound is used up

history == <<unsettled, forgotten>>

vars == <<mem, disk, queued, ctl, task, refresh, update, editSaving, history, spent>>

-----------------------------------------------------------------------------
(* Snapshots, backups and the journal. *)

\* At least one program has a start and a duration.
Scheduled(programs) == \E b \in Editable : programs[b] # Unscheduled

\* The logical programs A/B/C of a raw snapshot.
Logical(s) == [b \in Editable |-> s.blocks[b]]

\* The snapshot s with A/B/C replaced; the date is the controller's own.
Patched(s, programs) ==
  [s EXCEPT !.blocks = [b \in Slots |-> IF b \in Editable THEN programs[b]
                                                          ELSE s.blocks[b]]]

\* ProgramSnapshot.patch accepts every program of the backup.
Encodable(programs) == \A b \in Editable : programs[b] \notin Unencodable

\* Only the day of the header's date differs.
DiffersOnlyByDate(s, t) == /\ s.blocks = t.blocks
                           /\ s.date # t.date /\ s.date.month = t.date.month

\* A complete read s tells the outcome of the journaled restore j.
Settles(j, s) == s = j.expected \/ s = j.before \/ DiffersOnlyByDate(s, j.expected)

\* What the read s leaves untold; and whether a step that takes the mark away
\* takes a retry's entry, by then told or never begun, and forgets others with it.
Told(s)   == unsettled' = {j \in unsettled : ~Settles(j, s)}
MarkTaken == forgotten' = (unsettled' # {} /\ mem.pending \notin unsettled')
Verified  == unsettled' = {} /\ forgotten' = FALSE

\* Mutated: a read that finds the controller unchanged becomes the snapshot.
ReconciledTakesRead(m, s) == [m EXCEPT !.pending = None, !.snapshot = s]

\* async_reconcile on a read that settles the journal.
Reconciled(m, s) ==
  [m EXCEPT !.pending  = None,
            !.snapshot = IF s = m.pending.before /\ s # m.pending.expected
                           THEN IF @ = None THEN m.pending.expected ELSE @
                           ELSE s]

Finished(m, s) == [m EXCEPT !.snapshot = s, !.pending = None]
Aborted(m)     == [m EXCEPT !.pending = None]

EmptyStore == [programs |-> None, snapshot |-> None, pending |-> None]

\* Mutated: a load that drops the journal.
LoadedForgets(file) == [file EXCEPT !.pending = None]

\* async_load: the file's contents, a beta.12 mixed store repaired on the way.
Loaded(file) ==
  IF /\ file.pending = None /\ file.snapshot # None /\ file.programs # None
     /\ \A b \in Editable : \/ file.programs[b] = file.snapshot.blocks[b]
                            \/ file.programs[b] \notin Unencodable
    THEN [file EXCEPT !.snapshot = Patched(@, file.programs)]
    ELSE file

-----------------------------------------------------------------------------
(* Tasks. *)

\* resuming: an earlier restore was pending, and the read did not settle it.
IdleTask == [pc |-> "idle", programs |-> None, resuming |-> FALSE,
             before |-> None, expected |-> None, todo |-> {}]

RestorePcs == {"idle", "reading", "read", "settling", "planning", "journaling",
               "preflight", "ready", "writing", "verified", "finishing", "aborting"}

IdleRefresh == [pc |-> "idle", seen |-> None]
IdleUpdate  == [pc |-> "idle", seen |-> None, old |-> None]

\* The journal entry of a restore that has planned its write.
Entry(t) == [before |-> t.before, expected |-> t.expected]

Active(r) == task[r].pc # "idle"

\* One BLE operation at a time: a mutation keeps the session lock from its
\* first frame to the end of its readback; reads fall between mutations.
LinkFree == \A r \in Restorers : task[r].pc # "writing"

\* The heavy-read lock, shared by the schedule refresh and the backup update.
HeavyReadFree == refresh.pc = "idle" /\ update.pc \notin {"reading", "read", "saving"}

Goto(r, pc) == task' = [task EXCEPT ![r].pc = pc]
Leave(r)    == task' = [task EXCEPT ![r] = IdleTask]

Spend(what, limit) == /\ spent[what] < limit
                      /\ spent' = [spent EXCEPT ![what] = @ + 1]

Others == <<refresh, update, editSaving>>

\* Store.async_save: the latest data is written once, by whichever task holds
\* it; a task whose data another one has written returns at once.
Flush == disk' = (IF queued # None THEN mem ELSE disk) /\ queued' = None

\* The write raises for the task whose data it was: it stays in memory only.
FlushFails(who) == queued = who /\ queued' = None

-----------------------------------------------------------------------------
(* restore_irrigation_programs, called by the button and by the service. *)

\* Copy the backup and note whether an earlier restore is still pending.
StartRestore(r) ==
  /\ ~Active(r)
  /\ mem.programs # None
  /\ Spend("restores", MaxRestores)
  /\ task' = [task EXCEPT ![r] = [IdleTask EXCEPT !.pc = "reading",
                                                  !.programs = mem.programs,
                                                  !.resuming = mem.pending # None]]
  /\ UNCHANGED <<mem, disk, queued, ctl, history, Others>>

\* Mutated: the snapshot read is not kept.
ReadBeforeUnset(r) ==
  /\ task[r].pc = "reading"
  /\ Goto(r, "read")
  /\ UNCHANGED <<mem, disk, queued, ctl, history, spent, Others>>

\* get_program_snapshot, after the status and firmware preflight.
ReadBefore(r) ==
  /\ task[r].pc = "reading"
  /\ LinkFree
  /\ task' = [task EXCEPT ![r].pc = "read", ![r].before = ctl]
  /\ UNCHANGED <<mem, disk, queued, ctl, history, spent, Others>>

\* Not idle, wrong firmware, a lost link: nothing is journaled yet.
RestoreRefused(r) ==
  /\ task[r].pc = "reading"
  /\ Leave(r)
  /\ UNCHANGED <<mem, disk, queued, ctl, history, spent, Others>>

\* The read settles the earlier restore: async_reconcile saves.
SettlingRead(r) == /\ task[r].resuming
                   /\ mem.pending # None
                   /\ Settles(mem.pending, task[r].before)

SettleEarlier(r) ==
  /\ task[r].pc = "read"
  /\ SettlingRead(r)
  /\ queued' = r
  /\ mem' = Reconciled(mem, task[r].before)
  /\ Told(task[r].before) /\ MarkTaken
  /\ task' = [task EXCEPT ![r].pc = "settling", ![r].resuming = FALSE]
  /\ UNCHANGED <<disk, ctl, spent, Others>>

\* Past async_reconcile, whose result the caller drops.
Planning(r) == \/ task[r].pc = "planning"
               \/ (task[r].pc = "read" /\ ~SettlingRead(r))

PlanRefused(r) ==
  /\ Planning(r)
  /\ ~Encodable(task[r].programs)
  /\ Leave(r)
  /\ UNCHANGED <<mem, disk, queued, ctl, history, spent, Others>>

PlanNothing(r) ==
  /\ Planning(r)
  /\ Encodable(task[r].programs)
  /\ Patched(task[r].before, task[r].programs) = task[r].before
  /\ queued' = r
  /\ mem' = Finished(mem, task[r].before)
  /\ Verified
  /\ Goto(r, "finishing")
  /\ UNCHANGED <<disk, ctl, spent, Others>>

\* Mutated: the journal is not saved before the preflight.
BeginRestoreUnsaved(r) ==
  LET before   == task[r].before
      expected == Patched(before, task[r].programs) IN
  /\ Planning(r)
  /\ Encodable(task[r].programs)
  /\ expected # before
  /\ mem' = [mem EXCEPT !.pending = [before |-> before, expected |-> expected]]
  /\ task' = [task EXCEPT
       ![r].pc = "preflight", ![r].expected = expected,
       ![r].todo = {b \in Editable : expected.blocks[b] # before.blocks[b]}]
  /\ UNCHANGED <<disk, queued, ctl, history, spent, Others>>

\* async_begin_restore: the journal replaces any earlier one.
BeginRestore(r) ==
  LET before   == task[r].before
      expected == Patched(before, task[r].programs) IN
  /\ Planning(r)
  /\ Encodable(task[r].programs)
  /\ expected # before
  /\ queued' = r
  /\ mem' = [mem EXCEPT !.pending = [before |-> before, expected |-> expected]]
  /\ Told(before)
  /\ task' = [task EXCEPT
       ![r].pc = "journaling", ![r].expected = expected,
       ![r].todo = {b \in Editable : expected.blocks[b] # before.blocks[b]}]
  /\ UNCHANGED <<disk, ctl, forgotten, spent, Others>>

\* write_program_frames reads the controller again before it opens the
\* connection that will carry the frames.
Preflight(r) ==
  /\ task[r].pc = "preflight"
  /\ LinkFree
  /\ ctl = task[r].before
  /\ Goto(r, "ready")
  /\ UNCHANGED <<mem, disk, queued, ctl, history, spent, Others>>

\* StaleProgram, or a link lost before the first frame: async_abort_restore.
AbortRestore(r) ==
  /\ task[r].pc \in {"preflight", "ready"}
  /\ queued' = r
  /\ mem' = Aborted(mem)
  /\ UNCHANGED unsettled /\ MarkTaken
  /\ Goto(r, "aborting")
  /\ UNCHANGED <<disk, ctl, spent, Others>>

OpenMutation(r) ==
  /\ task[r].pc = "ready"
  /\ LinkFree
  /\ unsettled' = unsettled \cup {Entry(task[r])}
  /\ forgotten' = FALSE
  /\ Goto(r, "writing")
  /\ UNCHANGED <<mem, disk, queued, ctl, spent, Others>>

\* The controller stores a block; it may renew the header's date.
Store(b, content) ==
  \E date \in Dates :
    ctl' = [blocks |-> [ctl.blocks EXCEPT ![b] = content], date |-> date]

WriteBlock(r) ==
  /\ task[r].pc = "writing"
  /\ \E b \in task[r].todo :
       /\ Store(b, task[r].expected.blocks[b])
       /\ task' = [task EXCEPT ![r].todo = @ \ {b}]
  /\ UNCHANGED <<mem, disk, queued, history, spent, Others>>

\* Mutated: a lost write is handled as one that never began.
LoseWriteAborts(r) ==
  /\ task[r].pc = "writing"
  /\ queued' = r
  /\ mem' = Aborted(mem)
  /\ Goto(r, "aborting")
  /\ UNCHANGED <<disk, ctl, history, spent, Others>>

\* UncertainWrite: a block refused or never acknowledged (stored or not), a
\* failed or different readback.  The journal stays.
LoseWrite(r) ==
  /\ task[r].pc = "writing"
  /\ \/ UNCHANGED ctl
     \/ \E b \in task[r].todo : Store(b, task[r].expected.blocks[b])
  /\ Leave(r)
  /\ UNCHANGED <<mem, disk, queued, history, spent, Others>>

\* Mutated: the readback is not compared.
ReadBackUnchecked(r) ==
  /\ task[r].pc = "writing"
  /\ task[r].todo = {}
  /\ Goto(r, "verified")
  /\ UNCHANGED <<mem, disk, queued, ctl, history, spent, Others>>

ReadBack(r) ==
  /\ task[r].pc = "writing"
  /\ task[r].todo = {}
  /\ ctl = task[r].expected
  /\ Goto(r, "verified")
  /\ UNCHANGED <<mem, disk, queued, ctl, history, spent, Others>>

FinishRestore(r) ==
  /\ task[r].pc = "verified"
  /\ queued' = r
  /\ mem' = Finished(mem, task[r].expected)
  /\ Verified
  /\ Goto(r, "finishing")
  /\ UNCHANGED <<disk, ctl, spent, Others>>

\* The task's _async_save is on disk: the store writes its latest data.
AfterSave == [settling |-> "planning", journaling |-> "preflight",
              finishing |-> "idle", aborting |-> "idle"]

\* Mutated: a task waits for its own data to be written.
SavedByOwner(r) ==
  /\ task[r].pc \in DOMAIN AfterSave
  /\ queued = r
  /\ Flush
  /\ IF AfterSave[task[r].pc] = "idle" THEN Leave(r)
                                       ELSE Goto(r, AfterSave[task[r].pc])
  /\ UNCHANGED <<mem, ctl, history, spent, Others>>

Saved(r) ==
  /\ task[r].pc \in DOMAIN AfterSave
  /\ Flush
  /\ IF AfterSave[task[r].pc] = "idle" THEN Leave(r)
                                       ELSE Goto(r, AfterSave[task[r].pc])
  /\ UNCHANGED <<mem, ctl, history, spent, Others>>

\* The write of the store file raises: memory keeps what it has.
SaveFails(r) ==
  /\ task[r].pc \in DOMAIN AfterSave
  /\ FlushFails(r)
  /\ Leave(r)
  /\ UNCHANGED <<mem, disk, ctl, history, spent, Others>>

\* CancelledError is no Exception: no handler of the restore runs.
CancelRestore(r) ==
  /\ Active(r)
  /\ Leave(r)
  /\ UNCHANGED <<mem, disk, queued, ctl, history, spent, Others>>

RestoreStep(r) ==
  \/ ReadBefore(r) \/ RestoreRefused(r) \/ SettleEarlier(r)
  \/ PlanRefused(r) \/ PlanNothing(r) \/ BeginRestore(r)
  \/ Preflight(r) \/ AbortRestore(r) \/ OpenMutation(r)
  \/ WriteBlock(r) \/ LoseWrite(r) \/ ReadBack(r) \/ FinishRestore(r)
  \/ Saved(r) \/ SaveFails(r)

-----------------------------------------------------------------------------
(* fetch_irrigation_config, from the slow coordinator or a manual refresh. *)

RestoreSide == <<ctl, task, update, editSaving, spent>>

RefreshRead ==
  /\ HeavyReadFree
  /\ LinkFree
  /\ refresh' = [pc |-> "read", seen |-> ctl]
  /\ UNCHANGED <<mem, disk, queued, history, RestoreSide>>

\* Mutated: a refresh accepts only the exact expectation.
RefreshSettlesExactly == mem.pending # None /\ refresh.seen = mem.pending.expected

RefreshSettles == mem.pending # None /\ Settles(mem.pending, refresh.seen)

RefreshSettle ==
  /\ refresh.pc = "read"
  /\ RefreshSettles
  /\ queued' = "refresh"
  /\ mem' = Reconciled(mem, refresh.seen)
  /\ Told(refresh.seen) /\ MarkTaken
  /\ refresh' = [refresh EXCEPT !.pc = "settling"]
  /\ UNCHANGED <<disk, RestoreSide>>

\* Mutated: every useful observation replaces the backup.
EveryBackup(seen) == Scheduled(seen.blocks)

\* async_save_if_non_empty: only the first useful observation is kept.
FirstBackup(seen) == mem.programs = None /\ Scheduled(seen.blocks)

Noting == \/ refresh.pc = "noting"
          \/ refresh.pc = "read" /\ ~RefreshSettles

RefreshAdopt ==
  /\ Noting
  /\ FirstBackup(refresh.seen)
  /\ queued' = "refresh"
  /\ mem' = [mem EXCEPT !.programs = Logical(refresh.seen)]
  /\ refresh' = [refresh EXCEPT !.pc = "saving"]
  /\ UNCHANGED <<disk, history, RestoreSide>>

RefreshDone ==
  /\ Noting
  /\ ~FirstBackup(refresh.seen)
  /\ refresh' = IdleRefresh
  /\ UNCHANGED <<mem, disk, queued, history, RestoreSide>>

RefreshSaved ==
  /\ refresh.pc \in {"settling", "saving"}
  /\ Flush
  /\ refresh' = IF refresh.pc = "settling" THEN [refresh EXCEPT !.pc = "noting"]
                                           ELSE IdleRefresh
  /\ UNCHANGED <<mem, history, RestoreSide>>

RefreshSaveFails ==
  /\ refresh.pc \in {"settling", "saving"}
  /\ FlushFails("refresh")
  /\ refresh' = IdleRefresh
  /\ UNCHANGED <<mem, disk, history, RestoreSide>>

RefreshStep == \/ RefreshSettle \/ RefreshAdopt \/ RefreshDone
               \/ RefreshSaved \/ RefreshSaveFails

-----------------------------------------------------------------------------
(* update_protected_program_backup, from its button. *)

UpdateSide == <<ctl, task, refresh, editSaving, spent>>

StartUpdate ==
  /\ HeavyReadFree
  /\ mem.pending = None
  /\ update' = [update EXCEPT !.pc = "reading"]
  /\ UNCHANGED <<mem, disk, queued, history, UpdateSide>>

UpdateRead ==
  /\ update.pc = "reading"
  /\ LinkFree
  /\ update' = [update EXCEPT !.pc = "read", !.seen = ctl]
  /\ UNCHANGED <<mem, disk, queued, history, UpdateSide>>

\* async_replace: still no journal, and a backup worth keeping.
Replaceable == mem.pending = None /\ Scheduled(update.seen.blocks)

UpdateReplace ==
  /\ update.pc = "read"
  /\ Replaceable
  /\ queued' = "update"
  /\ mem' = [mem EXCEPT !.programs = Logical(update.seen), !.snapshot = update.seen]
  /\ update' = [update EXCEPT !.pc = "saving", !.old = mem]
  /\ UNCHANGED <<disk, history, UpdateSide>>

UpdateRefused ==
  /\ \/ update.pc = "reading"
     \/ update.pc = "read" /\ ~Replaceable
  /\ update' = IdleUpdate
  /\ UNCHANGED <<mem, disk, queued, history, UpdateSide>>

UpdateSaved ==
  /\ update.pc = "saving"
  /\ Flush
  /\ update' = IdleUpdate
  /\ UNCHANGED <<mem, history, UpdateSide>>

\* The replaced backup comes back, the journal is left as it is by now.
UpdateSaveFails ==
  /\ update.pc = "saving"
  /\ FlushFails("update")
  /\ mem' = [mem EXCEPT !.programs = update.old.programs,
                        !.snapshot = update.old.snapshot]
  /\ update' = IdleUpdate
  /\ UNCHANGED <<disk, history, UpdateSide>>

UpdateStep == UpdateRead \/ UpdateReplace \/ UpdateRefused \/ UpdateSaved \/ UpdateSaveFails

-----------------------------------------------------------------------------
(* The program editor, the phone app, and a restart of Home Assistant. *)

\* set_irrigation_program writes one program in one BLE transaction, whatever
\* the journal says, and offers what it read back as a first backup.
EditProgram ==
  /\ LinkFree
  /\ ~editSaving
  /\ Spend("edits", MaxEdits)
  /\ \E b \in Editable, content \in Contents : Store(b, content)
  /\ IF FirstBackup(ctl')
       THEN /\ mem' = [mem EXCEPT !.programs = Logical(ctl')]
            /\ editSaving' = TRUE
            /\ queued' = "editor"
       ELSE UNCHANGED <<mem, editSaving, queued>>
  /\ UNCHANGED <<disk, task, refresh, update, history>>

\* The write or its readback is lost: the editor reports an error.
EditLost ==
  /\ LinkFree
  /\ Spend("edits", MaxEdits)
  /\ \E b \in Editable, content \in Contents : Store(b, content)
  /\ UNCHANGED <<mem, disk, queued, task, refresh, update, editSaving, history>>

EditSaved ==
  /\ editSaving
  /\ editSaving' = FALSE
  /\ Flush
  /\ UNCHANGED <<mem, ctl, task, refresh, update, history, spent>>

EditSaveFails ==
  /\ editSaving
  /\ editSaving' = FALSE
  /\ FlushFails("editor")
  /\ UNCHANGED <<mem, disk, ctl, task, refresh, update, history, spent>>

\* The phone app reaches the controller while the integration does not.
PhoneEdit ==
  /\ LinkFree
  /\ Spend("edits", MaxEdits)
  /\ \E b \in Slots, content \in Contents : Store(b, content)
  /\ UNCHANGED <<mem, disk, queued, task, refresh, update, editSaving, history>>

\* Every task dies with the process; async_init loads the file.
Restart ==
  /\ Spend("crashes", MaxCrashes)
  /\ mem' = Loaded(disk)
  /\ disk' = Loaded(disk)
  /\ task' = [r \in Restorers |-> IdleTask]
  /\ refresh' = IdleRefresh
  /\ update' = IdleUpdate
  /\ editSaving' = FALSE
  /\ queued' = None
  /\ UNCHANGED <<ctl, history>>

-----------------------------------------------------------------------------
Init ==
  /\ \E file \in {EmptyStore} \cup LegacyStores : mem = Loaded(file)
  /\ disk = mem
  /\ queued = None
  /\ ctl \in Snapshots
  /\ task = [r \in Restorers |-> IdleTask]
  /\ refresh = IdleRefresh
  /\ update = IdleUpdate
  /\ editSaving = FALSE
  /\ unsettled = {} /\ forgotten = FALSE
  /\ spent = [restores |-> 0, edits |-> 0, crashes |-> 0]

Next ==
  \/ \E r \in Restorers : StartRestore(r) \/ RestoreStep(r) \/ CancelRestore(r)
  \/ RefreshRead \/ RefreshStep
  \/ StartUpdate \/ UpdateStep
  \/ EditProgram \/ EditLost \/ EditSaved \/ EditSaveFails \/ PhoneEdit
  \/ Restart

\* Everything the event loop may interleave.
Spec == Init /\ [][Next]_vars

\* A restore has the store to itself: nothing in the code sees to it, a user
\* who waits for one operation before starting the next does.
Serial ==
  \A r \in Restorers : Active(r) => /\ refresh.pc = "idle" /\ update.pc = "idle"
                                    /\ \A q \in Restorers : Active(q) => q = r

NoRestore == \A r \in Restorers : ~Active(r)

StartAlone(r) ==
  /\ NoRestore
  /\ refresh.pc = "idle" /\ update.pc = "idle"
  /\ StartRestore(r)

RefreshAlone == NoRestore /\ RefreshRead
UpdateAlone  == NoRestore /\ StartUpdate

SerialNext ==
  \/ \E r \in Restorers : StartAlone(r) \/ RestoreStep(r) \/ CancelRestore(r)
  \/ RefreshAlone \/ RefreshStep
  \/ UpdateAlone \/ UpdateStep
  \/ EditProgram \/ EditLost \/ EditSaved \/ EditSaveFails \/ PhoneEdit
  \/ Restart

SerialSpec == Init /\ [][SerialNext]_vars

\* The loop runs every task to its end, and a refresh, which is retried for
\* ever, in the end reads the controller.
Fairness ==
  /\ \A r \in Restorers : WF_vars(RestoreStep(r))
  /\ WF_vars(RefreshStep) /\ WF_vars(UpdateStep) /\ WF_vars(EditSaved \/ EditSaveFails)
  /\ SF_vars(RefreshRead)

FairSpec == Spec /\ Fairness

-----------------------------------------------------------------------------
(* Properties. *)

TaskType ==
  [pc : RestorePcs, programs : Backups \cup {None}, resuming : BOOLEAN,
   before : Snapshots \cup {None}, expected : Snapshots \cup {None},
   todo : SUBSET Editable]

\* A task that has read the controller has a backup to restore and, once
\* journaled, an expectation.
TaskOK(t) ==
  /\ t \in TaskType
  /\ t.pc # "idle" => t.programs # None
  /\ t.pc \notin {"idle", "reading"} => t.before # None
  /\ t.pc \in {"journaling", "preflight", "ready", "writing", "verified"}
       => t.expected # None

\* Every variable keeps its type, and a task has read what its place implies.
TypeOK ==
  /\ mem \in Stores /\ disk \in Stores
  /\ ctl \in Snapshots
  /\ task \in [Restorers -> TaskType]
  /\ \A r \in Restorers : TaskOK(task[r])
  /\ refresh \in [pc : {"idle", "read", "settling", "noting", "saving"},
                  seen : Snapshots \cup {None}]
  /\ refresh.pc # "idle" => refresh.seen # None
  /\ update \in [pc : {"idle", "reading", "read", "saving"},
                 seen : Snapshots \cup {None}, old : Stores \cup {None}]
  /\ update.pc \in {"read", "saving"} => update.seen # None
  /\ update.pc = "saving" => update.old # None
  /\ queued \in Restorers \cup {"refresh", "update", "editor", None}
  /\ editSaving \in BOOLEAN
  /\ unsettled \subseteq Journals /\ forgotten \in BOOLEAN
  /\ spent \in [{"restores", "edits", "crashes"} -> Nat]

\* README: "If the transport becomes uncertain after mutation starts ... the
\* backup status remains pending until a fresh complete read can safely
\* reconcile the outcome", across restarts too, so in memory and in the file.
\* The code does not keep this (see the README): neither when a refresh overlaps
\* a restore, nor over two restores, one after the other.
UncertainStaysPending ==
  unsettled # {} => mem.pending # None /\ disk.pending # None

\* What it does keep, for one operation at a time: the mark stays until a read
\* has told the outcome of every mutation that was begun, unless a retry has
\* replaced the entry of an uncertain restore by its own, and that one is taken
\* away although the first is untold: because the retry aborts before its first
\* frame, or because a read shows the half restored programs it began from.
\* And an entry under which frames were sent is in the file as it is in memory.
PendingUntilTold ==
  /\ unsettled # {} /\ ~forgotten => mem.pending # None /\ disk.pending # None
  /\ mem.pending \in unsettled => disk.pending = mem.pending

\* README: "Before writing, the integration records a durable before/expected
\* journal": while frames are sent the file describes this very mutation.
WriteIsJournaled ==
  \A r \in Restorers : task[r].pc = "writing" =>
    disk.pending = Entry(task[r])

\* Why both hold: from the moment it is journaled a restore's own entry is the
\* one in memory, it is in the file from the moment the save has ended, and it
\* is none of the untold ones before its first frame.
\* The backup is there all the while, so the editor has no first backup to
\* save in between.
Journaled(r) ==
  LET pc == task[r].pc IN
  /\ pc # "idle" => mem.programs # None
  /\ pc \in {"journaling", "preflight", "ready", "writing", "verified"} =>
       mem.pending = Entry(task[r])
  /\ pc \in {"journaling", "preflight", "ready"} => Entry(task[r]) \notin unsettled
  /\ pc = "journaling" => queued = r \/ disk.pending = mem.pending
  /\ pc \in {"preflight", "ready", "writing", "verified"} => disk.pending = mem.pending

JournalInv == /\ TypeOK /\ Serial /\ PendingUntilTold
              /\ \A r \in Restorers : Journaled(r)

\* The raw snapshot never drifts from the logical backup it stands for (the
\* mixed store of beta.12, which async_load still repairs), unless the backup
\* is one the library cannot encode.
SnapshotAgrees ==
  \A s \in {mem, disk} :
    s.programs # None /\ s.snapshot # None =>
      Logical(s.snapshot) = s.programs \/ ~Encodable(s.programs)

\* README: "Normal polling, Refresh programs, and schedule writes do not
\* silently replace this restore point": the file's backup changes only while
\* an update asked for by the user is being saved, and never to an empty one.
BackupChangesOnlyOnRequest ==
  [][disk.programs # None /\ disk'.programs # disk.programs =>
       update.pc = "saving" /\ disk'.programs # None /\ Scheduled(disk'.programs)]_vars

\* README: "Only A/B/C are ... restored; the additional nine slots are
\* preserved byte-for-byte": when a restore reports success the controller,
\* as last read, holds the backup the restore copied at its start and the
\* other slots it found there, whatever ran in between.
Delivered(r, s) == /\ Logical(s) = task[r].programs
                   /\ \A x \in Hidden : s.blocks[x] = task[r].before.blocks[x]

SuccessMeansRestored ==
  [][\A r \in Restorers :
       /\ task[r].pc = "writing" /\ task'[r].pc = "verified" => Delivered(r, ctl)
       /\ task[r].pc \in {"read", "planning"} /\ task'[r].pc = "finishing"
            => Delivered(r, task[r].before)]_vars

\* Why: what a restore waits to read back is its own backup put over what it
\* read itself, whatever other restores do to the store and the controller.
Planned(t) ==
  t.pc \in {"journaling", "preflight", "ready", "writing", "verified"} =>
    t.expected = Patched(t.before, t.programs)

PlanInv == TypeOK /\ \A r \in Restorers : Planned(task[r])

\* The store file is a write-ahead journal for the controller's programs: what
\* the file's entry stands for is under way or lost as long as no read has told
\* it and no retry's entry has replaced it in memory or been taken away with it.
Dirty == /\ disk.pending \in unsettled /\ ~forgotten
         /\ mem.pending \in {None, disk.pending}

Journal == INSTANCE WriteAheadJournal
             WITH Entries <- Journals, Devices <- Snapshots,
                  journal <- disk.pending, device <- ctl, dirty <- Dirty

ImplementsJournal == Journal!Spec

\* Once nothing changes any more, a restore is pending only if the controller
\* holds none of the outcomes its journal knows.
KnownOutcomeSettles ==
  <>[](mem.pending # None => ~Settles(mem.pending, ctl))

\* Every restore comes to an end.
RestoreEnds == \A r \in Restorers : Active(r) ~> ~Active(r)

=============================================================================
