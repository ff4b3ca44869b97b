# TLA+ verification of the Solem BL-IP integration

`src/` is a Home Assistant integration for Solem BL-IP irrigation controllers.
It talks to one controller over Bluetooth Low Energy, which takes one
connection at a time, and shares that controller with the vendor's phone app
and with the controller's own schedule. Everything in it is an asyncio task of
one event loop: between two `await`s a task runs alone, at every `await` any
other task may run, be cancelled, or find that the radio, the controller or the
disk has failed. The actions of the modules here are the stretches between two
awaits.

Paths below are relative to `src/custom_components/solem_blip/`.

## 1. The system

| part | state it keeps | operations | talks to |
|---|---|---|---|
| **Protected programs** (`program_backup.py`, `coordinator.py:599-771`, `ble/snapshot.py`) | a logical backup, a raw snapshot, a before/expected journal, in memory and in a store file | restore, update the backup, reconcile after a read | writes the controller's programs, shares store and controller with the schedule refresh and the editor |
| **BLE transport** (`ble/locking.py`, `ble/client_v2.py`, `ble/client_persistent.py`, `client_factory.py`) | one `ControllerLock` per controller, a deferred cleanup, a held link, background releases | every read and command: connect, retry, clean up | used by everything else |
| **Manual watering** (`coordinator_irrigation.py`, `valve.py`, `button.py`) | `_irrigation_active`, `_is_watering`, a stop event, one monitor reference | start station, start program, stop, on, off | sends commands, reads statuses, journals intents |
| **Activity history** (`activity.py`) | the pending intent, the current run, the last status; a store file | command, observe, close | fed by commands and by every status |
| **Polling** (`coordinator_polling.py`) | the first answered poll, the clock's pending mark and cooldown, cooldowns of the long reads, heavy-read lock | poll, read metadata, read programs, set the clock | drives activity, health, stuck-adapter detector, rainfall, store |
| **Rainfall** (`rainfall.py`, `config_flow.py:561-607`) | expected budgets, delay episode, in memory and in a store file; baselines and fingerprints in the entry | adjust the budgets, or delay the controller by a day | sensor of Home Assistant, program write, off command |
| **Station names** (`station_names.py`, `ble/station_names.py`) | names, a rename journal, in memory and in a store file | read, rename, settle | names frames of the controller |
| **BLE health** (`ble_health.py`, `bluetooth_issue.py`) | failure streak, repair issue, stale mark | record success or failure | issue registry |
| **Stuck-adapter detector** (`stuck_recovery.py`) | whether the library has said its cleanup gave up, whether the issue was raised | observe the log and each cycle's outcome | log, BLE health, issue registry |
| **Program editor** (`config_flow.py:726-1106`) | the program shown, the revision it was opened with, what waits for a confirmation | open, submit, confirm, decline, write, show again | programs the coordinator holds, program write, schedule arithmetic |
| **Schedule arithmetic** (`schedule.py`) | none | next start of a program, countdown to a first run day | sensors, program editor, activity |
| **Wire protocol** (`ble/protocol.py`) | none | frames to values and back | transport |
| **Set-up, entities, services, flows, diagnostics** | Home Assistant's own | dispatch, presentation | all of the above |

### Where it is hard

* *Interleavings.* The restore does not take the heavy-read lock under which
  the schedule refresh reconciles; the start of a watering checks a flag, then
  awaits three times; a cancelled caller leaves at any await.
* *Ordering.* A status read before a command was sent is applied after it was
  journaled. A background disconnect, addressed by MAC, outlives the link it
  was meant for.
* *Partial failure.* A program is written in seven frames; a mutation whose
  answer is lost must not be replayed; a store's save fails after memory was
  changed.
* *Restart.* What is in a store file is all that survives; the controller may
  be half written.
* *Other actors.* The phone edits programs and names, starts and ends runs,
  between any two connections, and while a form is open.
* *Time.* A form stays open over midnight; a countdown means another day each
  day; a cooldown may outlive what it waits for.

### What makes each part correct

* Protected programs: an uncertain controller is always told by the journal,
  in the file; the restore point changes on request only; success means
  restored; a journal whose outcome is visible gets settled.
* Transport: nobody runs over an unfinished cleanup or release; every
  connection has an owner; a mutation is sent once; every call ends.
* Manual watering: a refusal has a reason and an end; every monitor ends.
* Activity history: a run Home Assistant started is never blamed on others.
* Rainfall: an edit by the user is never overwritten; one delay per wet
  episode; the adjuster knows its own writes again, after a restart too.
* Station names: the file tells of every name that may be torn, over the same
  abstract journal; no rename goes over names its form did not show; a name the
  user was told is saved comes back after a restart.
* Polling: every long read is made in the end; a clock that is to be set is set
  without waiting for the next day.
* Health: the repair issues come up in an outage that does not end, the
  stuck-adapter one not in a shorter one by polls and background reads alone,
  and the first goes after a quiet period.
* Program editor: a write that is reported done has replaced what the editor
  was opened with by what was shown, whatever day it has become.
* Schedule arithmetic: the next start is the controller's next start.

The hazards behind these properties, each at its line, are in `PROJECT.json`.

## 2. The modules

| module | is | models |
|---|---|---|
| `WriteAheadJournal` | abstract specification | what a durable before/expected journal promises about a device |
| `ProgramRestore` | component | the protected programs: store object, store file, restores, refresh, backup update, editor, phone, restarts |
| `ProgramRestoreProofs` | proofs | type correctness, the journal invariant, the refinement, what success means, the backup and its snapshot |
| `BleLink` | component | lock, clients, links, retries, cleanups, releases |
| `BleLinkProofs` | proofs | the transport's invariant, and who owns a connection |
| `ActivityHistory` | operators | `WateringActivity` as functions of its state, an intent and a status |
| `WateringControl` | component, composes `ActivityHistory` | callers, monitors, poll, unload, restart, the controller's runs |
| `WateringControlProofs` | proofs | types, why a start is refused, whom a run is attributed to |
| `Rainfall` | component | an adjustment step by step, the phone, the user's configuration, restarts |
| `RainfallProofs` | proofs | the adjuster's invariant and its four properties |
| `BleHealth` | component | streak, failure window, both repair issues, polls, background reads and reads the user forces, reload, restart |
| `BleHealthProofs` | proofs | types, the recovery period, how long a streak takes |
| `HeavyReads` | component | the long reads: gate, lock, cooldowns, the four tasks that make them |
| `ClockSync` | component | when a poll sets the controller's clock |
| `PollingProofs` | proofs | the lock of the long reads, the sync that is owed, the parts of `MCPolling` side by side |
| `StationNames` | component | the rename, the names shown and kept, the background read, the width; implements `WriteAheadJournal` |
| `StationNamesProofs` | proofs | the rename's invariants and its refinement; the parts of `MCOptions` side by side |
| `Schedule` | operators | the cycle rules, the next start, the countdown; what the controller makes of a program |
| `ProgramEditor` | component, composes `Schedule` | the editor's forms and confirmations, its write, days that pass |
| `ProgramEditorProofs` | proofs | what is written is what was shown; the next start is the controller's |
| `MC*` | instances | constants for TLC; `MCPolling` and `MCOptions` put several components side by side |

### ProgramRestore

`mem` and `disk` are `ProgramBackupStore`'s three fields and its file; `queued`
is Home Assistant's `Store`, which lets one writer at a time write the data
that was handed over last, whichever task wakes up. `ctl` is the controller:
write blocks of the three user programs (`Editable`), of the nine extra slots
(`Hidden`) and the header date the controller changes by itself. `task[r].pc`
says where `restore_irrigation_programs` is: `reading` → `read` (→ `settling`
when an earlier restore is pending) → `planning` → `journaling` → `preflight` →
`ready` → `writing` → `verified` → `finishing`, or `aborting`. The refresh, the
backup update and the editor have the same form. Two history variables follow
what is not known: `unsettled` holds the journal entries under which frames were
sent and whose outcome no complete read has told (`Told`), over retries as well,
and `forgotten` says that the mark was taken away while such an entry was left,
together with the entry of a retry that had replaced it (`MarkTaken`).
`write_program_frames` is modelled frame by frame (`WriteBlock`, `LoseWrite`,
`ReadBack`), in the granularity of one block per program.

### BleLink

A task calls an operation on its client, enters the lock, checks the deferred
cleanup, drains the client's background releases, connects (or reuses a held
link), runs, cleans up, and retries at most `MaxAttempts` times. `active`,
`releases` and `idle` are the persistent client's `_active_client`,
`_pending_releases` and idle timer; `deferred` is `ControllerLock.recover`.
`up` is the connection the controller is on. Cancellation is possible at each
of these places, a drop whenever a connection is up. `LateConnects` are the
clients whose connect may end as the operation's time runs out.

### WateringControl and ActivityHistory

`dev` is what the controller waters and why (`cause`: known to the model, not
to the code). `call[u].pc` is where a valve's or button's action is: `journal`
→ `send` → `status`, or `join` for a stop that awaits the monitor. `mon[m]` is
the monitor of run `m`: `head`, `sleep`, `publish`, `final`, `ended`; `co.ref`
is the one the coordinator still knows. Every status goes through `Applied`
(`apply_status`) and `Observed` (`observe`). Time enters as the three questions
the code asks: was the last status recent, has the intent expired, do the
monitor's sleeps already exceed the run. The schedule arithmetic behind the
guess "Scheduled" is a choice. A record's `cause` is history: what started the
run that it was last written for. So is `displaced`: a start has replaced a
different intent that no status had been compared with, and what is recorded has
gone on since.

### Rainfall

`task.pc` follows `_apply_locked`: `read` → `next` → `journal` → `preflight` →
`ready` → `reread` → `next` … → `finish`, or `claim` → `delay` for a complete
skip. An adjustment holds its lock, the heavy-read lock and the controller's
transaction, so no other task of Home Assistant comes between, but the phone
does: every operation connects anew. `foreign`, `managed` and `trampled` are
history: a program somebody edited to what the adjuster never expected, the
budgets it did expect, and that it overwrote such an edit. An edit made between
the preflight of a write and the read after it, or back to what that read
brought, is `unseen`: no check of the running adjustment looks at it, and
`PhoneEditsKept` leaves it out until the next adjustment has read it. Budgets are percentages
rounded as Python rounds; the floating-point error of `baseline * fraction` is
left out.

### HeavyReads, ClockSync, BleHealth (MCPolling)

A status poll sets three things off. *HeavyReads*: `gate` is shut until a poll
is answered, then deferred, then open (`_first_successful_status_at`,
`_schedule_gate`); `task[t]` says where the metadata task, the first, the
periodic and the user's refresh are; `timer` holds the cooldowns that run.
*ClockSync*: `pending`, `seen`, `cooling` and `fresh` are `_set_time_pending`,
the last `time_alarm`, and the two time limits; `owed` is history: the time is
to be set. *BleHealth* counts ticks: `co` holds the streak, the failure window,
the time since the first healthy cycle and the detector's marks; `registry` is
Home Assistant's; `quiet`, `outage` and `forced` (reads forced by the user that
failed in the present streak) are history. Stamps are ages that stop
growing where no comparison tells them apart any more. The parts share no state
but the poll, so `MCPolling` is their sum: the variable `about` says which one
an instance is about, and fairness is that of this one.

### StationNames

`flow[f].pc` follows the options flow and the manager under it: `opening` (→
`settling`) → `select` → `draft` → `waiting` → `checking` → `journaling` →
`writing` → `first` → `second` → `verify` → `finishing` → `publishing`, with the
failures of each await. The manager's file is `disk`, the cache of shown names `cache`. A name
is a value; between its two frames the controller holds `Torn`. `promised` is
history: the name the user was told.

### Schedule and ProgramEditor (MCOptions)

A time is a day and a time of day; `Schedule` is `schedule.py` and the
countdown of `ble/protocol.py`, next to what the controller makes of a program:
it counts `synchro` down every midnight and waters at nought (what the code
assumes, "pending hardware validation"). `flow` is the editor; `snap` is
`last_snapshot`, `cached` the coordinator's programs, `ctl` the controller. The
two reads before a write are one step, `Preflight`: both compare with one
revision, so that a change between them ends in the same refusal. What the
user fills in is the program shown, left as it is, or one of `Forms` with a
first run day the form offers. A form that does not parse is left out, and so
is a period below a day, which the form does not take (`config_flow.py:1400`)
but a program read from the controller may have.
`MCOptions` is again a sum, taken with the theorems about the editor: `menu`
says whether an instance is about the names, the editor, or the next starts of
more programs than the editor is tried on.

## 3. What TLC checks

| run | specification | shows | bounds |
|---|---|---|---|
| `restore_serial` | `SerialSpec` | types, `PendingUntilTold`, `WriteIsJournaled`, `SnapshotAgrees`, `BackupChangesOnlyOnRequest`, `SuccessMeansRestored`, refinement `ImplementsJournal` | 2 blocks and 1 hidden, 2 dates, 3 contents one of which cannot be encoded; 2 restores (a retry after an uncertain one), 1 edit, 1 crash; fresh and 3 legacy stores |
| `restore_liveness` | `FairSpec` | `RestoreEnds`, `KnownOutcomeSettles` | 1 restore, 1 crash, 3 dates (same month and next month) |
| `restore_refresh_race` | `Spec` | `UncertainStaysPending` fails | 1 restore |
| `link` | `FairSpec` | types, ownership of links, no overrun of cleanups and releases, no replay, `CallEnds` | a persistent client with 2 tasks and a stateless one; 2 attempts, 3 links, 3 calls |
| `link_leak` | `Spec` | `LinkIsOwned` fails | the same, the persistent client's connect may be late |
| `watering` | `Spec`, `Undisturbed` | types, `OwnRunNotExternal` | 2 callers, 2 stations, 1 program; 2 runs, 2 commands, 1 cancellation, 1 restart |
| `watering_liveness` | `FairSpec` | `RefusalIsJustified`, `StartPossibleAgain`, `MonitorsEnd` | 2 callers, 1 station, 2 runs, 2 commands, 1 cancellation |
| `watering_blame` | `Spec` | `OwnRunNotExternal` fails | no cancellation, no restart |
| `rain` | `Spec` | types, `PhoneEditsKept`, `DelayedOnce`, `OwnWritesExpected` | 2 selected and 1 unselected program; 2 adjustments, 1 edit, 1 reconfiguration, 1 failure, 1 restart |
| `rain_lost_write` | `Spec` | `RefusedOnlyIfEdited` fails | no edit, no reconfiguration |
| `polling` | `MCSpec`, fair | types, `EverythingRead`, `ClockIsSet`, `ClearsOnlyWhenQuiet`, `EpisodesDoNotTrip`, `OutageIsReported`, `RecoveryIsReported` | reads and clock: 1 watering, 1 refresh by the user, failures unbounded; health: a poll a tick, a read every 2, window 1, threshold and recovery 2, episode 2, stuck after 4, 1 forced read that fails in a streak, 1 reload, 1 restart |
| `options` | `MCSpec`, names fair | types, `ImplementsJournal`, `NoBlindOverwrite`, `NoResurrection`, `WidthIsProven`, `NamesRead`; `SuccessIsAsShown`; `NextStartIsTrue` | names: 1 flow, 2 outputs of which 1 is configured, 2 renames, 1 name changed elsewhere, 1 restart; editor: 2 programs, 1 edit elsewhere, 1 preset, 2 submits, one midnight; sensors: 32 programs, a month's end, horizon 20 days |

*Why the bounds suffice.* Each hazard needs at most two actors of a kind: a
retry after one failure, a second caller beside the first, a stateless client
beside the persistent one, a second program after the first. Two blocks are
the least that make a half-written controller differ from both ends of its
journal; two dates make a difference the code forgives, a third (another
month) one it does not. The phone budgets 3 and 10 and the discounts 0, 4 and
50 % give a budget that rounds to nothing, one that is neither, and a complete
skip. The constants' bounds (`Max…`) only cut behaviours short; actions that
undo themselves (a mode, a poll, a refresh) are not bounded.

The health run keeps the order of the code's constants (the stuck threshold
above an episode's length and above what the background reads add, the window
long enough for the threshold); it says nothing of other scan intervals (see
section 4). An interval of 16 days is longer than the lookahead of 14, the 30th
and the 31st before a 1st are where the parity rules differ, and one midnight
is enough for every pair of steps to fall on two days.

*Deadlock* is checked for the protected programs, the transport, `polling` and
`options`. It is not for `WateringControl` and `Rainfall`, where an exhausted
bound may leave nothing to do.

*Symmetry* is used in runs without a liveness property only, over callers and
selected programs, which the modules treat alike.

### Restricted instances

`SerialSpec` lets one operation at a time use the protected store while a
restore runs: `StartAlone`, `RefreshAlone` and `UpdateAlone` begin one only when
no other is in progress; every other step is that of `Spec` (`SerialStep` proves
that nothing more is needed). The constant `Undisturbed` lets no status be
observed between the journaling of a start and its sending. Nothing in the code
enforces either: they say what a careful user (and luck) provides, and the runs
`restore_refresh_race` and `watering_blame` show what happens without. The
property that matters under concurrency, that a successful restore has
restored, is checked under `SerialSpec` and proved under the full `Spec`
(section 5), of restores that overlap too. `options` has one editor of the
names: a second one on the same entry settles the first one's journal (section
4).

### Fairness

Weak fairness on the steps of tasks: the event loop runs every task that is
ready, and every BLE wait has a timeout, after which the step fails rather than
stays. Strong fairness on entering the lock (`asyncio.Lock` is first come,
first served), on the refresh's read and on `Poll`: both are repeated by Home
Assistant's coordinator for ever, and a controller in reach answers some of
them. For the same reason it is strong on the answered poll, the long reads
that succeed and the clock that is set (`HeavyReads`, `ClockSync`) and on the
background read (`StationNames`), and health assumes only that time passes and
that due polls end, one way or the other. `RunEnds` is fair because the
controller counts every run down. Nothing is assumed of users, phones, failures
or restarts.

## 4. Where the code and its documentation differ

1. A schedule refresh that read the programs before a restore journaled its
   entry takes that entry for settled (`coordinator_polling.py:446`), because
   the snapshot equals its `before`. A lost write then leaves nothing pending,
   against README lines 193-195. (`restore_refresh_race`)
2. A persistent client whose deadline is found exhausted right after the
   connect resets its session state first, so that the `finally` clause finds
   nothing to release (`ble/client_persistent.py:542-544`): the connection is
   owned by nobody, and the controller takes only one. (`link_leak`)
3. A status without a run drops a pending intent also when it was read before
   the command was sent (`activity.py:284`); the run is then attributed to the
   phone or the schedule, against the comment at `activity.py:125`.
   (`watering_blame`)
4. The adjuster replaces the budget it expects before that budget is saved and
   written (`rainfall.py:240`). When either fails, the controller still holds a
   budget the adjuster wrote and no longer knows, and every later adjustment is
   refused as an edit "outside rainfall adjustment". (`rain_lost_write`)

Seen in the models but without a run of their own:

* *Restore.* The retry of an uncertain restore replaces the pending journal by
  its own, whose `before` is the half restored controller. When the retry fails
  before its first frame it clears that (`coordinator.py:754`), and when its own
  link is lost with nothing stored, the next read equals its `before` and clears
  it, too (`program_backup.py:237`): the controller is half restored and nothing
  is pending, against README lines 193-195. `PendingUntilTold` therefore allows
  it, as `forgotten`, and nothing else; with `UncertainStaysPending` among the
  invariants of `restore_serial.cfg` TLC shows the first case, in two restores
  one after the other, with nothing overlapping.
  An update of the backup that has read when a restore starts replaces the
  programs and the snapshot, after which the restore sets the snapshot to what
  it restored from the backup copied before (`coordinator.py:731`): the store
  then pairs one task's programs with the other's snapshot. `SnapshotAgrees` is
  a property of one operation at a time, and so is everything else under
  `SerialSpec`; what is known of overlapping restores is `SuccessDelivers`, and
  of a refresh or an update beside a restore `restore_liveness`.
* *Watering.* A start, even one then refused or failed, journals its intent over
  that of an earlier start no status has been compared with (`activity.py:123`).
  When the earlier one's run then shows, nothing matches it, and a record of
  "Manual Bluetooth" goes on over it (`activity.py:300-311`): Home Assistant's
  own run is recorded as the phone's. `OwnRunNotExternal` leaves this out
  (`displaced`) as long as that record goes on, and nothing else. A confirmation
  may mark another caller's intent (`activity.py:129`); the finally clause of a forgotten monitor clears the
  active mark of a newer run (`coordinator_irrigation.py:97`); a start that
  outlives the unload creates a monitor afterwards (`coordinator.py:347`).
* *Transport.* Each client object waits for its own releases only
  (`ble/client_persistent.py:176`), so that a reload's disconnect races the new
  client's first connect; plain commands are retried after a lost
  acknowledgement (`ble/client_v2.py:1764`).
* *Rainfall.* A delay whose save or command failed counts as given
  (`rainfall.py:267`); the second program of an adjustment is written over an
  edit made since the first one's preflight (`rainfall.py:245`).
* *Health.* A reload forgets that its predecessor raised the repair issue,
  which then stays until Home Assistant restarts (`RecoveryIsReported` leaves
  reloads out). The failure window is pruned by failures only
  (`bluetooth_issue.py:144`), so that a device may count as stale long after it
  recovered (`StaleOnlyInWindow`). With a scan interval of an hour the half
  hour's window never holds four failures; with one of ten seconds ten degraded
  cycles are shorter than the episode the threshold is to outlast, whose
  comment (`stuck_recovery.py:38`) counts in cycles of 90 s. And a program read
  the user forces (the refresh button, the service, `config_flow.py:578`, 739
  and 1084) asks neither the gate nor a cooldown, but counts as a degraded cycle
  when it fails (`coordinator_polling.py:411-437`): a few failing refreshes by an
  impatient user, with the ordinary polls, reach the threshold well inside an
  episode, against the comment at `stuck_recovery.py:35-38`.
  `EpisodesDoNotTrip` counts them in. A poll asked for through Home Assistant's
  own `update_entity` service would count as well; it is not modelled.
* *Clock.* A pending sync ignores the cooldown of a failed attempt, and warns
  at every poll of an outage, against `coordinator_polling.py:143-145`.
* *Programs.* A refresh returns without a read while a run is active
  (`coordinator_polling.py:411`) and is reported as done, against its docstring
  (392-395); an editor opened then shows the programs known before, and may
  take a later revision for theirs, which is why `SuccessIsAsShown` asks for an
  editor that has read. An edit between the write's last check and its frames
  is overwritten. Midnight between the two ends in a failed write that did
  succeed; so does a store that cannot be saved after a verified write
  (`coordinator.py:537`). A failed write shows programs read afresh but keeps the
  revision of the opening (`config_flow.py:1084`): if the program had changed, no
  submit of this form can succeed.
* *Names.* A second editor's read settles the journal while the first one's is
  being saved (`station_names.py:141`), and its write goes on with none. A form
  that is handed in again after a failure is compared with the manager's
  current names, not with those it showed. The names are read once per session
  (`coordinator_polling.py:292`), not with every refresh as `display_names.py:11-14`
  has it. Of a controller without any name the width may exceed what its client
  takes for its own (`coordinator_polling.py:326`, `ble/client_v2.py:1150-1157`).

## 5. What is proved

`tlapm` proves the following for every value of the constants that satisfies
the modules' assumptions.

*ProgramRestoreProofs.* `TypeCorrect` (`Spec => []TypeOK`) under every
interleaving, one lemma per group of actions. Under `SerialSpec`:
`MarkStays`, `JournaledBeforeWrite` and `FileImplementsJournal`. Neither
property is inductive: that frames are sent under the right entry depends on
what memory and file have held since `async_begin_restore`. The strengthening
`JournalInv` says, for every place of a restore, that its own entry is in
memory, that the file has it from the end of the save on, that it is none of the
untold ones before the first frame, and that a backup exists (so the editor has
no first backup to save in between). `MarkStays` is `PendingUntilTold`, with the
exemption of the retry (section 4). The refinement maps `journal` to the file's
entry, `device` to the controller and `dirty` to `Dirty`: the file's entry is
untold and no retry's has replaced it. Each step is then a step of
`WriteAheadJournal` or a stutter, by `JournalInv`.
`SuccessDelivers` (`Spec => SuccessMeansRestored`) holds under every
interleaving, of restores that overlap too, from `PlanInv`: what a restore waits
to read back is its own backup over what it has read itself (`Planned`), and
nobody else changes either. The two steps that report success have compared the
controller, or what was read of it, with that.

`SnapshotsAgree` and `BackupIsProtected` are proved of `SerialSpec`, from
`BackupInv`: on top of `JournalInv`, that a store, in memory and in the file,
is `Sound` (its snapshot, and what its journal expects, stand for its backup),
that a restore works for the backup in memory, and that the file's backup is
the one in memory unless an update the user asked for is being saved. One
operation at a time is needed: overlapping tasks share the one write that Home
Assistant has queued, and which task's data it holds is then anybody's.

*BleLinkProofs.* `LinkTypes`, `NoCleanupOverrun`, `ReleasesDrained` and
`SentOnce` under `Spec`, from the inductive `LinkInv`: the types, what each
client's fields imply (`ClientsFit`), and for each place of a task what it
implies about the lock, the deferred cleanup, the client's releases and the
number of frames sent (`Fits`). The argument for the cleanups is that a task is
beyond its check only as the lock's owner, and only the owner defers; for the
releases, that they are drained under the lock and begun by the owner or by a
timer that finds no operation under way. `EveryLinkOwned` adds whose the
connection is (`OwnerInv`), when no persistent client's connect may end as its
time runs out (`LateConnects \cap Persistent = {}`): with such a connect
`LinkIsOwned` is false (`link_leak`).

*WateringControlProofs.* `WateringTypes` and `RefusalJustified` under `Spec`:
with the types (`WateringInv`, which has every caller's operation and target fit
its place) the reason for a refusal is inductive, since a step that takes one
reason away clears the active mark or leaves another.
`OwnRunNotBlamed` needs `Undisturbed` and `~LongPolls`, that is polls no more
than 135 seconds apart, so that an intent cannot expire between two statuses
that count as continuous. `AttributionInv` says that a run of Home Assistant's
own, no intent displaced, has an awaited intent that fits it until a status
shows it, and from then on a record that blames nobody else; only a history that
has seen nothing yet may lack both, and then it calls the run unknown. Without `Undisturbed` it is false (`watering_blame`).

*RainfallProofs.* `RainTypes`, `EditsKept`, `OneDelay` and `WritesExpected`,
all four properties of the adjuster under `Spec`, from `RainInv`: what is
expected has been managed (`ExpectedManaged`), a budget on its way is in range
and, once saved, in the file (`BudgetUnderway`), a program accepted and still
equal to the snapshot is none the adjuster must not touch (`AcceptedHarmless`),
and a delayed episode is known in memory and in the file (`EpisodeKnown`). The
argument for the edits is that the preflight compares the whole revision: what
it lets pass is what was accepted, or an edit that fell in the window. The
range of a discount is a lemma about the rounding (`DiscountInRange`).

*BleHealthProofs.* `HealthTypes`, `ClearedWhenQuiet` and `EpisodesTripNothing`
under `Spec`. `RecoveryInv`: the recovery period is no older than the last
degradation. `StreakInv`: within an episode, the polls and the reads that failed
fit into the time since the last healthy poll, each kind at its own interval,
and the streak is at most their number and that of the user's failing refreshes
together. `EpisodesTripNothing` assumes nothing: it says how many of the latter
it takes. Its corollary `UserTripsEpisodes` assumes `EpisodeIsShort`: the polls
and program reads that fit into an episode are fewer, by two, than the stuck
threshold. Then polls and background reads alone never raise the repair within
an episode. The code's numbers (a threshold of ten, an episode of ten minutes,
programs tried again every 15 minutes) meet it at scan intervals of 75 seconds
and more; the default is 120.

*PollingProofs.* `ReadsExclude`: who makes a long read holds the lock, which is
part of `HeavyTypeOK`; a task moves among the places outside the reads, takes
the free lock, keeps it or releases it, and each action is one of these four
moves. `OwedSyncIsKnown`: a clock that is to be set is pending or has its alarm
on, the safety half of `ClockIsSet`. `PartsSideBySide`: an instance of
`MCPolling` is a behaviour of each part, so that `PollingTypeOK` follows.

*StationNamesProofs.* For any number of editors: the types, that the width is
proven and that no name the user was told is saved is lost (`NamesInv`: a
promised name is shown, and in the cache or on its way there). With one editor
(`OneEditor`), `RenameIsJournaled`, the refinement of `WriteAheadJournal` with
the same mapping as for the programs, and `NothingOverwrittenBlindly`, from
`EditorInv`, which says for each place of the editor what is in memory and file
and which names its draft was made from. With two editors both fail, which is
why the assumption is there: a second one's read replaces the manager's
snapshot and settles the first one's journal (section 4).

*ProgramEditorProofs.* `ShownIsWritten`: by `EditorInv` a revision that is still
the controller's makes the day of the opening, of the form, of the confirmation
and of the write one and the same, so that the countdown counted for the form is
the one written. `NextStartAlwaysTrue`, from `NextStartCorrect`, a fact about
`Schedule` alone: the recursive countdown exists and counts down by one a
midnight (shown by a least counterexample), an interval's days are the next two
runs, and any fortnight has a day of every calendar cycle that has one. Both
take the constants for what they stand for (`EditorConstants`: programs, presets
and forms of the code's shape; `CalendarHolds`: days of a month follow each
other, a month has 28 days at least, the reference looks as far as the longest
interval and no less than the code), which `MCOptions` assumes and TLC
evaluates. `OptionsTypes`, `OptionsShownIsWritten` and `OptionsNextStart` (in
`StationNamesProofs`, where both editors meet) take them over to the instances
of the options flow.

*Only model-checked.* Liveness (`RestoreEnds`, `KnownOutcomeSettles`,
`CallEnds`, `StartPossibleAgain`, `MonitorsEnd`, `EverythingRead`, `ClockIsSet`,
`NamesRead`, `OutageIsReported`, `RecoveryIsReported`): the provers do not
reason about fairness and ENABLED. Every invariant and every action property of
the runs that hold is stated by a theorem, some under the assumptions named
above. Induction is done by least elements (`NatLessThanWellFounded`,
`WFMin`), as the library's induction theorems take an operator that no prover
here can instantiate.

## 6. What is not modelled

* Byte layouts, checksums and frame reassembly (`ble/protocol.py`): a program
  block, a status, a name or a budget is a value.
* Notification routing by time windows, and the in-place retry of the station
  name read (`ble/client_v2.py`).
* What is shown besides state: remaining time, program numbers, translations,
  the list of finished runs, diagnostics.
* Set-up, migration, the steps that add an entry, the settings page, services
  and entity dispatch, which are Home Assistant's life cycle; what they change
  (stores, baselines, client objects) appears as the actions `Restart`,
  `Reload`, `Configure`, `Unload`, as the commands of `WateringControl` and as
  `BleLink`'s second client.
* Daylight saving: a day is a day. Texts of forms and warnings.
* Lost clocks of Home Assistant: the countdown and the controller's own day
  agree.
* Whether an automatic rainfall check is due, and how fresh the report is: they
  decide whether an adjustment begins, and it may always begin.

## 7. Plan

Done, in this order: `ProgramRestore` with `WriteAheadJournal` (the part where
a mistake costs a user's programs), `BleLink` (what everything else stands on),
`ActivityHistory` and `WateringControl`, `Rainfall`; the proofs of
`ProgramRestore`, `BleLink` and `Rainfall`; `BleHealth`, `HeavyReads` and
`ClockSync`; `StationNames`; `Schedule` and `ProgramEditor`; the proofs of all
of these.

Next:

1. Proofs of what holds where today's assumptions do not: which part of
   `SnapshotAgrees` and `PendingUntilTold` survives when only the refresh,
   or only the editor, overlaps a restore; of two editors of the names.
2. The status decoding and the snapshot patch (`ble/protocol.py`,
   `ble/snapshot.py`) as functions against references over bounded inputs.
3. The settings page with the reload it causes, and the set-up flow's probe.
