---------------------------- MODULE StationNames ----------------------------
(***************************************************************************)
(* The station names: the journalled rename of the options flow            *)
(* (station_names.py), the names the coordinator shows and keeps over a    *)
(* restart (coordinator.py, display_names.py), the background read that    *)
(* brings them, and the width, raised by what reads prove.                 *)
(*                                                                         *)
(* A name is a model value. The controller stores it in two halves, so     *)
(* between the two frames of a rename it may hold a Torn one.              *)
(***************************************************************************)
EXTENDS Integers, FiniteSets, FiniteSetsExt, Functions

CONSTANTS
    None,
    Flows,        \* options flows that rename stations
    Names,        \* names a user may choose
    Blank, Torn,
    Slots,        \* outputs the controller reports
    Configured,   \* num_stations of the config entry
    Start,        \* the names on the controller at first
    MaxRenames,   \* bound: submitted renames
    MaxPhone,     \* bound: names changed on the controller by others
    MaxRestarts   \* bound: restarts of Home Assistant

Outputs == 1..Slots
NameMaps == [Outputs -> Names \cup {Blank, Torn}]
Entries == [before : NameMaps, expected : NameMaps]

ASSUME NamesAssumption ==
    /\ Configured \in 1..Slots /\ Slots \in Nat
    /\ Blank \notin Names /\ Torn \notin Names \cup {Blank}
    /\ None \notin Names \cup {Blank, Torn} \cup Flows \cup NameMaps \cup Entries
    /\ "metadata" \notin Flows \cup {None}
    /\ Start \in [1..Slots -> Names \cup {Blank}]
    /\ {MaxRenames, MaxPhone, MaxRestarts} \subseteq Nat

VARIABLES
    ctl,        \* the names the controller holds
    mgr,        \* StationNameManager: its snapshot and its journal
    disk,       \* the manager's store file: a journal, or None
    co,         \* the coordinator: names shown, width, whether restored,
                \* and the width its client knows (station_count)
    cache,      \* DisplayNamesStore's file
    lock,       \* who holds _heavy_read_lock: a flow, "metadata", or None
    flow,       \* where each options flow is
    unverified, \* history: frames were sent and no complete read was compared
    promised,   \* history: the name the user was told a station has
    blind,      \* history: a read since the start showed no name at all
    spent       \* how much of each bound is used

vars == <<ctl, mgr, disk, co, cache, lock, flow, unverified, promised, blind, spent>>

-----------------------------------------------------------------------------
(* Operators.                                                              *)

Named(names) == {s \in Outputs : names[s] # Blank}

\* StationNameSnapshot.station_count: the highest named output, and of a
\* controller without any name the highest one it reports.
StationCount(names) == IF Named(names) = {} THEN Slots ELSE Max(Named(names))

\* Mutant: the client keeps the width it was built with.
CountedNever(count, names) == count

\* What a complete read does to the client's station_count.
Counted(count, names) ==
    Max({count, IF Named(names) = {} THEN Configured ELSE StationCount(names)})

\* adopt_device_station_count: upwards only.
Adopted(width, count) == IF count > width THEN count ELSE width

\* station_names.update: the names of the stations there are. (A blank one is
\* shown as the station's number.)
Shown(shown, names, width) ==
    [s \in 1..width \cup DOMAIN shown |-> IF s <= width THEN names[s] ELSE shown[s]]

\* A promise lasts until the names shown are another read's.
StillPromised(names) ==
    [s \in Outputs |-> IF names[s] = promised[s] THEN promised[s] ELSE None]

\* The journal a complete read settles.
Settled(journal, names, accept) ==
    /\ journal # None
    /\ accept \/ names \in {journal.before, journal.expected}

EmptyFlow == [pc |-> "idle", tries |-> 0, accept |-> FALSE, station |-> 1,
              name |-> None, revision |-> None, entry |-> None,
              displayed |-> None, failed |-> FALSE]

Goto(f, pc) == flow' = [flow EXCEPT ![f].pc = pc]

\* The form shows an error; the draft stays.
FormAgain(f) == flow' = [flow EXCEPT ![f].pc = "draft", ![f].failed = TRUE,
                                     ![f].entry = None, ![f].revision = None,
                                     ![f].name = None]

InSession(f) == flow[f].pc \in {"first", "second", "verify"}

\* One connection at a time, and nobody else's while it is up.
LinkFree == \A f \in Flows : ~InSession(f)

\* What a new coordinator has, given the files.
Restored == [shown |-> Restrict(cache, (1..Configured) \cap DOMAIN cache),
             width |-> Configured, restored |-> DOMAIN cache # {},
             count |-> Configured]

Init ==
    /\ ctl = Start
    /\ mgr = [snapshot |-> None, pending |-> None]
    /\ disk = None
    /\ cache = <<>>
    /\ co = [shown |-> <<>>, width |-> Configured, restored |-> FALSE,
             count |-> Configured]
    /\ lock = None
    /\ flow = [f \in Flows |-> EmptyFlow]
    /\ unverified = FALSE
    /\ promised = [s \in Outputs |-> None]
    /\ blind = FALSE
    /\ spent = [renames |-> 0, phone |-> 0, restarts |-> 0]

-----------------------------------------------------------------------------
(* Opening the editor.                                                     *)

\* async_step_station_select, for the first time.
Open(f) ==
    /\ flow[f].pc = "idle"
    /\ flow' = [flow EXCEPT ![f].pc = "opening", ![f].tries = 1]
    /\ UNCHANGED <<ctl, mgr, disk, co, cache, lock, unverified, promised, blind, spent>>

\* Where a read that was settled, or had nothing to settle, leads: to the
\* choice of a station, or after an accepted journal right to its form.
AfterRefresh(f, names, count) ==
    IF flow[f].accept
    THEN /\ flow' = [flow EXCEPT ![f].pc = "draft", ![f].accept = FALSE,
                                 ![f].tries = 0, ![f].entry = None,
                                 ![f].displayed = names]
         /\ co' = [co EXCEPT !.count = count]
    ELSE /\ flow' = [flow EXCEPT ![f].pc = "select", ![f].tries = 0,
                                 ![f].entry = None]
         /\ co' = [co EXCEPT !.count = count, !.width = Adopted(@, count)]

\* manager.refresh: it does not take the heavy-read lock.
ReadOpens(f) ==
    /\ flow[f].pc = "opening" /\ LinkFree
    /\ unverified' = FALSE
    /\ blind' = (blind \/ Named(ctl) = {})
    /\ LET count == Counted(co.count, ctl)
       IN  IF Settled(mgr.pending, ctl, flow[f].accept)
           THEN /\ mgr' = [snapshot |-> ctl, pending |-> None]
                /\ co' = [co EXCEPT !.count = count]
                /\ flow' = [flow EXCEPT ![f].pc = "settling",
                                        ![f].entry = mgr.pending]
           ELSE /\ mgr' = [mgr EXCEPT !.snapshot = ctl]
                /\ AfterRefresh(f, ctl, count)
    /\ UNCHANGED <<ctl, disk, cache, lock, promised, spent>>

\* _refresh_with_retry: a failed read is tried once more.
ReadOpensFails(f) ==
    /\ flow[f].pc = "opening" /\ flow[f].tries = 1
    /\ flow' = [flow EXCEPT ![f].tries = 2]
    /\ UNCHANGED <<ctl, mgr, disk, co, cache, lock, unverified, promised, blind, spent>>

Aborts(f) ==
    /\ flow[f].pc = "opening" /\ flow[f].tries = 2
    /\ flow' = [flow EXCEPT ![f] = EmptyFlow]
    /\ UNCHANGED <<ctl, mgr, disk, co, cache, lock, unverified, promised, blind, spent>>

SettleSaved(f) ==
    /\ flow[f].pc = "settling"
    /\ disk' = mgr.pending
    /\ AfterRefresh(f, mgr.snapshot, co.count)
    /\ UNCHANGED <<ctl, mgr, cache, lock, unverified, promised, blind, spent>>

SettleFails(f) ==
    /\ flow[f].pc = "settling"
    /\ mgr' = [mgr EXCEPT !.pending = flow[f].entry]
    /\ flow' = [flow EXCEPT ![f] = EmptyFlow]
    /\ UNCHANGED <<ctl, disk, co, cache, lock, unverified, promised, blind, spent>>

\* The station form is sent. While a journal is pending it reads again, with
\* the user's word or without.
Choose(f, s, accept) ==
    /\ flow[f].pc = "select"
    /\ s \in 1..co.width
    /\ accept => mgr.pending # None
    /\ IF mgr.pending = None
       THEN flow' = [flow EXCEPT ![f].pc = "draft", ![f].station = s,
                                 ![f].displayed = mgr.snapshot]
       ELSE flow' = [flow EXCEPT ![f].pc = "opening", ![f].tries = 1,
                                 ![f].accept = accept,
                                 ![f].station = IF accept THEN s ELSE 1]
    /\ UNCHANGED <<ctl, mgr, disk, co, cache, lock, unverified, promised, blind, spent>>

Close(f) ==
    /\ flow[f].pc \in {"select", "draft"}
    /\ flow' = [flow EXCEPT ![f] = EmptyFlow]
    /\ UNCHANGED <<ctl, mgr, disk, co, cache, lock, unverified, promised, blind, spent>>

-----------------------------------------------------------------------------
(* Renaming one output: rename_station and StationNameManager.update.      *)

\* The name form is sent; what the draft was made from is the manager's
\* snapshot of now.
Submit(f, n) ==
    /\ flow[f].pc = "draft"
    /\ spent.renames < MaxRenames
    /\ spent' = [spent EXCEPT !.renames = @ + 1]
    /\ flow' = [flow EXCEPT ![f].pc = "waiting", ![f].name = n,
                            ![f].revision = mgr.snapshot]
    /\ UNCHANGED <<ctl, mgr, disk, co, cache, lock, unverified, promised, blind>>

\* Mutant: the rename does not take the lock.
TakeLockFreely(f) ==
    /\ flow[f].pc = "waiting" /\ lock = None
    /\ IF flow[f].station > Configured \/ mgr.pending # None
       THEN FormAgain(f) ELSE Goto(f, "checking")
    /\ UNCHANGED <<lock, ctl, mgr, disk, co, cache, unverified, promised, blind, spent>>

\* The heavy-read lock is taken. A station beyond the client's constructor
\* width is refused as invalid, any while a journal is pending.
TakeLock(f) ==
    /\ flow[f].pc = "waiting" /\ lock = None
    /\ IF flow[f].station > Configured \/ mgr.pending # None
       THEN FormAgain(f) /\ UNCHANGED lock
       ELSE Goto(f, "checking") /\ lock' = f
    /\ UNCHANGED <<ctl, mgr, disk, co, cache, unverified, promised, blind, spent>>

\* The controller waters, has other firmware, or one of the three reads fails.
CheckFails(f) ==
    /\ flow[f].pc = "checking"
    /\ FormAgain(f)
    /\ lock' = None
    /\ UNCHANGED <<ctl, mgr, disk, co, cache, unverified, promised, blind, spent>>

\* What rename_station does with the names it got, the lock released.
Publish(f, names, count) ==
    /\ co' = [co EXCEPT !.count = count, !.width = Adopted(@, count),
                        !.shown = Shown(@, names, Adopted(co.width, count))]
    /\ promised' = StillPromised(names)
    /\ Goto(f, "publishing")
    /\ lock' = None

\* Mutant: the draft's revision is not compared.
ReadBeforeUnchecked(f) ==
    /\ flow[f].pc = "checking" /\ LinkFree
    /\ unverified' = FALSE
    /\ mgr' = [snapshot |-> ctl,
               pending |-> [before |-> ctl,
                            expected |-> [ctl EXCEPT ![flow[f].station] = flow[f].name]]]
    /\ Goto(f, "journaling")
    /\ UNCHANGED <<ctl, disk, co, cache, lock, promised, blind, spent>>

\* The complete read before the write.
ReadBefore(f) ==
    /\ flow[f].pc = "checking" /\ LinkFree
    /\ unverified' = FALSE
    /\ blind' = (blind \/ Named(ctl) = {})
    /\ LET station == flow[f].station
           count   == Counted(co.count, ctl)
           entry   == [before |-> ctl,
                       expected |-> [ctl EXCEPT ![station] = flow[f].name]]
       IN  \/ /\ ctl # flow[f].revision
              /\ mgr' = [mgr EXCEPT !.snapshot = ctl]
              /\ FormAgain(f)
              /\ lock' = None
              /\ co' = [co EXCEPT !.count = count]
              /\ UNCHANGED promised
           \/ /\ ctl = flow[f].revision /\ ctl[station] = flow[f].name
              /\ mgr' = [mgr EXCEPT !.snapshot = ctl]
              /\ Publish(f, ctl, count)
           \/ /\ ctl = flow[f].revision /\ ctl[station] # flow[f].name
              /\ mgr' = [snapshot |-> ctl, pending |-> entry]
              /\ Goto(f, "journaling")
              /\ co' = [co EXCEPT !.count = count]
              /\ UNCHANGED <<lock, promised>>
    /\ UNCHANGED <<ctl, disk, cache, spent>>

\* Mutant: the journal is kept in memory only.
JournalUnsaved(f) ==
    /\ flow[f].pc = "journaling"
    /\ flow' = [flow EXCEPT ![f].pc = "writing", ![f].entry = mgr.pending]
    /\ UNCHANGED <<ctl, mgr, disk, co, cache, lock, unverified, promised, blind, spent>>

\* The journal is in the file; what it is is read from the manager then.
JournalSaved(f) ==
    /\ flow[f].pc = "journaling"
    /\ disk' = mgr.pending
    /\ flow' = [flow EXCEPT ![f].pc = "writing", ![f].entry = mgr.pending]
    /\ UNCHANGED <<ctl, mgr, co, cache, lock, unverified, promised, blind, spent>>

\* It is not; the manager keeps it all the same.
JournalFails(f) ==
    /\ flow[f].pc = "journaling"
    /\ FormAgain(f)
    /\ lock' = None
    /\ UNCHANGED <<ctl, mgr, disk, co, cache, unverified, promised, blind, spent>>

\* The write's own read, on the connection that will carry the frames.
Preflight(f) ==
    /\ flow[f].pc = "writing" /\ LinkFree
    /\ co' = [co EXCEPT !.count = Counted(@, ctl)]
    /\ blind' = (blind \/ Named(ctl) = {})
    /\ IF ctl = mgr.snapshot
       THEN /\ Goto(f, "first")
            /\ unverified' = TRUE
            /\ UNCHANGED <<mgr, lock>>
       ELSE /\ mgr' = [mgr EXCEPT !.pending = flow[f].entry]
            /\ FormAgain(f)
            /\ lock' = None
            /\ UNCHANGED unverified
    /\ UNCHANGED <<ctl, disk, cache, promised, spent>>

\* A frame was sent: the controller has executed it, which after the first may
\* leave a torn name, or has not (an acknowledgement need not be this frame's).
FirstHalf(f) ==
    {ctl} \cup {[ctl EXCEPT ![flow[f].station] = n] : n \in {Torn, flow[f].name}}
SecondHalf(f) == {ctl, [ctl EXCEPT ![flow[f].station] = flow[f].name]}

SendFirst(f) ==
    /\ flow[f].pc = "first"
    /\ ctl' \in FirstHalf(f)
    /\ Goto(f, "second")
    /\ UNCHANGED <<mgr, disk, co, cache, lock, unverified, promised, blind, spent>>

SendSecond(f) ==
    /\ flow[f].pc = "second"
    /\ ctl' \in SecondHalf(f)
    /\ Goto(f, "verify")
    /\ UNCHANGED <<mgr, disk, co, cache, lock, unverified, promised, blind, spent>>

\* The names are read back and are the expected ones.
Verify(f) ==
    /\ flow[f].pc = "verify"
    /\ ctl = [mgr.snapshot EXCEPT ![flow[f].station] = flow[f].name]
    /\ mgr' = [snapshot |-> ctl, pending |-> None]
    /\ co' = [co EXCEPT !.count = Counted(@, ctl)]
    /\ unverified' = FALSE
    /\ Goto(f, "finishing")
    /\ UNCHANGED <<ctl, disk, cache, lock, promised, blind, spent>>

\* The link is lost, an acknowledgement does not come or says no, the task is
\* cancelled: whether the frame under way was executed nobody knows.
LoseWrite(f) ==
    /\ flow[f].pc \in {"writing", "first", "second", "verify"}
    /\ \/ UNCHANGED ctl
       \/ flow[f].pc = "first" /\ ctl' \in FirstHalf(f)
       \/ flow[f].pc = "second" /\ ctl' \in SecondHalf(f)
    /\ mgr' = [mgr EXCEPT !.pending = flow[f].entry]
    /\ FormAgain(f)
    /\ lock' = None
    /\ UNCHANGED <<disk, co, cache, unverified, promised, blind, spent>>

FinishSaved(f) ==
    /\ flow[f].pc = "finishing"
    /\ disk' = mgr.pending
    /\ Publish(f, mgr.snapshot, co.count)
    /\ UNCHANGED <<ctl, mgr, cache, unverified, blind, spent>>

FinishFails(f) ==
    /\ flow[f].pc = "finishing"
    /\ mgr' = [mgr EXCEPT !.pending = flow[f].entry]
    /\ FormAgain(f)
    /\ lock' = None
    /\ UNCHANGED <<ctl, disk, co, cache, unverified, promised, blind, spent>>

\* Mutant: the editor leaves the cache to the next background read.
CacheLeft(f) ==
    /\ flow[f].pc = "publishing"
    /\ promised' = [promised EXCEPT ![flow[f].station] = flow[f].name]
    /\ flow' = [flow EXCEPT ![f] = EmptyFlow]
    /\ UNCHANGED <<ctl, mgr, disk, co, cache, lock, unverified, blind, spent>>

\* The shown names are in the cache's file: the user is told it is done. (A
\* background read may have shown another name meanwhile.)
CacheSaved(f) ==
    /\ flow[f].pc = "publishing"
    /\ cache' = co.shown
    /\ promised' = [promised EXCEPT ![flow[f].station] =
                      IF co.shown[flow[f].station] = flow[f].name
                      THEN flow[f].name ELSE None]
    /\ flow' = [flow EXCEPT ![f] = EmptyFlow]
    /\ UNCHANGED <<ctl, mgr, disk, co, lock, unverified, blind, spent>>

CacheFails(f) ==
    /\ flow[f].pc = "publishing"
    /\ FormAgain(f)
    /\ UNCHANGED <<ctl, mgr, disk, co, cache, lock, unverified, promised, blind, spent>>

-----------------------------------------------------------------------------
(* The background read, the controller's other users, restarts.            *)

\* Mutant: only the number of names decides.
NamesDueByCount == Cardinality(DOMAIN co.shown) < co.width

\* Names are read once after a restart that restored some, and while there
\* are fewer than stations.
NamesDue == co.restored \/ Cardinality(DOMAIN co.shown) < co.width

\* _fetch_device_metadata_locked, the names' part, up to the cache's save.
\* The width comes from the snapshot, not from the client.
MetadataRead ==
    /\ lock = None /\ LinkFree /\ NamesDue
    /\ lock' = "metadata"
    /\ blind' = (blind \/ Named(ctl) = {})
    /\ LET width == Adopted(co.width, StationCount(ctl))
       IN  co' = [shown |-> Shown(co.shown, ctl, width), width |-> width,
                  restored |-> FALSE, count |-> Counted(co.count, ctl)]
    /\ promised' = StillPromised(ctl)
    /\ UNCHANGED <<ctl, mgr, disk, cache, flow, unverified, spent>>

MetadataSaved ==
    /\ lock = "metadata"
    /\ cache' = co.shown
    /\ lock' = None
    /\ UNCHANGED <<ctl, mgr, disk, co, flow, unverified, promised, blind, spent>>

MetadataSaveFails ==
    /\ lock = "metadata"
    /\ lock' = None
    /\ UNCHANGED <<ctl, mgr, disk, co, cache, flow, unverified, promised, blind, spent>>

PhoneRenames(s, n) ==
    /\ LinkFree
    /\ spent.phone < MaxPhone
    /\ ctl' = [ctl EXCEPT ![s] = n]
    /\ spent' = [spent EXCEPT !.phone = @ + 1]
    /\ UNCHANGED <<mgr, disk, co, cache, lock, flow, unverified, promised, blind>>

\* A new coordinator starts from the two files.
Restart ==
    /\ spent.restarts < MaxRestarts
    /\ spent' = [spent EXCEPT !.restarts = @ + 1]
    /\ mgr' = [snapshot |-> None, pending |-> disk]
    /\ co' = Restored
    /\ lock' = None
    /\ flow' = [f \in Flows |-> EmptyFlow]
    /\ blind' = FALSE
    /\ UNCHANGED <<ctl, disk, cache, unverified, promised>>

\* What a flow does without its user.
FlowStep(f) ==
    \/ ReadOpens(f) \/ ReadOpensFails(f) \/ Aborts(f) \/ SettleSaved(f) \/ SettleFails(f)
    \/ TakeLock(f) \/ CheckFails(f) \/ ReadBefore(f)
    \/ JournalSaved(f) \/ JournalFails(f)
    \/ Preflight(f) \/ SendFirst(f) \/ SendSecond(f) \/ Verify(f) \/ LoseWrite(f)
    \/ FinishSaved(f) \/ FinishFails(f) \/ CacheSaved(f) \/ CacheFails(f)

Next ==
    \/ \E f \in Flows : FlowStep(f)
    \/ \E f \in Flows : Open(f) \/ Close(f)
    \/ \E f \in Flows, s \in Outputs, accept \in BOOLEAN : Choose(f, s, accept)
    \/ \E f \in Flows, n \in Names : Submit(f, n)
    \/ MetadataRead \/ MetadataSaved \/ MetadataSaveFails
    \/ \E s \in Outputs, n \in Names \cup {Blank} : PhoneRenames(s, n)
    \/ Restart

Spec == Init /\ [][Next]_vars

\* The event loop runs every task that can go on; of the background reads,
\* which are repeated for ever, some are answered.
Fairness ==
    /\ \A f \in Flows : WF_vars(FlowStep(f))
    /\ WF_vars(MetadataSaved \/ MetadataSaveFails)
    /\ SF_vars(MetadataRead)

FairSpec == Spec /\ Fairness

-----------------------------------------------------------------------------
(* What the user may rely on.                                              *)

NamesTypeOK ==
    /\ ctl \in NameMaps
    /\ mgr.snapshot \in NameMaps \cup {None} /\ mgr.pending \in Entries \cup {None}
    /\ disk \in Entries \cup {None}
    /\ DOMAIN co.shown \subseteq Outputs /\ co.width \in Configured..Slots
    /\ co.count \in Configured..Slots
    /\ lock \in Flows \cup {"metadata", None}
    \* A flow that goes on from a read has the snapshot.
    /\ \A f \in Flows : flow[f].pc \notin {"idle", "opening"} => mgr.snapshot # None
    \* One that writes has journaled, and holds the lock.
    /\ \A f \in Flows : InSession(f) => lock = f

\* The manager's file is a write-ahead journal for the controller's names, over
\* crashes, failing saves and lost links: "an interrupted save leaves an
\* explicit pending journal ... until a fresh read reconciles the controller
\* state" (station_names.py:16-18).
Journal == INSTANCE WriteAheadJournal
             WITH Entries <- Entries, Devices <- NameMaps,
                  journal <- disk, device <- ctl, dirty <- unverified

ImplementsJournal == Journal!Spec

\* "A stale draft is rejected" (station_names.py:11-12): the names a rename is
\* written over are those its form was opened on, unless a submit of that form
\* has failed before and the user insists.
NoBlindOverwrite ==
    [][\A f \in Flows :
         flow[f].pc = "writing" /\ flow'[f].pc = "first" /\ ~flow[f].failed
            => ctl = flow[f].displayed]_vars

\* A name the user was told is saved is the one shown after a restart too, until
\* a read shows another ("a restart cannot resurrect the pre-rename name",
\* coordinator.py:585-587).
NoResurrection ==
    \A s \in 1..Configured : promised[s] # None =>
        s \in DOMAIN cache /\ cache[s] = promised[s]

\* The coordinator never takes the controller for wider than its client does,
\* nor for narrower than the names it has shown prove (coordinator.py:236-248).
\* A controller without any name is the exception: the background read takes
\* its highest output for its width, which the client does not.
WidthIsProven ==
    /\ co.width <= co.count \/ blind
    /\ \A s \in DOMAIN co.shown : co.shown[s] # Blank => s <= co.width

\* After a restart the names are read again, and every station gets one.
NamesAreRead == <>[](~co.restored /\ 1..co.width \subseteq DOMAIN co.shown)

=============================================================================
