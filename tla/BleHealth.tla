------------------------------ MODULE BleHealth ------------------------------
(***************************************************************************)
(* What the integration tells the user about a bad link: the streak of     *)
(* degraded cycles (ble_health.py), the window of failures behind the      *)
(* "Bluetooth unavailable" repair issue (bluetooth_issue.py) and the       *)
(* stuck-adapter detector (stuck_recovery.py), fed by status polls, by the *)
(* background reads, by the program reads the user forces (the refresh     *)
(* button, the service, the forms of the options) and by the library's log.*)
(*                                                                         *)
(* Time passes in ticks. Stamps are kept as ages, which stop growing once  *)
(* no comparison of the code can tell them apart any more; of the failure  *)
(* deque only the newest Threshold entries matter, since it is only asked  *)
(* whether it holds that many.                                             *)
(***************************************************************************)
EXTENDS Integers, Sequences, SequencesExt

CONSTANTS
    None,
    PollEvery,      \* ticks between two status polls (scan_interval)
    ReadEvery,      \* ticks between two attempts of one background read, and
                    \*   between two refreshes of the schedule coordinator
    Window,         \* WINDOW_SECONDS
    Threshold,      \* WINDOW_FAILURE_THRESHOLD
    Recover,        \* RECOVERY_CLEAR_SECONDS
    StuckAfter,     \* DEGRADED_CYCLE_STUCK_THRESHOLD
    Episode,        \* how long an ordinary wedge-and-recover episode lasts
    MaxForced,      \* bound: reads forced by the user that fail in one streak
    MaxReloads,     \* bound: reloads of the config entry
    MaxRestarts     \* bound: restarts of Home Assistant

ASSUME HealthAssumption ==
    /\ {PollEvery, ReadEvery, Threshold, StuckAfter} \subseteq Nat \ {0}
    /\ {Window, Recover, Episode, MaxForced, MaxReloads, MaxRestarts} \subseteq Nat
    /\ None \notin Nat

VARIABLES
    co,         \* the coordinator's and its detector's fields
    registry,   \* Home Assistant's issue registry
    due,        \* ticks until the next poll, and until each read may be tried
    metadata,   \* whether a metadata read is under way
    bad,        \* history: the last outcome recorded was a degraded one
    quiet,      \* history: ticks since the last degradation
    outage,     \* history: ticks since the last healthy poll, or the start
    forced,     \* history: reads forced by the user that failed, since the
                \*   last outcome which was not a degraded one
    starts      \* how often the entry was reloaded, and Home Assistant started

vars == <<co, registry, due, metadata, bad, quiet, outage, forced, starts>>

Reads == {"metadata", "programs"}

\* The fields a new coordinator starts with, and a new detector.
Fresh == [streak |-> 0, events |-> <<>>, active |-> FALSE, healthy |-> None,
          answered |-> FALSE, seen |-> FALSE, raised |-> FALSE]

HealthTypeOK ==
    /\ co \in [streak: 0..StuckAfter, events: BoundedSeq(0..Window + 1, Threshold),
               active: BOOLEAN, healthy: {None} \cup 0..Recover,
               answered: BOOLEAN, seen: BOOLEAN, raised: BOOLEAN]
    /\ registry \subseteq {"unavailable", "stuck"}
    /\ due \in [{"poll"} \cup Reads -> 0..PollEvery + ReadEvery]
    /\ metadata \in BOOLEAN
    /\ bad \in BOOLEAN
    /\ quiet \in 0..Recover
    /\ outage \in 0..Episode
    /\ forced \in 0..MaxForced
    /\ starts \in [reload: 0..MaxReloads, restart: 0..MaxRestarts]

\* The first poll is made at once, the schedule coordinator's first refresh
\* after its period, unless a poll is answered before.
FirstDue == [x \in {"poll"} \cup Reads |-> IF x = "programs" THEN ReadEvery ELSE 0]

Init ==
    /\ co = Fresh
    /\ registry = {}
    /\ due = FirstDue
    /\ metadata = FALSE
    /\ bad = FALSE
    /\ quiet = Recover
    /\ outage = 0
    /\ forced = 0
    /\ starts = [reload |-> 0, restart |-> 0]

-----------------------------------------------------------------------------
(* What one outcome changes.                                               *)

UpTo(n, bound) == IF n < bound THEN n ELSE bound

\* The newest Threshold entries of a deque, oldest first.
Newest(s) ==
    IF Len(s) > Threshold THEN SubSeq(s, Len(s) - Threshold + 1, Len(s)) ELSE s

\* _prune_window: the oldest entries leave until one is within the window.
Pruned(s) ==
    LET within == {i \in DOMAIN s : s[i] <= Window}
    IN  IF within = {} THEN <<>> ELSE SubSeq(s, Min(within), Len(s))

\* Mutant: the window is never pruned.
DegradedUnpruned(c) ==
    LET events == Append(c.events, 0)
    IN  [c EXCEPT !.events = events,
                  !.healthy = None,
                  !.active = @ \/ Len(events) >= Threshold]

\* Mutant: a failure leaves the recovery period running.
DegradedKeepsHealthy(c) ==
    LET events == Newest(Pruned(Append(c.events, 0)))
    IN  [c EXCEPT !.events = events,
                  !.active = @ \/ Len(events) >= Threshold]

\* Mutant: the threshold is one too high.
DegradedAboveThreshold(c) ==
    LET events == Newest(Pruned(Append(c.events, 0)))
    IN  [c EXCEPT !.events = events,
                  !.healthy = None,
                  !.active = @ \/ Len(events) > Threshold]

\* note_ble_degradation, as far as the fields go.
Degraded(c) ==
    LET events == Newest(Pruned(Append(c.events, 0)))
    IN  [c EXCEPT !.events = events,
                  !.healthy = None,
                  !.active = @ \/ Len(events) >= Threshold]

\* ... and the issue it raises.
IssueRaised(c) == IF Degraded(c).active /\ ~c.active THEN {"unavailable"} ELSE {}

\* note_cycle_outcome(degraded=True): the streak, then the degradation.
StreakExtended(c) == [Degraded(c) EXCEPT !.streak = UpTo(@ + 1, StuckAfter)]

\* Mutant: the streak counts failures, in a row or not.
StreakKept(c) == c

\* note_cycle_outcome(degraded=False).
StreakBroken(c) == [c EXCEPT !.streak = 0]

\* Mutant: every healthy poll starts the recovery period anew.
RecoveredRestarts(c) ==
    IF ~c.active THEN c
    ELSE IF c.healthy # None /\ c.healthy >= Recover
         THEN [c EXCEPT !.active = FALSE, !.healthy = None]
         ELSE [c EXCEPT !.healthy = 0]

\* note_ble_recovery, of a healthy poll: the first one starts the recovery
\* period, one at its end clears the issue.
Recovered(c) ==
    CASE ~c.active           -> c
      [] c.active /\ c.healthy = None -> [c EXCEPT !.healthy = 0]
      [] c.active /\ c.healthy # None ->
            IF c.healthy >= Recover
            THEN [c EXCEPT !.active = FALSE, !.healthy = None]
            ELSE c

\* StuckAdapterDetector._evaluate, of a failed poll.
Stuck(c) == ~c.raised /\ c.streak >= StuckAfter /\ c.seen

\* is_device_stale: whether the user may remove the device.
Stale(c) == c.active \/ Len(c.events) >= Threshold

-----------------------------------------------------------------------------
(* The system.                                                             *)

\* A status poll that went through to its end. A metadata read it sets off
\* runs in the background; the first one ever lets the programs be read.
PollSucceeds(again) ==
    /\ due["poll"] = 0
    /\ LET c == Recovered(co)
       IN  /\ co' = [StreakBroken(c) EXCEPT !.answered = TRUE]
           /\ registry' = IF co.active /\ ~c.active
                          THEN registry \ {"unavailable"} ELSE registry
    /\ again => ~metadata /\ due["metadata"] = 0
    /\ metadata' = (metadata \/ again)
    /\ due' = [due EXCEPT !["poll"] = PollEvery,
                          !["programs"] = IF co.answered THEN @ ELSE 0]
    /\ bad' = FALSE
    /\ outage' = 0
    /\ forced' = 0
    /\ UNCHANGED <<quiet, starts>>

\* A poll that failed: its status could not be read. (A rainfall check behind
\* the status that fails is caught, and fails no poll.)
PollFails ==
    /\ due["poll"] = 0
    /\ LET c == StreakExtended(co)
       IN  /\ co' = [c EXCEPT !.raised = @ \/ Stuck(c)]
           /\ registry' = registry \cup IssueRaised(co)
                                   \cup (IF Stuck(c) THEN {"stuck"} ELSE {})
    /\ due' = [due EXCEPT !["poll"] = PollEvery]
    /\ bad' = TRUE
    /\ quiet' = 0
    /\ UNCHANGED <<metadata, outage, forced, starts>>

\* A background read ends: the metadata a poll asked for, or the programs,
\* whose refresh has a period of its own, whether polls are answered or not.
CanEnd(r) == IF r = "metadata" THEN metadata ELSE due[r] = 0

ReadSucceeds(r) ==
    /\ CanEnd(r)
    /\ co' = StreakBroken(co)
    /\ bad' = FALSE
    /\ forced' = 0
    /\ due' = [due EXCEPT ![r] = ReadEvery]
    /\ metadata' = (metadata /\ r # "metadata")
    /\ UNCHANGED <<registry, quiet, outage, starts>>

\* What every read that fails does.
NotedFailure ==
    /\ co' = StreakExtended(co)
    /\ registry' = registry \cup IssueRaised(co)
    /\ bad' = TRUE
    /\ quiet' = 0

ReadFails(r) ==
    /\ CanEnd(r)
    /\ NotedFailure
    /\ due' = [due EXCEPT ![r] = ReadEvery]
    /\ metadata' = (metadata /\ r # "metadata")
    /\ UNCHANGED <<outage, forced, starts>>

\* refresh_irrigation_programs: the user forces a read of the programs, which
\* asks neither the gate nor a timer. One that succeeds puts the next refresh
\* of the schedule coordinator off.
ForcedReadSucceeds ==
    /\ co' = StreakBroken(co)
    /\ bad' = FALSE
    /\ forced' = 0
    /\ due' = [due EXCEPT !["programs"] = ReadEvery]
    /\ UNCHANGED <<registry, metadata, quiet, outage, starts>>

ForcedReadFails ==
    /\ forced < MaxForced
    /\ NotedFailure
    /\ forced' = forced + 1
    /\ UNCHANGED <<due, metadata, outage, starts>>

\* The library logs that a stale connection resisted every cleanup. The root
\* logger's observer tells every detector, whichever controller it was.
CleanupExhausted ==
    /\ ~co.seen
    /\ co' = [co EXCEPT !.seen = TRUE]
    /\ UNCHANGED <<registry, due, metadata, bad, quiet, outage, forced, starts>>

Older(age, bound) == IF age = None THEN None ELSE UpTo(age + 1, bound)

\* A tick. The scheduler is on time: none passes while a poll is due.
Tick ==
    /\ due["poll"] > 0
    /\ due' = [x \in DOMAIN due |-> IF due[x] > 0 THEN due[x] - 1 ELSE 0]
    /\ co' = [co EXCEPT !.events = [i \in DOMAIN @ |-> UpTo(@[i] + 1, Window + 1)],
                        !.healthy = Older(@, Recover)]
    /\ quiet' = UpTo(quiet + 1, Recover)
    /\ outage' = UpTo(outage + 1, Episode)
    /\ UNCHANGED <<registry, metadata, bad, forced, starts>>

\* The entry is unloaded and set up again, as the options flow does when it is
\* saved: a new coordinator and a new detector; the registry is not theirs.
NewCoordinator ==
    /\ co' = Fresh
    /\ due' = FirstDue
    /\ metadata' = FALSE
    /\ bad' = FALSE
    /\ quiet' = Recover
    /\ outage' = 0
    /\ forced' = 0

Reload ==
    /\ starts.reload < MaxReloads
    /\ starts' = [starts EXCEPT !.reload = @ + 1]
    /\ NewCoordinator
    /\ UNCHANGED registry

\* Issues that are not persistent are gone after a restart of Home Assistant.
Restart ==
    /\ starts.restart < MaxRestarts
    /\ starts' = [starts EXCEPT !.restart = @ + 1]
    /\ NewCoordinator
    /\ registry' = {}

Next ==
    \/ \E again \in BOOLEAN : PollSucceeds(again)
    \/ PollFails
    \/ \E r \in Reads : ReadSucceeds(r)
    \/ \E r \in Reads : ReadFails(r)
    \/ ForcedReadSucceeds
    \/ ForcedReadFails
    \/ CleanupExhausted
    \/ Tick
    \/ Reload
    \/ Restart

Spec == Init /\ [][Next]_vars

\* Time passes and due polls are made; how they end is left open.
Fairness ==
    /\ WF_vars(Tick)
    /\ WF_vars(PollFails \/ \E again \in BOOLEAN : PollSucceeds(again))

FairSpec == Spec /\ Fairness

-----------------------------------------------------------------------------
(* What the user may rely on.                                              *)

\* Flapping keeps the issue visible: while the coordinator lives, the issue
\* leaves the registry only after a recovery period without one degradation
\* of any kind, be it of a poll or of a background read (note_ble_recovery).
ClearsOnlyWhenQuiet ==
    [][("unavailable" \in registry \ registry' /\ starts' = starts)
            => quiet >= Recover]_vars

\* How many polls and background reads may fail within an episode: a poll for
\* every interval, a program read for every period of its own, besides the
\* metadata read under way at its beginning and one more poll or read.
Ordinary ==
    {p + q + 2 : p \in {n \in 0..Episode : n * PollEvery < Episode},
                 q \in {n \in 0..Episode : n * ReadEvery < Episode}}

\* stuck_recovery.py: "Ordinary wedge-and-recover episodes ... never trip the
\* repair". Polls and reads feed one streak, and yet the repair is not raised
\* before the controller has been silent for an episode's length, unless the
\* user's own refreshes have failed in it as often as polls and background
\* reads alone fall short of the threshold.
EpisodesDoNotTrip ==
    [][("stuck" \in registry' \ registry /\ outage < Episode)
            => \E n \in Ordinary : n + forced >= StuckAfter]_vars

\* An outage that does not end is reported: when from some time on every
\* outcome is a degraded one, the repair issue comes up, and the stuck-adapter
\* one too if by then the library says that its cleanup gave up.
OutageIsReported ==
    <>[]bad => /\ <>("unavailable" \in registry)
               /\ <>[]co.seen => <>("stuck" \in registry)

\* A link that stays good is reported too: the issue goes away and stays away
\* (README, "repair issue"). Unless the entry was reloaded: the new coordinator
\* knows nothing of the issue its predecessor raised, and never deletes it.
RecoveryIsReported ==
    (<>[]~bad /\ [](starts.reload = 0)) => <>[]("unavailable" \notin registry)

\* The device may be removed while the issue is up or the window holds enough
\* failures, not for failures of long ago. The code does not keep this: only a
\* failure prunes the window (no run checks it, see the README).
StaleOnlyInWindow ==
    Stale(co) => co.active \/ Len(Pruned(co.events)) >= Threshold

=============================================================================
