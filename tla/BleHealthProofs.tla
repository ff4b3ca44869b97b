--------------------------- MODULE BleHealthProofs ---------------------------
(***************************************************************************)
(* Proofs about BleHealth: the repair issue clears only after a recovery   *)
(* period without a failure, and polls and background reads alone do not   *)
(* trip the stuck-adapter repair in an episode with room for fewer of them.*)
(***************************************************************************)
EXTENDS BleHealth, TLAPS, SequenceTheorems, NaturalsInduction, WellFoundedInduction

-----------------------------------------------------------------------------
(* The inductive invariants.                                               *)

\* A coordinator with its detector, whatever its deque holds.
IsHealth(c) ==
    c = [streak |-> c.streak, events |-> c.events, active |-> c.active,
         healthy |-> c.healthy, answered |-> c.answered, seen |-> c.seen,
         raised |-> c.raised]

\* The recovery period is not older than the last degradation.
RecoveryInv ==
    /\ IsHealth(co)
    /\ quiet \in Nat /\ quiet <= Recover
    /\ co.healthy # None => co.healthy \in Nat /\ co.healthy <= quiet
    /\ starts \in [reload : Nat, restart : Nat]

\* Failures since the last healthy poll: the polls fit into the time until the
\* next one is due, the program reads into that until the next one may be tried,
\* of a metadata read there is one, if it has ended, and the user forced others.
Fits(p, q) ==
    /\ (p + 1) * PollEvery <= outage + due["poll"]
    /\ q * ReadEvery <= outage + due["programs"]
    /\ co.streak <= p + q + (IF metadata THEN 0 ELSE 1) + forced

\* Before the first poll of a new coordinator only the user's reads can fail.
Unpolled ==
    /\ due["poll"] = 0 /\ due["programs"] = ReadEvery /\ ~metadata
    /\ outage = 0 /\ co.streak <= forced

StreakInv ==
    /\ IsHealth(co)
    /\ co.streak \in Nat /\ co.streak <= StuckAfter /\ forced \in Nat
    /\ outage \in Nat /\ metadata \in BOOLEAN
    /\ due \in [{"poll"} \cup Reads -> Nat] /\ due["programs"] <= ReadEvery
    /\ outage < Episode => Unpolled \/ \E p, q \in Nat : Fits(p, q)

\* A failing poll for every interval, and a failing read for every one of its
\* own, besides the read and the poll at the two ends, do not make the streak.
EpisodeIsShort ==
    \A p, q \in Nat : p * PollEvery < Episode /\ q * ReadEvery < Episode
                        => p + q + 2 < StuckAfter

-----------------------------------------------------------------------------
(* What one outcome changes.                                               *)

LEMMA DegradedFields ==
  ASSUME NEW c, IsHealth(c)
  PROVE  /\ IsHealth(Degraded(c)) /\ Degraded(c).healthy = None
         /\ Degraded(c).streak = c.streak /\ Degraded(c).answered = c.answered
<1> DEFINE events == Newest(Pruned(Append(c.events, 0)))
           active == c.active \/ Len(events) >= Threshold
<1>1. Degraded(c) = [c EXCEPT !.events = events, !.healthy = None, !.active = active]
  <2>1. [[c EXCEPT !.events = events] EXCEPT !.healthy = None].active = c.active
    BY DEF IsHealth
  <2> QED
    BY <2>1 DEF Degraded
<1> HIDE DEF events, active
<1> QED
  BY <1>1 DEF IsHealth

LEMMA ExtendedFields ==
  ASSUME NEW c, IsHealth(c)
  PROVE  /\ IsHealth(StreakExtended(c)) /\ StreakExtended(c).healthy = None
         /\ StreakExtended(c).streak = UpTo(c.streak + 1, StuckAfter)
         /\ StreakExtended(c).answered = c.answered
<1>1. StreakExtended(c) = [Degraded(c) EXCEPT !.streak = UpTo(c.streak + 1, StuckAfter)]
  BY DegradedFields DEF StreakExtended, IsHealth
<1> QED
  BY <1>1, DegradedFields DEF IsHealth

LEMMA BrokenFields ==
  ASSUME NEW c, IsHealth(c)
  PROVE  /\ IsHealth(StreakBroken(c)) /\ StreakBroken(c).healthy = c.healthy
         /\ StreakBroken(c).streak = 0 /\ StreakBroken(c).answered = c.answered
BY DEF StreakBroken, IsHealth

LEMMA RecoveredFields ==
  ASSUME NEW c, IsHealth(c)
  PROVE  /\ IsHealth(Recovered(c)) /\ Recovered(c).healthy \in {c.healthy, None, 0}
         /\ c.active /\ ~Recovered(c).active => c.healthy # None /\ c.healthy >= Recover
<1>1. CASE ~c.active
  BY <1>1 DEF Recovered
<1>2. CASE c.active /\ c.healthy = None
  <2>1. Recovered(c) = [c EXCEPT !.healthy = 0]
    BY <1>2 DEF Recovered
  <2> QED
    BY <1>2, <2>1 DEF IsHealth
<1>3. CASE c.active /\ c.healthy # None
  <2>1. Recovered(c) = IF c.healthy >= Recover
                       THEN [c EXCEPT !.active = FALSE, !.healthy = None] ELSE c
    BY <1>3 DEF Recovered
  <2> QED
    BY <1>3, <2>1 DEF IsHealth
<1> QED
  BY <1>1, <1>2, <1>3

LEMMA FreshFields ==
  /\ IsHealth(Fresh) /\ Fresh.healthy = None /\ Fresh.streak = 0 /\ Fresh.answered = FALSE
BY DEF Fresh, IsHealth

-----------------------------------------------------------------------------
(* The recovery period.                                                    *)

LEMMA RecoveryNext == RecoveryInv /\ [Next]_vars => RecoveryInv'
<1> SUFFICES ASSUME RecoveryInv, [Next]_vars PROVE RecoveryInv'
  OBVIOUS
<1>0. Recover \in Nat /\ None \notin Nat
  BY HealthAssumption
<1>9. starts' \in [reload : Nat, restart : Nat]
  BY DEF RecoveryInv, Next, PollSucceeds, PollFails, ReadSucceeds, ReadFails, ForcedReadSucceeds,
     ForcedReadFails, CleanupExhausted, Tick, Reload, Restart, vars
<1>1. ASSUME NEW again \in BOOLEAN, PollSucceeds(again) PROVE RecoveryInv'
  <2>1. co' = [StreakBroken(Recovered(co)) EXCEPT !.answered = TRUE] /\ quiet' = quiet
    BY <1>1 DEF PollSucceeds
  <2>2. /\ IsHealth(StreakBroken(Recovered(co)))
        /\ StreakBroken(Recovered(co)).healthy \in {co.healthy, None, 0}
    BY RecoveredFields, BrokenFields DEF RecoveryInv
  <2>3. IsHealth(co') /\ co'.healthy \in {co.healthy, None, 0}
    BY <2>1, <2>2 DEF IsHealth
  <2> QED
    BY <1>9, <1>0, <2>1, <2>3 DEF RecoveryInv, IsHealth
<1>2. CASE PollFails
  <2>1. /\ co' = [StreakExtended(co) EXCEPT !.raised = @ \/ Stuck(StreakExtended(co))]
        /\ quiet' = 0
    BY <1>2 DEF PollFails
  <2>2. IsHealth(StreakExtended(co)) /\ StreakExtended(co).healthy = None
    BY ExtendedFields DEF RecoveryInv
  <2>3. IsHealth(co') /\ co'.healthy = None
    BY <2>1, <2>2 DEF IsHealth
  <2> QED
    BY <1>9, <1>0, <2>1, <2>3 DEF RecoveryInv, IsHealth
<1>3. ASSUME NEW r \in Reads, ReadSucceeds(r) PROVE RecoveryInv'
  <2>1. co' = StreakBroken(co) /\ quiet' = quiet
    BY <1>3 DEF ReadSucceeds
  <2> QED
    BY <1>9, <2>1, BrokenFields DEF RecoveryInv, IsHealth
<1>4. ASSUME NEW r \in Reads, ReadFails(r) PROVE RecoveryInv'
  <2>1. co' = StreakExtended(co) /\ quiet' = 0
    BY <1>4 DEF ReadFails, NotedFailure
  <2> QED
    BY <1>9, <1>0, <2>1, ExtendedFields DEF RecoveryInv, IsHealth
<1>10. CASE ForcedReadSucceeds
  <2>1. co' = StreakBroken(co) /\ quiet' = quiet
    BY <1>10 DEF ForcedReadSucceeds
  <2> QED
    BY <1>9, <2>1, BrokenFields DEF RecoveryInv, IsHealth
<1>11. CASE ForcedReadFails
  <2>1. co' = StreakExtended(co) /\ quiet' = 0
    BY <1>11 DEF ForcedReadFails, NotedFailure
  <2> QED
    BY <1>9, <1>0, <2>1, ExtendedFields DEF RecoveryInv, IsHealth
<1>5. CASE CleanupExhausted
  <2>1. co' = [co EXCEPT !.seen = TRUE] /\ quiet' = quiet
    BY <1>5 DEF CleanupExhausted
  <2> QED
    BY <1>9, <2>1 DEF RecoveryInv, IsHealth
<1>6. CASE Tick
  <2> DEFINE events == [i \in DOMAIN co.events |-> UpTo(co.events[i] + 1, Window + 1)]
             healthy == Older(co.healthy, Recover)
  <2>1. co' = [co EXCEPT !.events = events, !.healthy = healthy]
    BY <1>6 DEF Tick, RecoveryInv, IsHealth
  <2>2. quiet' = UpTo(quiet + 1, Recover)
    BY <1>6 DEF Tick
  <2>3. healthy # None => healthy \in Nat /\ healthy <= UpTo(quiet + 1, Recover)
    BY <1>0 DEF RecoveryInv, Older, UpTo
  <2> HIDE DEF events, healthy
  <2>4. IsHealth(co') /\ co'.healthy = healthy
    BY <2>1 DEF RecoveryInv, IsHealth
  <2> QED
    BY <1>9, <1>0, <2>2, <2>3, <2>4 DEF RecoveryInv, IsHealth, UpTo
<1>7. CASE Reload \/ Restart
  <2>1. co' = Fresh /\ quiet' = Recover
    BY <1>7 DEF Reload, Restart, NewCoordinator
  <2> QED
    BY <1>9, <1>0, <2>1, FreshFields DEF RecoveryInv, IsHealth
<1>8. CASE UNCHANGED vars
  BY <1>9, <1>8 DEF vars, RecoveryInv, IsHealth
<1> QED
  BY <1>1, <1>2, <1>3, <1>4, <1>5, <1>6, <1>7, <1>8, <1>10, <1>11 DEF Next

\* note_ble_recovery: as long as the coordinator lives, the repair issue leaves
\* the registry only after a whole recovery period without a degradation, be it
\* of a poll or of a background read.
THEOREM ClearedWhenQuiet == Spec => ClearsOnlyWhenQuiet
<1> DEFINE Step == ("unavailable" \in registry \ registry' /\ starts' = starts) => quiet >= Recover
<1>1. Init => RecoveryInv
  BY FreshFields, HealthAssumption DEF Init, RecoveryInv
<1>2. ASSUME RecoveryInv, [Next]_vars, "unavailable" \in registry \ registry', starts' = starts
      PROVE  quiet >= Recover
  <2>1. PICK again \in BOOLEAN : PollSucceeds(again)
    <3>1. ~Restart
      BY <1>2 DEF Restart, RecoveryInv
    <3> QED
      BY <1>2, <3>1 DEF Next, PollFails, ReadSucceeds, ReadFails, ForcedReadSucceeds,
         ForcedReadFails, NotedFailure, CleanupExhausted, Tick, Reload, vars
  <2>2. co.active /\ ~Recovered(co).active
    BY <1>2, <2>1 DEF PollSucceeds
  <2> QED
    BY <1>2, <2>2, RecoveredFields, HealthAssumption DEF RecoveryInv
<1>3. RecoveryInv /\ [Next]_vars => [Step]_vars
  BY <1>2
<1> QED
  BY <1>1, <1>3, RecoveryNext, PTL DEF Spec, ClearsOnlyWhenQuiet

-----------------------------------------------------------------------------
(* The streak.                                                             *)

LEMMA OneMore ==
  ASSUME NEW n \in Nat, NEW k \in Nat
  PROVE  (n + 1) * k = n * k + k /\ n * k \in Nat
OBVIOUS

\* A bounded count grows by one at most, and falls short of it only at the bound.
LEMMA UpToBounds ==
  ASSUME NEW n \in Nat, NEW b \in Nat
  PROVE  /\ UpTo(n + 1, b) \in Nat /\ UpTo(n + 1, b) <= n + 1
         /\ UpTo(n + 1, b) < b => UpTo(n + 1, b) = n + 1
BY DEF UpTo

LEMMA StreakNext == StreakInv /\ [Next]_vars => StreakInv'
<1> SUFFICES ASSUME StreakInv, [Next]_vars PROVE StreakInv'
  OBVIOUS
<1>0. /\ PollEvery \in Nat /\ ReadEvery \in Nat \ {0} /\ StuckAfter \in Nat \ {0}
      /\ Episode \in Nat
  BY HealthAssumption
<1> DEFINE Types == /\ co.streak \in Nat /\ co.streak <= StuckAfter /\ forced \in Nat
                    /\ outage \in Nat /\ metadata \in BOOLEAN
                    /\ due \in [{"poll"} \cup Reads -> Nat]
                    /\ due["programs"] <= ReadEvery
           Sums  == outage < Episode => Unpolled \/ \E p, q \in Nat : Fits(p, q)
<1>t. /\ IsHealth(co) /\ Types /\ Sums
      /\ due["poll"] \in Nat /\ due["programs"] \in Nat
  BY DEF StreakInv, Reads
<1> HIDE DEF Sums
<1>q. ASSUME IsHealth(co'), Types', Sums' PROVE StreakInv'
  BY <1>q DEF StreakInv, Sums
<1>s. ASSUME outage' = outage, Unpolled => Unpolled' \/ \E p, q \in Nat : Fits(p, q)',
             \A p, q \in Nat : Fits(p, q) => \E m, n \in Nat : Fits(m, n)'
      PROVE  Sums'
  BY <1>t, <1>s DEF Sums
<1>1. ASSUME NEW again \in BOOLEAN, PollSucceeds(again) PROVE StreakInv'
  <2>1. /\ co' = [StreakBroken(Recovered(co)) EXCEPT !.answered = TRUE] /\ outage' = 0
        /\ metadata' = (metadata \/ again) /\ forced' = 0
        /\ due' = [due EXCEPT !["poll"] = PollEvery,
                              !["programs"] = IF co.answered THEN @ ELSE 0]
    BY <1>1 DEF PollSucceeds
  <2>2. IsHealth(co') /\ co'.streak = 0
    <3>1. /\ IsHealth(StreakBroken(Recovered(co)))
          /\ StreakBroken(Recovered(co)).streak = 0
      BY <1>t, RecoveredFields, BrokenFields
    <3> QED
      BY <2>1, <3>1 DEF IsHealth
  <2>3. metadata' \in BOOLEAN
    BY <2>1
  <2>4. Types' /\ due'["poll"] = PollEvery
    BY <1>0, <1>t, <2>1, <2>2, <2>3 DEF Reads
  <2>5. Fits(0, 0)'
    <3>1. (0 + 1) * PollEvery = PollEvery /\ 0 * ReadEvery = 0
      BY <1>0
    <3>2. due'["programs"] \in Nat
      BY <2>4 DEF Reads
    <3> QED
      BY <1>0, <2>1, <2>2, <2>4, <3>1, <3>2 DEF Fits
  <2>6. Sums'
    BY <2>5 DEF Sums
  <2> QED
    BY <1>q, <2>2, <2>4, <2>6
<1>2. CASE PollFails
  <2>1. /\ co' = [StreakExtended(co) EXCEPT !.raised = @ \/ Stuck(StreakExtended(co))]
        /\ due["poll"] = 0 /\ due' = [due EXCEPT !["poll"] = PollEvery]
        /\ metadata' = metadata /\ outage' = outage /\ forced' = forced
    BY <1>2 DEF PollFails
  <2>2. /\ IsHealth(co') /\ co'.streak \in Nat /\ co'.streak <= co.streak + 1
        /\ co'.streak <= StuckAfter
    <3>1. /\ IsHealth(StreakExtended(co))
          /\ StreakExtended(co).streak = UpTo(co.streak + 1, StuckAfter)
      BY <1>t, ExtendedFields
    <3>2. co'.streak = UpTo(co.streak + 1, StuckAfter)
      BY <2>1, <3>1 DEF IsHealth
    <3>3. IsHealth(co')
      BY <2>1, <3>1 DEF IsHealth
    <3> QED
      BY <1>0, <1>t, <3>2, <3>3 DEF UpTo
  <2>3. /\ Types' /\ due'["poll"] = PollEvery /\ due'["programs"] = due["programs"]
    BY <1>0, <1>t, <2>1, <2>2 DEF Reads
  <2>4. ASSUME Unpolled PROVE Fits(0, 0)'
    <3>1. (0 + 1) * PollEvery = PollEvery /\ 0 * ReadEvery = 0
      BY <1>0
    <3>2. (0 + 1) * PollEvery <= outage' + due'["poll"] /\ 0 * ReadEvery <= outage' + due'["programs"]
      BY <1>0, <1>t, <2>1, <2>3, <2>4, <3>1 DEF Unpolled
    <3>3. co'.streak <= 0 + 0 + 1 + forced' /\ ~metadata'
      BY <1>t, <2>1, <2>2, <2>4 DEF Unpolled
    <3>4. co'.streak <= 0 + 0 + (IF metadata' THEN 0 ELSE 1) + forced'
      BY <3>3
    <3> QED
      BY <3>2, <3>4 DEF Fits
  <2>5. ASSUME NEW p \in Nat, NEW q \in Nat, Fits(p, q) PROVE Fits(p + 1, q)'
    <3>1. (p + 1 + 1) * PollEvery = (p + 1) * PollEvery + PollEvery
      BY <1>0, OneMore
    <3>2. (p + 1) * PollEvery \in Nat /\ q * ReadEvery \in Nat
      BY <1>0, OneMore
    <3>3. (p + 1 + 1) * PollEvery <= outage' + due'["poll"]
      BY <1>0, <1>t, <2>1, <2>3, <2>5, <3>1, <3>2 DEF Fits
    <3>4. q * ReadEvery <= outage' + due'["programs"]
      BY <2>1, <2>3, <2>5 DEF Fits
    <3>5. co'.streak <= p + 1 + q + (IF metadata' THEN 0 ELSE 1) + forced'
      BY <1>t, <2>1, <2>2, <2>5 DEF Fits
    <3> QED
      BY <3>3, <3>4, <3>5 DEF Fits
  <2>6. Sums'
    <3>1. Unpolled => \E p, q \in Nat : Fits(p, q)'
      BY <2>4
    <3>2. \A p, q \in Nat : Fits(p, q) => \E m, n \in Nat : Fits(m, n)'
      <4> TAKE p, q \in Nat
      <4>1. p + 1 \in Nat
        OBVIOUS
      <4> QED
        BY <2>5, <4>1
    <3> QED
      BY <1>s, <2>1, <3>1, <3>2
  <2> QED
    BY <1>q, <2>2, <2>3, <2>6
<1>3. ASSUME NEW r \in Reads, ReadSucceeds(r) PROVE StreakInv'
  <2>1. /\ co' = StreakBroken(co) /\ due' = [due EXCEPT ![r] = ReadEvery]
        /\ metadata' = (metadata /\ r # "metadata") /\ outage' = outage /\ forced' = 0
        /\ r = "programs" => due["programs"] = 0
        /\ r = "metadata" => metadata
    BY <1>3 DEF ReadSucceeds, CanEnd
  <2>2. IsHealth(co') /\ co'.streak = 0
    BY <1>t, <2>1, BrokenFields
  <2>3. metadata' \in BOOLEAN
    BY <2>1
  <2>4. Types' /\ due'["poll"] = due["poll"] /\ due'["programs"] >= due["programs"]
    BY <1>0, <1>t, <2>1, <2>2, <2>3 DEF Reads
  <2>5. ASSUME NEW p \in Nat, NEW q \in Nat, Fits(p, q) PROVE Fits(p, q)'
    BY <1>0, <1>t, <2>1, <2>2, <2>4, <2>5, OneMore DEF Fits
  <2>6. ~Unpolled
    BY <1>0, <2>1 DEF Unpolled, Reads
  <2>7. Sums'
    BY <1>s, <2>1, <2>5, <2>6
  <2> QED
    BY <1>q, <2>2, <2>4, <2>7
<1>4. ASSUME NEW r \in Reads, ReadFails(r) PROVE StreakInv'
  <2>1. /\ co' = StreakExtended(co) /\ due' = [due EXCEPT ![r] = ReadEvery]
        /\ metadata' = (metadata /\ r # "metadata") /\ outage' = outage /\ forced' = forced
        /\ r = "programs" => due["programs"] = 0
        /\ r = "metadata" => metadata
    BY <1>4 DEF ReadFails, NotedFailure, CanEnd
  <2>2. /\ IsHealth(co') /\ co'.streak \in Nat /\ co'.streak <= co.streak + 1
        /\ co'.streak <= StuckAfter
    <3>1. /\ IsHealth(StreakExtended(co))
          /\ StreakExtended(co).streak = UpTo(co.streak + 1, StuckAfter)
      BY <1>t, ExtendedFields
    <3> QED
      BY <1>0, <1>t, <2>1, <3>1 DEF UpTo
  <2>3. metadata' \in BOOLEAN
    BY <2>1
  <2>4. /\ Types' /\ due'["poll"] = due["poll"]
        /\ due'["programs"] = IF r = "programs" THEN ReadEvery ELSE due["programs"]
    BY <1>0, <1>t, <2>1, <2>2, <2>3 DEF Reads
  <2>5. ASSUME NEW p \in Nat, NEW q \in Nat, Fits(p, q) PROVE \E k \in Nat : Fits(p, k)'
    <3>0. (p + 1) * PollEvery <= outage' + due'["poll"]
      BY <2>1, <2>4, <2>5 DEF Fits
    <3>1. CASE r = "programs"
      <4>1. (q + 1) * ReadEvery = q * ReadEvery + ReadEvery /\ q * ReadEvery \in Nat
        BY <1>0, OneMore
      <4>2. (q + 1) * ReadEvery <= outage' + due'["programs"]
        BY <1>0, <1>t, <2>1, <2>4, <2>5, <3>1, <4>1 DEF Fits
      <4>3. metadata' = metadata
        BY <1>t, <2>1, <3>1
      <4>4. co'.streak <= p + (q + 1) + (IF metadata' THEN 0 ELSE 1) + forced'
        BY <1>t, <2>1, <2>2, <2>5, <4>3 DEF Fits
      <4>5. Fits(p, q + 1)'
        BY <3>0, <4>2, <4>4 DEF Fits
      <4> QED
        BY <4>5
    <3>2. CASE r = "metadata"
      <4>1. metadata /\ metadata' = FALSE
        BY <2>1, <3>2
      <4>2. co'.streak <= p + q + (IF metadata' THEN 0 ELSE 1) + forced'
        BY <1>t, <2>1, <2>2, <2>5, <4>1 DEF Fits
      <4>3. q * ReadEvery <= outage' + due'["programs"]
        BY <2>1, <2>4, <2>5, <3>2 DEF Fits
      <4> QED
        BY <3>0, <4>2, <4>3 DEF Fits
    <3> QED
      BY <3>1, <3>2 DEF Reads
  <2>6. ~Unpolled
    BY <1>0, <2>1 DEF Unpolled, Reads
  <2>7. Sums'
    BY <1>s, <2>1, <2>5, <2>6
  <2> QED
    BY <1>q, <2>2, <2>4, <2>7
<1>9. CASE ForcedReadSucceeds
  <2>1. /\ co' = StreakBroken(co) /\ due' = [due EXCEPT !["programs"] = ReadEvery]
        /\ metadata' = metadata /\ outage' = outage /\ forced' = 0
    BY <1>9 DEF ForcedReadSucceeds
  <2>2. IsHealth(co') /\ co'.streak = 0
    BY <1>t, <2>1, BrokenFields
  <2>3. /\ Types' /\ due'["poll"] = due["poll"] /\ due'["programs"] = ReadEvery
        /\ due'["programs"] >= due["programs"]
    BY <1>0, <1>t, <2>1, <2>2 DEF Reads
  <2>4. ASSUME Unpolled PROVE Unpolled'
    BY <2>1, <2>2, <2>3, <2>4 DEF Unpolled
  <2>5. ASSUME NEW p \in Nat, NEW q \in Nat, Fits(p, q) PROVE Fits(p, q)'
    BY <1>0, <1>t, <2>1, <2>2, <2>3, <2>5, OneMore DEF Fits
  <2>6. Sums'
    BY <1>s, <2>1, <2>4, <2>5
  <2> QED
    BY <1>q, <2>2, <2>3, <2>6
<1>10. CASE ForcedReadFails
  <2>1. /\ co' = StreakExtended(co) /\ forced' = forced + 1
        /\ due' = due /\ metadata' = metadata /\ outage' = outage
    BY <1>10 DEF ForcedReadFails, NotedFailure
  <2>2. /\ IsHealth(co') /\ co'.streak \in Nat /\ co'.streak <= StuckAfter
        /\ forced' \in Nat
        /\ \A n \in Nat : co.streak <= n + forced => co'.streak <= n + forced'
    <3>1. /\ IsHealth(StreakExtended(co))
          /\ StreakExtended(co).streak = UpTo(co.streak + 1, StuckAfter)
      BY <1>t, ExtendedFields
    <3> QED
      BY <1>0, <1>t, <2>1, <3>1 DEF UpTo
  <2>3. Types'
    BY <1>t, <2>1, <2>2
  <2>4. ASSUME Unpolled PROVE Unpolled'
    <3>1. co'.streak <= 0 + forced'
      BY <1>t, <2>2, <2>4 DEF Unpolled
    <3> QED
      BY <2>1, <2>2, <2>4, <3>1 DEF Unpolled
  <2>5. ASSUME NEW p \in Nat, NEW q \in Nat, Fits(p, q) PROVE Fits(p, q)'
    <3>1. p + q + (IF metadata THEN 0 ELSE 1) \in Nat
      OBVIOUS
    <3>2. co'.streak <= p + q + (IF metadata THEN 0 ELSE 1) + forced'
      BY <2>2, <2>5, <3>1 DEF Fits
    <3> QED
      BY <2>1, <2>5, <3>2 DEF Fits
  <2>6. Sums'
    BY <1>s, <2>1, <2>4, <2>5
  <2> QED
    BY <1>q, <2>2, <2>3, <2>6
<1>5. CASE CleanupExhausted
  <2>1. /\ co' = [co EXCEPT !.seen = TRUE] /\ forced' = forced
        /\ due' = due /\ metadata' = metadata /\ outage' = outage
    BY <1>5 DEF CleanupExhausted
  <2>2. IsHealth(co') /\ co'.streak = co.streak
    BY <1>t, <2>1 DEF IsHealth
  <2>3. Sums'
    BY <1>s, <2>1, <2>2 DEF Unpolled, Fits
  <2> QED
    BY <1>q, <1>t, <2>1, <2>2, <2>3
<1>6. CASE Tick
  <2> DEFINE events == [i \in DOMAIN co.events |-> UpTo(co.events[i] + 1, Window + 1)]
             healthy == Older(co.healthy, Recover)
  <2>1. /\ co' = [co EXCEPT !.events = events, !.healthy = healthy]
        /\ due["poll"] > 0 /\ metadata' = metadata /\ forced' = forced
        /\ due' = [x \in DOMAIN due |-> IF due[x] > 0 THEN due[x] - 1 ELSE 0]
        /\ outage' = UpTo(outage + 1, Episode)
    BY <1>6, <1>t DEF Tick, IsHealth
  <2> HIDE DEF events, healthy
  <2>2. IsHealth(co') /\ co'.streak = co.streak
    BY <1>t, <2>1 DEF IsHealth
  <2>3. /\ outage' \in Nat /\ (outage' < Episode => outage' = outage + 1)
    BY <1>0, <1>t, <2>1, UpToBounds
  <2>4. /\ Types' /\ due'["poll"] = due["poll"] - 1
        /\ due'["programs"] \in Nat /\ due'["programs"] >= due["programs"] - 1
    BY <1>0, <1>t, <2>1, <2>2, <2>3 DEF Reads
  <2>5. ASSUME outage' = outage + 1, NEW p \in Nat, NEW q \in Nat, Fits(p, q)
        PROVE  Fits(p, q)'
    <3>1. (p + 1) * PollEvery \in Nat /\ q * ReadEvery \in Nat
      BY <1>0, OneMore
    <3>2. (p + 1) * PollEvery <= outage' + due'["poll"]
      BY <1>t, <2>4, <2>5, <3>1 DEF Fits
    <3>3. q * ReadEvery <= outage' + due'["programs"]
      BY <1>t, <2>4, <2>5, <3>1 DEF Fits
    <3> QED
      BY <2>1, <2>2, <2>5, <3>2, <3>3 DEF Fits
  <2>6. ~Unpolled
    BY <2>1 DEF Unpolled
  <2>7. Sums'
    <3>1. outage' < Episode => outage < Episode /\ outage' = outage + 1
      BY <1>0, <1>t, <2>3
    <3> QED
      BY <1>t, <2>5, <2>6, <3>1 DEF Sums
  <2> QED
    BY <1>q, <2>2, <2>4, <2>7
<1>7. CASE Reload \/ Restart
  <2>1. /\ co' = Fresh /\ metadata' = FALSE /\ outage' = 0 /\ forced' = 0
        /\ due' = FirstDue
    BY <1>7 DEF Reload, Restart, NewCoordinator
  <2>2. IsHealth(co') /\ co'.streak = 0
    BY <2>1, FreshFields
  <2>3. /\ due' \in [{"poll"} \cup Reads -> Nat]
        /\ due'["poll"] = 0 /\ due'["programs"] = ReadEvery
    BY <1>0, <2>1 DEF Reads, FirstDue
  <2>4. Types'
    <3>1. metadata' \in BOOLEAN
      BY <2>1
    <3> QED
      BY <1>0, <2>1, <2>2, <2>3, <3>1
  <2>5. Sums'
    BY <2>1, <2>2, <2>3 DEF Sums, Unpolled
  <2> QED
    BY <1>q, <2>2, <2>4, <2>5
<1>8. CASE UNCHANGED vars
  BY <1>8 DEF vars, StreakInv, IsHealth, Fits, Unpolled
<1> QED
  BY <1>1, <1>2, <1>3, <1>4, <1>5, <1>6, <1>7, <1>8, <1>9, <1>10 DEF Next

\* A count of whole intervals within an episode is one of those Ordinary ranges
\* over, which takes them from 0..Episode.
LEMMA CountWithin ==
  ASSUME NEW n \in Nat, NEW k \in Nat \ {0}, n * k < Episode
  PROVE  n \in 0..Episode
<1>1. n <= n * k /\ n * k \in Nat
  OBVIOUS
<1> QED
  BY <1>1, HealthAssumption

\* stuck_recovery.py: polls and background reads feed one streak, and yet they
\* alone do not raise the stuck-adapter repair before the controller has been
\* silent for an episode's length: reads that the user forced must have failed
\* in it as often as the polls and reads an episode has room for fall short of
\* the threshold.
THEOREM EpisodesTripNothing == Spec => EpisodesDoNotTrip
<1> DEFINE Few  == \E n \in Ordinary : n + forced >= StuckAfter
           Step == ("stuck" \in registry' \ registry /\ outage < Episode) => Few
<1>0. /\ PollEvery \in Nat \ {0} /\ ReadEvery \in Nat \ {0} /\ StuckAfter \in Nat \ {0}
      /\ Episode \in Nat
  BY HealthAssumption
<1>1. ASSUME Init PROVE StreakInv
  <2>1. IsHealth(co) /\ co.streak = 0
    BY <1>1, FreshFields DEF Init
  <2>2. outage = 0 /\ metadata = FALSE /\ forced = 0 /\ due = FirstDue
    BY <1>1 DEF Init
  <2>3. /\ due \in [{"poll"} \cup Reads -> Nat] /\ due["programs"] <= ReadEvery
        /\ due["poll"] = 0 /\ due["programs"] = ReadEvery
    BY <1>0, <2>2 DEF Reads, FirstDue
  <2>4. Unpolled
    BY <2>1, <2>2, <2>3 DEF Unpolled
  <2>5. co.streak \in Nat /\ co.streak <= StuckAfter /\ forced \in Nat /\ outage \in Nat
    BY <1>0, <2>1, <2>2
  <2>6. metadata \in BOOLEAN
    BY <2>2
  <2> HIDE DEF Step
  <2> QED
    BY <2>1, <2>3, <2>4, <2>5, <2>6, Zenon DEF StreakInv
<1> HIDE DEF Few
<1>2. ASSUME StreakInv, [Next]_vars, "stuck" \in registry' \ registry, outage < Episode
      PROVE  Few
  <2>t. /\ IsHealth(co) /\ co.streak \in Nat /\ outage \in Nat /\ metadata \in BOOLEAN
        /\ due["programs"] \in Nat /\ due["programs"] <= ReadEvery /\ forced \in Nat
    BY <1>2 DEF StreakInv, Reads
  <2>1. PollFails
    BY <1>2 DEF Next, PollSucceeds, ReadSucceeds, ReadFails, ForcedReadSucceeds,
       ForcedReadFails, NotedFailure, CleanupExhausted, Tick, Reload, Restart, IssueRaised, vars
  <2>2. due["poll"] = 0 /\ Stuck(StreakExtended(co))
    BY <1>2, <2>1 DEF PollFails, IssueRaised
  <2>3. co.streak + 1 >= StuckAfter
    BY <1>0, <2>t, <2>2, ExtendedFields, UpToBounds DEF Stuck
  <2>4. ASSUME NEW p \in Nat, NEW q \in Nat, p * PollEvery < Episode, q * ReadEvery < Episode,
               co.streak + 1 <= p + q + 2 + forced
        PROVE  Few
    <3>1. p \in 0..Episode /\ q \in 0..Episode
      BY <1>0, <2>4, CountWithin
    <3>2. p + q + 2 \in Ordinary
      BY <2>4, <3>1 DEF Ordinary
    <3>3. p + q + 2 + forced >= StuckAfter
      BY <1>0, <2>t, <2>3, <2>4
    <3> QED
      BY <3>2, <3>3 DEF Few
  <2>z. 0 * PollEvery < Episode /\ 0 * ReadEvery < Episode
    BY <1>0, <1>2, <2>t
  <2>5. ASSUME Unpolled PROVE Few
    <3>1. co.streak + 1 <= 0 + 0 + 2 + forced
      BY <2>t, <2>5 DEF Unpolled
    <3> QED
      BY <2>4, <2>z, <3>1
  <2>6. ASSUME NEW p \in Nat, NEW q \in Nat, Fits(p, q) PROVE Few
    <3>1. /\ (p + 1) * PollEvery < Episode
          /\ q * ReadEvery <= outage + due["programs"]
          /\ co.streak <= p + q + 1 + forced
      <4>1. (p + 1) * PollEvery \in Nat
        BY <1>0, OneMore
      <4> QED
        BY <1>0, <1>2, <2>t, <2>2, <2>6, <4>1 DEF Fits
    <3>2. ASSUME NEW k \in Nat, k * ReadEvery < Episode, q <= k + 1 PROVE Few
      <4>1. co.streak + 1 <= (p + 1) + k + 2 + forced
        BY <2>t, <3>1, <3>2
      <4> QED
        BY <2>4, <3>1, <3>2, <4>1
    <3>3. CASE q = 0
      BY <2>z, <3>2, <3>3
    <3>4. CASE q > 0
      <4>1. q - 1 \in Nat /\ q = (q - 1) + 1
        BY <3>4
      <4>2. q * ReadEvery = (q - 1) * ReadEvery + ReadEvery /\ (q - 1) * ReadEvery \in Nat
        BY <1>0, <4>1, OneMore
      <4>3. (q - 1) * ReadEvery < Episode
        BY <1>0, <1>2, <2>t, <3>1, <4>2
      <4> QED
        BY <3>2, <4>1, <4>3
    <3> QED
      BY <3>3, <3>4
  <2> QED
    BY <1>2, <2>5, <2>6 DEF StreakInv
<1>3. StreakInv /\ [Next]_vars => [Step]_vars
  BY <1>2
<1> USE DEF Few
<1> QED
  BY <1>1, <1>3, StreakNext, PTL DEF Spec, EpisodesDoNotTrip

-----------------------------------------------------------------------------
(* The types. That the deque holds the newest Threshold ages is the part   *)
(* which needs an argument: it is appended to, pruned, cut and aged.       *)

Ages == 0 .. Window + 1

LEMMA BoundedIs ==
  ASSUME NEW S, NEW n \in Nat
  PROVE  \A s : s \in BoundedSeq(S, n) <=> s \in Seq(S) /\ Len(s) <= n
<1>1. ASSUME NEW s, s \in BoundedSeq(S, n) PROVE s \in Seq(S) /\ Len(s) <= n
  <2>1. PICK m \in 0 .. n : s \in [1 .. m -> S]
    BY <1>1 DEF BoundedSeq, SeqOf
  <2>2. m \in Nat
    OBVIOUS
  <2>3. s \in Seq(S)
    BY <2>1, <2>2, SeqDef
  <2>4. DOMAIN s = 1 .. m /\ DOMAIN s = 1 .. Len(s) /\ Len(s) \in Nat
    BY <2>1, <2>3, LenProperties
  <2>5. Len(s) = m
    BY <2>2, <2>4
  <2> QED
    BY <2>3, <2>5
<1>2. ASSUME NEW s, s \in Seq(S), Len(s) <= n PROVE s \in BoundedSeq(S, n)
  <2>1. Len(s) \in 0 .. n /\ s \in [1 .. Len(s) -> S]
    BY <1>2, LenProperties
  <2> QED
    BY <2>1 DEF BoundedSeq, SeqOf
<1> QED
  BY <1>1, <1>2

LEMMA LeastOf ==
  ASSUME NEW S, S \subseteq Nat, S # {}
  PROVE  Min(S) \in S
<1> DEFINE R == OpToRel(<, Nat)
<1>1. \A x, y \in Nat : x < y => <<x, y>> \in R
  BY DEF OpToRel
<1>2. IsWellFoundedOn(R, Nat)
  BY NatLessThanWellFounded
<1> HIDE DEF R
<1>3. PICK m \in S : \A y \in S : ~ (<<y, m>> \in R)
  BY <1>2, WFMin
<1>4. \A y \in S : m <= y
  <2> TAKE y \in S
  <2>1. y \in Nat /\ m \in Nat
    OBVIOUS
  <2>2. ~ (y < m)
    BY <1>1, <1>3, <2>1
  <2> QED
    BY <2>1, <2>2
<1> QED
  BY <1>4 DEF Min

\* A tail of a sequence is no longer.
LEMMA TailsShorter ==
  ASSUME NEW S, NEW s \in Seq(S), NEW m \in 1 .. Len(s) + 1
  PROVE  SubSeq(s, m, Len(s)) \in Seq(S) /\ Len(SubSeq(s, m, Len(s))) = Len(s) - m + 1
<1>1. Len(s) \in Nat
  BY LenProperties
<1>2. \A i \in m .. Len(s) : s[i] \in S
  <2> TAKE i \in m .. Len(s)
  <2>1. i \in 1 .. Len(s)
    BY <1>1
  <2> QED
    BY <2>1, ElementOfSeq
<1>3. m \in Int /\ Len(s) \in Int
  BY <1>1
<1>4. /\ SubSeq(s, m, Len(s)) \in Seq(S)
      /\ Len(SubSeq(s, m, Len(s))) = IF m <= Len(s) THEN Len(s) - m + 1 ELSE 0
  BY <1>2, <1>3, SubSeqProperties
<1> QED
  BY <1>1, <1>4

LEMMA PrunedTyped ==
  ASSUME NEW S, NEW s \in Seq(S)
  PROVE  Pruned(s) \in Seq(S)
<1> DEFINE within == {i \in DOMAIN s : s[i] <= Window}
<1>1. DOMAIN s = 1 .. Len(s) /\ Len(s) \in Nat
  BY LenProperties
<1>2. CASE within = {}
  <2>1. Pruned(s) = <<>>
    BY <1>2 DEF Pruned
  <2> QED
    BY <2>1, EmptySeq
<1>3. CASE within # {}
  <2>1. Pruned(s) = SubSeq(s, Min(within), Len(s))
    BY <1>3 DEF Pruned
  <2>2. within \subseteq Nat /\ within \subseteq 1 .. Len(s)
    BY <1>1
  <2>3. Min(within) \in within
    BY <1>3, <2>2, LeastOf
  <2> HIDE DEF within
  <2>4. Min(within) \in 1 .. Len(s)
    BY <2>2, <2>3
  <2>5. Min(within) \in 1 .. Len(s) + 1
    BY <1>1, <2>4
  <2> QED
    BY <2>1, <2>5, TailsShorter
<1> QED
  BY <1>2, <1>3

LEMMA NewestTyped ==
  ASSUME NEW S, NEW s \in Seq(S)
  PROVE  Newest(s) \in BoundedSeq(S, Threshold)
<1>1. Len(s) \in Nat /\ Threshold \in Nat \ {0}
  BY LenProperties, HealthAssumption
<1>2. CASE Len(s) > Threshold
  <2>1. Newest(s) = SubSeq(s, Len(s) - Threshold + 1, Len(s))
    BY <1>2 DEF Newest
  <2>2. Len(s) - Threshold + 1 \in 1 .. Len(s) + 1
    BY <1>1, <1>2
  <2>3. /\ Newest(s) \in Seq(S)
        /\ Len(Newest(s)) = Len(s) - (Len(s) - Threshold + 1) + 1
    BY <2>1, <2>2, TailsShorter
  <2>4. Len(Newest(s)) = Threshold
    BY <1>1, <2>3
  <2> QED
    BY <1>1, <2>3, <2>4, BoundedIs
<1>3. CASE ~ (Len(s) > Threshold)
  <2>1. Newest(s) = s /\ Len(s) <= Threshold
    BY <1>1, <1>3 DEF Newest
  <2> QED
    BY <1>1, <2>1, BoundedIs
<1> QED
  BY <1>2, <1>3

CoTypes == [streak: 0..StuckAfter, events: BoundedSeq(Ages, Threshold),
            active: BOOLEAN, healthy: {None} \cup 0..Recover,
            answered: BOOLEAN, seen: BOOLEAN, raised: BOOLEAN]

LEMMA Bounds ==
  /\ StuckAfter \in Nat \ {0} /\ Threshold \in Nat \ {0} /\ Window \in Nat
  /\ Recover \in Nat /\ Episode \in Nat /\ PollEvery \in Nat \ {0} /\ ReadEvery \in Nat \ {0}
  /\ MaxForced \in Nat /\ MaxReloads \in Nat /\ MaxRestarts \in Nat
BY HealthAssumption

LEMMA UpToTyped ==
  ASSUME NEW bound \in Nat, NEW n \in Nat
  PROVE  UpTo(n, bound) \in 0 .. bound
BY DEF UpTo

LEMMA FreshTyped == Fresh \in CoTypes
<1>1. <<>> \in BoundedSeq(Ages, Threshold)
  <2>1. <<>> \in Seq(Ages) /\ Len(<<>>) = 0
    BY EmptySeq
  <2> DEFINE e == <<>>
  <2>2. e \in Seq(Ages) /\ Len(e) = 0
    BY <2>1
  <2> HIDE DEF e
  <2>3. Threshold \in Nat /\ Len(e) <= Threshold
    BY <2>2, Bounds
  <2>4. e \in BoundedSeq(Ages, Threshold) <=> e \in Seq(Ages) /\ Len(e) <= Threshold
    BY <2>3, BoundedIs
  <2> QED
    BY <2>2, <2>3, <2>4 DEF e
<1> QED
  BY <1>1, Bounds DEF Fresh, CoTypes

LEMMA ExtendedTyped ==
  ASSUME NEW c \in CoTypes
  PROVE  Degraded(c) \in CoTypes /\ StreakExtended(c) \in CoTypes
<1> DEFINE events == Newest(Pruned(Append(c.events, 0)))
           active == c.active \/ Len(events) >= Threshold
<1>1. events \in BoundedSeq(Ages, Threshold)
  <2>1. c.events \in BoundedSeq(Ages, Threshold)
    BY DEF CoTypes
  <2>2. c.events \in Seq(Ages)
    BY <2>1, Bounds, BoundedIs
  <2>3. 0 \in Ages
    BY Bounds DEF Ages
  <2>4. Append(c.events, 0) \in Seq(Ages)
    BY <2>2, <2>3, AppendProperties
  <2>5. Pruned(Append(c.events, 0)) \in Seq(Ages)
    BY <2>4, PrunedTyped
  <2> QED
    BY <2>5, NewestTyped
<1>2. active \in BOOLEAN
  BY DEF CoTypes
<1>3. Degraded(c) = [c EXCEPT !.events = events, !.healthy = None, !.active = active]
  <2>1. IsHealth(c)
    BY DEF CoTypes, IsHealth
  <2>2. [[c EXCEPT !.events = events] EXCEPT !.healthy = None].active = c.active
    BY <2>1 DEF IsHealth
  <2> QED
    BY <2>2 DEF Degraded
<1> HIDE DEF events, active
<1>4. Degraded(c) \in CoTypes /\ Degraded(c).streak = c.streak
  BY <1>1, <1>2, <1>3 DEF CoTypes
<1>5. UpTo(Degraded(c).streak + 1, StuckAfter) \in 0 .. StuckAfter
  <2>1. Degraded(c).streak + 1 \in Nat
    BY <1>4, Bounds DEF CoTypes
  <2> QED
    BY <2>1, Bounds, UpToTyped
<1>6. StreakExtended(c) \in CoTypes
  BY <1>4, <1>5 DEF StreakExtended, CoTypes
<1> QED
  BY <1>4, <1>6

LEMMA OthersTyped ==
  ASSUME NEW c \in CoTypes
  PROVE  StreakBroken(c) \in CoTypes /\ Recovered(c) \in CoTypes
<1>1. StreakBroken(c) \in CoTypes
  BY Bounds DEF StreakBroken, CoTypes
<1>2. 0 \in {None} \cup 0 .. Recover
  BY Bounds
<1>3. Recovered(c) \in {c, [c EXCEPT !.healthy = 0], [c EXCEPT !.active = FALSE, !.healthy = None]}
  <2>1. c.active \in BOOLEAN
    BY DEF CoTypes
  <2>2. CASE ~c.active
    BY <2>2 DEF Recovered
  <2>3. CASE c.active /\ c.healthy = None
    BY <2>3 DEF Recovered
  <2>4. CASE c.active /\ c.healthy # None
    BY <2>4 DEF Recovered
  <2> QED
    BY <2>1, <2>2, <2>3, <2>4
<1>4. /\ [c EXCEPT !.healthy = 0] \in CoTypes
      /\ [c EXCEPT !.active = FALSE, !.healthy = None] \in CoTypes
  BY <1>2 DEF CoTypes
<1> QED
  BY <1>1, <1>3, <1>4

\* A tick ages what the fields hold.
LEMMA AgedTyped ==
  ASSUME NEW c \in CoTypes
  PROVE  [c EXCEPT !.events = [i \in DOMAIN @ |-> UpTo(@[i] + 1, Window + 1)],
                   !.healthy = Older(@, Recover)] \in CoTypes
<1> DEFINE e == c.events
           aged == [i \in DOMAIN e |-> UpTo(e[i] + 1, Window + 1)]
           h == Older(c.healthy, Recover)
<1>1. aged \in BoundedSeq(Ages, Threshold)
  <2>1. PICK m \in 0 .. Threshold : e \in [1 .. m -> Ages]
    BY DEF CoTypes, BoundedSeq, SeqOf
  <2>2. \A i \in 1 .. m : UpTo(e[i] + 1, Window + 1) \in Ages
    <3> TAKE i \in 1 .. m
    <3>1. e[i] \in Ages
      BY <2>1
    <3>2. e[i] + 1 \in Nat /\ Window + 1 \in Nat
      BY <3>1, Bounds DEF Ages
    <3> QED
      BY <3>2, UpToTyped DEF Ages
  <2>3. aged \in [1 .. m -> Ages]
    BY <2>1, <2>2
  <2> QED
    BY <2>3 DEF BoundedSeq, SeqOf
<1>2. h \in {None} \cup 0 .. Recover
  <2>1. CASE c.healthy = None
    BY <2>1 DEF Older
  <2>2. CASE c.healthy # None
    <3>1. c.healthy + 1 \in Nat
      BY <2>2, Bounds DEF CoTypes
    <3> QED
      BY <2>2, <3>1, Bounds, UpToTyped DEF Older
  <2> QED
    BY <2>1, <2>2
<1>3. [c EXCEPT !.events = [i \in DOMAIN @ |-> UpTo(@[i] + 1, Window + 1)],
                !.healthy = Older(@, Recover)] = [c EXCEPT !.events = aged, !.healthy = h]
  <2>1. [c EXCEPT !.events = aged].healthy = c.healthy
    BY DEF CoTypes
  <2> QED
    BY <2>1
<1> HIDE DEF aged, h, e
<1>4. [c EXCEPT !.events = aged, !.healthy = h] \in CoTypes
  BY <1>1, <1>2 DEF CoTypes
<1> QED
  BY <1>3, <1>4

LEMMA HealthTypesNext ==
  ASSUME HealthTypeOK, [Next]_vars
  PROVE  HealthTypeOK'
<1> DEFINE Dues == [{"poll"} \cup Reads -> 0..PollEvery + ReadEvery]
<1>0. /\ co \in CoTypes /\ registry \subseteq {"unavailable", "stuck"}
      /\ due \in Dues /\ metadata \in BOOLEAN /\ bad \in BOOLEAN
      /\ quiet \in 0..Recover /\ outage \in 0..Episode /\ forced \in 0..MaxForced
      /\ starts \in [reload: 0..MaxReloads, restart: 0..MaxRestarts]
  BY DEF HealthTypeOK, CoTypes, Ages
<1>a. /\ 0 \in 0..PollEvery + ReadEvery /\ PollEvery \in 0..PollEvery + ReadEvery
      /\ ReadEvery \in 0..PollEvery + ReadEvery /\ 0 \in 0..Recover /\ 0 \in 0..Episode
      /\ Recover \in 0..Recover /\ 0 \in 0..MaxForced
  BY Bounds
<1>b. SUFFICES
        /\ co' \in CoTypes /\ registry' \subseteq {"unavailable", "stuck"}
        /\ due' \in Dues /\ metadata' \in BOOLEAN /\ bad' \in BOOLEAN
        /\ quiet' \in 0..Recover /\ outage' \in 0..Episode /\ forced' \in 0..MaxForced
        /\ starts' \in [reload: 0..MaxReloads, restart: 0..MaxRestarts]
  BY DEF HealthTypeOK, CoTypes, Ages
<1>1. ASSUME NEW again \in BOOLEAN, PollSucceeds(again) PROVE HealthTypeOK'
  <2> DEFINE c == Recovered(co)
             d == StreakBroken(c)
  <2>1. d \in CoTypes
    BY <1>0, OthersTyped
  <2>2. co' = [d EXCEPT !.answered = TRUE]
    BY <1>1 DEF PollSucceeds
  <2> HIDE DEF d
  <2>3. co' \in CoTypes
    BY <2>1, <2>2 DEF CoTypes
  <2>4. registry' \subseteq registry
    BY <1>1 DEF PollSucceeds
  <2>5. due' \in Dues
    BY <1>0, <1>1, <1>a DEF PollSucceeds
  <2>6. metadata' \in BOOLEAN
    BY <1>0, <1>1 DEF PollSucceeds
  <2> QED
    BY <1>0, <1>1, <1>a, <2>3, <2>4, <2>5, <2>6 DEF PollSucceeds, HealthTypeOK, CoTypes, Ages
<1>2. ASSUME PollFails PROVE HealthTypeOK'
  <2> DEFINE c == StreakExtended(co)
             r == c.raised \/ Stuck(c)
  <2>1. c \in CoTypes
    BY <1>0, ExtendedTyped
  <2>2. co' = [c EXCEPT !.raised = r]
    BY <1>2 DEF PollFails
  <2>3. r \in BOOLEAN
    BY <2>1 DEF CoTypes, Stuck
  <2>4. registry' \subseteq {"unavailable", "stuck"}
    BY <1>0, <1>2 DEF PollFails, IssueRaised
  <2> HIDE DEF c, r
  <2>5. co' \in CoTypes
    BY <2>1, <2>2, <2>3 DEF CoTypes
  <2>6. due' \in Dues
    BY <1>0, <1>2, <1>a DEF PollFails
  <2> QED
    BY <1>0, <1>2, <1>a, <2>4, <2>5, <2>6 DEF PollFails, HealthTypeOK, CoTypes, Ages
<1>3. ASSUME NEW r \in Reads, ReadSucceeds(r) PROVE HealthTypeOK'
  <2>1. co' \in CoTypes
    BY <1>0, <1>3, OthersTyped DEF ReadSucceeds
  <2>2. due' \in Dues
    BY <1>0, <1>3, <1>a DEF ReadSucceeds
  <2>3. metadata' \in BOOLEAN
    BY <1>0, <1>3 DEF ReadSucceeds
  <2> QED
    BY <1>0, <1>3, <1>a, <2>1, <2>2, <2>3 DEF ReadSucceeds, HealthTypeOK, CoTypes, Ages
<1>4. ASSUME NEW r \in Reads, ReadFails(r) PROVE HealthTypeOK'
  <2>1. co' \in CoTypes
    BY <1>0, <1>4, ExtendedTyped DEF ReadFails, NotedFailure
  <2>2. due' \in Dues
    BY <1>0, <1>4, <1>a DEF ReadFails
  <2>3. metadata' \in BOOLEAN
    BY <1>0, <1>4 DEF ReadFails
  <2>4. registry' \subseteq {"unavailable", "stuck"}
    BY <1>0, <1>4 DEF ReadFails, NotedFailure, IssueRaised
  <2> QED
    BY <1>0, <1>4, <1>a, <2>1, <2>2, <2>3, <2>4 DEF ReadFails, NotedFailure, HealthTypeOK, CoTypes, Ages
<1>11. ASSUME ForcedReadSucceeds PROVE HealthTypeOK'
  <2>1. co' \in CoTypes
    BY <1>0, <1>11, OthersTyped DEF ForcedReadSucceeds
  <2>2. due' \in Dues
    BY <1>0, <1>11, <1>a DEF ForcedReadSucceeds
  <2> QED
    BY <1>0, <1>11, <1>a, <2>1, <2>2 DEF ForcedReadSucceeds, HealthTypeOK, CoTypes, Ages
<1>12. ASSUME ForcedReadFails PROVE HealthTypeOK'
  <2>1. co' \in CoTypes
    BY <1>0, <1>12, ExtendedTyped DEF ForcedReadFails, NotedFailure
  <2>2. registry' \subseteq {"unavailable", "stuck"}
    BY <1>0, <1>12 DEF ForcedReadFails, NotedFailure, IssueRaised
  <2>3. forced' \in 0..MaxForced
    BY <1>0, <1>12, Bounds DEF ForcedReadFails
  <2> QED
    BY <1>0, <1>12, <1>a, <2>1, <2>2, <2>3
       DEF ForcedReadFails, NotedFailure, HealthTypeOK, CoTypes, Ages
<1>5. ASSUME CleanupExhausted PROVE HealthTypeOK'
  <2>1. co' \in CoTypes
    BY <1>0, <1>5 DEF CleanupExhausted, CoTypes
  <2> QED
    BY <1>0, <1>5, <2>1 DEF CleanupExhausted, HealthTypeOK, CoTypes, Ages
<1>6. ASSUME Tick PROVE HealthTypeOK'
  <2>1. co' \in CoTypes
    BY <1>0, <1>6, AgedTyped DEF Tick
  <2>2. due' \in Dues
    <3>1. \A x \in {"poll"} \cup Reads :
             (IF due[x] > 0 THEN due[x] - 1 ELSE 0) \in 0..PollEvery + ReadEvery
      BY <1>0, Bounds
    <3>2. due' = [x \in {"poll"} \cup Reads |-> IF due[x] > 0 THEN due[x] - 1 ELSE 0]
      BY <1>0, <1>6 DEF Tick
    <3> QED
      BY <3>1, <3>2
  <2>3. quiet' \in 0..Recover /\ outage' \in 0..Episode
    <3>1. quiet + 1 \in Nat /\ outage + 1 \in Nat
      BY <1>0, Bounds
    <3> QED
      BY <1>6, <3>1, Bounds, UpToTyped DEF Tick
  <2> QED
    BY <1>0, <1>6, <2>1, <2>2, <2>3 DEF Tick, HealthTypeOK, CoTypes, Ages
<1>7. ASSUME NewCoordinator, registry' \subseteq registry,
             starts' \in [reload: 0..MaxReloads, restart: 0..MaxRestarts]
      PROVE  HealthTypeOK'
  <2>1. due' \in Dues
    BY <1>7, <1>a DEF NewCoordinator, FirstDue
  <2> QED
    BY <1>0, <1>7, <1>a, <2>1, FreshTyped DEF NewCoordinator, HealthTypeOK, CoTypes, Ages
<1>8. ASSUME Reload PROVE HealthTypeOK'
  <2>1. starts' \in [reload: 0..MaxReloads, restart: 0..MaxRestarts]
    BY <1>0, <1>8, Bounds DEF Reload
  <2> QED
    BY <1>7, <1>8, <2>1 DEF Reload
<1>9. ASSUME Restart PROVE HealthTypeOK'
  <2>1. starts' \in [reload: 0..MaxReloads, restart: 0..MaxRestarts]
    BY <1>0, <1>9, Bounds DEF Restart
  <2> QED
    BY <1>7, <1>9, <2>1 DEF Restart
<1>10. CASE UNCHANGED vars
  BY <1>0, <1>10 DEF vars
<1> QED
  BY <1>1, <1>2, <1>3, <1>4, <1>5, <1>6, <1>8, <1>9, <1>10, <1>11, <1>12 DEF Next, HealthTypeOK, CoTypes, Ages

\* HealthTypeOK, for every window, threshold and interval.
THEOREM HealthTypes == Spec => []HealthTypeOK
<1>1. Init => HealthTypeOK
  <2> SUFFICES ASSUME Init PROVE HealthTypeOK
    OBVIOUS
  <2>1. co \in CoTypes
    BY FreshTyped DEF Init
  <2>2. due \in [{"poll"} \cup Reads -> 0..PollEvery + ReadEvery]
    BY Bounds DEF Init, FirstDue
  <2>3. quiet \in 0..Recover /\ outage \in 0..Episode /\ forced \in 0..MaxForced
    BY Bounds DEF Init
  <2>4. starts \in [reload: 0..MaxReloads, restart: 0..MaxRestarts]
    BY Bounds DEF Init
  <2>5. registry = {} /\ metadata = FALSE /\ bad = FALSE
    BY DEF Init
  <2> QED
    BY <2>1, <2>2, <2>3, <2>4, <2>5 DEF HealthTypeOK, CoTypes, Ages
<1> QED
  BY <1>1, HealthTypesNext, PTL DEF Spec

\* With the code's numbers (a streak of ten, reads tried again after 15 minutes,
\* an episode of 10) EpisodeIsShort holds for every scan interval of 75 seconds
\* or more (the default is 120): then it takes a failing read the user forced.
COROLLARY UserTripsEpisodes ==
  ASSUME EpisodeIsShort
  PROVE  Spec => [][("stuck" \in registry' \ registry /\ outage < Episode) => forced > 0]_vars
<1> DEFINE Few  == \E n \in Ordinary : n + forced >= StuckAfter
           Step == ("stuck" \in registry' \ registry /\ outage < Episode) => Few
           User == ("stuck" \in registry' \ registry /\ outage < Episode) => forced > 0
<1>1. ASSUME Few, forced \in Nat PROVE forced > 0
  <2>1. PICK n \in Ordinary : n + forced >= StuckAfter
    BY <1>1
  <2>2. n \in Nat /\ n < StuckAfter
    BY HealthAssumption, EpisodeIsShort DEF Ordinary, EpisodeIsShort
  <2> QED
    BY <1>1, <2>1, <2>2, HealthAssumption
<1>2. HealthTypeOK => forced \in Nat
  BY DEF HealthTypeOK
<1> HIDE DEF Few
<1>3. HealthTypeOK /\ [Step]_vars => [User]_vars
  BY <1>1, <1>2
<1> USE DEF Few
<1> QED
  BY <1>3, EpisodesTripNothing, HealthTypes, PTL DEF EpisodesDoNotTrip

=============================================================================
