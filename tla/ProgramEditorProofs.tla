------------------------- MODULE ProgramEditorProofs -------------------------
(***************************************************************************)
(* What is proved of ProgramEditor and Schedule: types, that a successful  *)
(* write is the program that was shown, and that the next start shown is   *)
(* the controller's next start.                                            *)
(***************************************************************************)
EXTENDS ProgramEditor, TLAPS, NaturalsInduction, WellFoundedInduction

-----------------------------------------------------------------------------
(* Days and least elements.                                                *)

\* A nonempty set of numbers has a least one.
LEMMA MinIsMember ==
  ASSUME NEW S, S \subseteq Nat, S # {}
  PROVE  Min(S) \in S /\ \A y \in S : Min(S) <= y
<1> DEFINE R == OpToRel(<, Nat)
<1>1. \A x, y \in Nat : x < y => <<x, y>> \in R
  BY DEF OpToRel
<1>2. IsWellFoundedOn(R, Nat)
  BY NatLessThanWellFounded
<1> HIDE DEF R
<1>3. PICK m \in S : \A y \in S : ~ (<<y, m>> \in R)
  BY <1>2, WFMin
<1>4. \A y \in S : m <= y
  <2> TAKE y \in S
  <2>1. y \in Nat /\ m \in Nat
    OBVIOUS
  <2>2. ~ (y < m)
    BY <1>1, <1>3, <2>1
  <2> QED
    BY <2>1, <2>2
<1> QED
  BY <1>4 DEF Min

\* Sets of starts that undercut each other have the same earliest one.
LEMMA SameEarliest ==
  ASSUME NEW S, NEW T, S \subseteq Nat, T \subseteq Nat,
         \A x \in S : \E y \in T : y <= x,
         \A y \in T : \E x \in S : x <= y
  PROVE  Earliest(S) = Earliest(T)
<1>1. CASE S = {} \/ T = {}
  <2>1. S = {} /\ T = {}
    BY <1>1
  <2> QED
    BY <2>1
<1>2. CASE S # {} /\ T # {}
  <2>1. /\ Min(S) \in S /\ \A y \in S : Min(S) <= y
        /\ Min(T) \in T /\ \A y \in T : Min(T) <= y
    BY <1>2, MinIsMember
  <2>2. PICK y \in T : y <= Min(S)
    BY <2>1
  <2>3. PICK x \in S : x <= Min(T)
    BY <2>1
  <2>4. Min(T) <= y /\ Min(S) <= x
    BY <2>1
  <2>5. {Min(S), Min(T), x, y} \subseteq Nat
    BY <2>1
  <2>6. Min(S) = Min(T)
    BY <2>2, <2>3, <2>4, <2>5
  <2> QED
    BY <1>2, <2>6 DEF Earliest
<1> QED
  BY <1>1, <1>2

\* A day is a stretch of Times times.
LEMMA DayBounds ==
  ASSUME Times \in Nat \ {0}, NEW t \in Nat
  PROVE  Day(t) \in Nat /\ Day(t) * Times <= t /\ t < (Day(t) + 1) * Times
BY DEF Day

LEMMA ProductsOrdered ==
  ASSUME NEW n \in Nat, NEW d \in Nat, NEW e \in Nat, d <= e
  PROVE  d * n \in Nat /\ e * n \in Nat /\ d * n <= e * n
<1>1. PICK k \in Nat : e = d + k
  <2> WITNESS e - d \in Nat
  <2> QED
    OBVIOUS
<1>2. e * n = d * n + k * n /\ d * n \in Nat /\ k * n \in Nat
  BY <1>1
<1> QED
  BY <1>2

\* A later time is not on an earlier day.
LEMMA DaysOrdered ==
  ASSUME Times \in Nat \ {0}, NEW t \in Nat, NEW u \in Nat, t <= u
  PROVE  Day(t) <= Day(u)
<1>1. /\ Day(t) \in Nat /\ Day(t) * Times <= t
      /\ Day(u) \in Nat /\ u < (Day(u) + 1) * Times
  BY DayBounds
<1>2. SUFFICES ASSUME Day(u) < Day(t) PROVE FALSE
  BY <1>1
<1>3. Day(u) + 1 <= Day(t) /\ Day(u) + 1 \in Nat
  BY <1>1, <1>2
<1>4. (Day(u) + 1) * Times <= Day(t) * Times /\ (Day(u) + 1) * Times \in Nat /\ Day(t) * Times \in Nat
  BY <1>1, <1>3, ProductsOrdered
<1> QED
  BY <1>1, <1>4

-----------------------------------------------------------------------------
(* What the controller makes of a program. A recursive function is some    *)
(* function with its equation, if there is one: that there is one is shown *)
(* of the least horizon that had none.                                     *)

Counts(f, p, h) == f = [k \in 0 .. h |-> IF k = 0 THEN p ELSE Midnight(f[k - 1])]

LEMMA CountsAtNought ==
  ASSUME NEW p
  PROVE  \E f : Counts(f, p, 0)
<1> DEFINE g == [k \in 0 .. 0 |-> p]
<1>1. g = [k \in 0 .. 0 |-> IF k = 0 THEN p ELSE Midnight(g[k - 1])]
  OBVIOUS
<1> QED
  BY <1>1 DEF Counts

\* One midnight more.
LEMMA CountsFurther ==
  ASSUME NEW p, NEW h \in Nat, NEW f, Counts(f, p, h)
  PROVE  \E g : Counts(g, p, h + 1)
<1> DEFINE g == [k \in 0 .. h + 1 |-> IF k <= h THEN f[k] ELSE Midnight(f[h])]
<1>1. \A k \in 0 .. h : f[k] = IF k = 0 THEN p ELSE Midnight(f[k - 1])
  BY DEF Counts
<1>2. \A k \in 0 .. h + 1 : g[k] = IF k = 0 THEN p ELSE Midnight(g[k - 1])
  <2> TAKE k \in 0 .. h + 1
  <2>1. CASE k = 0
    BY <2>1, <1>1
  <2>2. CASE k \in 1 .. h
    <3>1. k \in 0 .. h /\ k - 1 \in 0 .. h /\ k # 0 /\ k <= h /\ k - 1 <= h /\ k - 1 \in 0 .. h + 1
      BY <2>2
    <3>2. g[k] = f[k] /\ g[k - 1] = f[k - 1]
      BY <3>1
    <3> HIDE DEF g
    <3> QED
      BY <3>1, <3>2, <1>1
  <2>3. CASE k = h + 1
    <3>1. k # 0 /\ ~ (k <= h) /\ k - 1 = h /\ h \in 0 .. h + 1
      BY <2>3
    <3>2. g[k] = Midnight(f[h]) /\ g[h] = f[h]
      BY <3>1
    <3> HIDE DEF g
    <3> QED
      BY <3>1, <3>2
  <2> QED
    BY <2>1, <2>2, <2>3
<1>3. g = [k \in 0 .. h + 1 |-> g[k]]
  OBVIOUS
<1> HIDE DEF g
<1>4. g = [k \in 0 .. h + 1 |-> IF k = 0 THEN p ELSE Midnight(g[k - 1])]
  BY <1>2, <1>3
<1> QED
  BY <1>4 DEF Counts

LEMMA CountsExist ==
  ASSUME NEW p, NEW h \in Nat
  PROVE  \E f : Counts(f, p, h)
<1> DEFINE Bad == {k \in Nat : ~ \E f : Counts(f, p, k)}
<1>1. SUFFICES ASSUME Bad # {} PROVE FALSE
  OBVIOUS
<1>2. Min(Bad) \in Bad /\ \A k \in Bad : Min(Bad) <= k
  BY <1>1, MinIsMember
<1> DEFINE m == Min(Bad)
<1>3. m \in Nat /\ ~ \E f : Counts(f, p, m)
  BY <1>2
<1>4. m # 0
  BY <1>3, CountsAtNought
<1>5. m - 1 \in Nat /\ ~ (m <= m - 1) /\ m - 1 + 1 = m
  BY <1>3, <1>4
<1>6. m - 1 \notin Bad
  BY <1>2, <1>5
<1>7. PICK f : Counts(f, p, m - 1)
  BY <1>5, <1>6
<1> HIDE DEF m, Bad
<1> QED
  BY <1>3, <1>5, <1>7, CountsFurther

\* The equation of After.
LEMMA AfterCounts ==
  ASSUME NEW p, NEW h \in Nat
  PROVE  /\ After(p, h)[0] = p
         /\ \A k \in 0 .. h - 1 : After(p, h)[k + 1] = Midnight(After(p, h)[k])
<1>1. \E f : Counts(f, p, h)
  BY CountsExist
<1>2. Counts(After(p, h), p, h)
  BY <1>1 DEF Counts, After
<1> DEFINE f == After(p, h)
<1>3. f = [k \in 0 .. h |-> IF k = 0 THEN p ELSE Midnight(f[k - 1])]
  BY <1>2 DEF Counts
<1> HIDE DEF f
<1>4. \A k \in 0 .. h : f[k] = IF k = 0 THEN p ELSE Midnight(f[k - 1])
  BY <1>3
<1>5. f[0] = p
  BY <1>4
<1>6. \A k \in 0 .. h - 1 : f[k + 1] = Midnight(f[k])
  <2> TAKE k \in 0 .. h - 1
  <2>1. k + 1 \in 0 .. h /\ k + 1 # 0 /\ (k + 1) - 1 = k
    OBVIOUS
  <2> QED
    BY <1>4, <2>1
<1> QED
  BY <1>5, <1>6 DEF f

\* A program of calendar days stays what it is.
LEMMA CalendarStays ==
  ASSUME NEW p, p.cycle # "periodic", NEW h \in Nat
  PROVE  \A k \in 0 .. h : After(p, h)[k] = p
<1> DEFINE f == After(p, h)
           Bad == {k \in 0 .. h : f[k] # p}
<1>0. f[0] = p /\ \A k \in 0 .. h - 1 : f[k + 1] = Midnight(f[k])
  BY AfterCounts
<1> HIDE DEF f
<1>1. SUFFICES ASSUME Bad # {} PROVE FALSE
  BY DEF f
<1> DEFINE m == Min(Bad)
<1>2. m \in Bad /\ \A k \in Bad : m <= k
  BY <1>1, MinIsMember
<1>3. m \in 1 .. h /\ f[m] # p
  BY <1>0, <1>2
<1>4. m - 1 \in 0 .. h /\ m - 1 \in 0 .. h - 1 /\ ~ (m <= m - 1) /\ m - 1 + 1 = m
  BY <1>3
<1>5. f[m - 1] = p
  BY <1>2, <1>4
<1> HIDE DEF m, Bad
<1>6. f[m] = Midnight(p)
  BY <1>0, <1>4, <1>5
<1> QED
  BY <1>3, <1>6 DEF Midnight

\* A periodic one counts down to its next run, and from there to the one after.
Due(p, k) == IF k <= p.synchro THEN p.synchro - k ELSE p.synchro + p.period - k

LEMMA CountsDown ==
  ASSUME NEW p \in Programs, p.cycle = "periodic", PhaseValid(p), p.synchro >= 0, NEW h \in Nat
  PROVE  \A k \in 0 .. h : k <= p.synchro + p.period =>
            /\ After(p, h)[k].cycle = "periodic"
            /\ After(p, h)[k].synchro = Due(p, k)
<1> DEFINE f == After(p, h)
           s == p.synchro
           n == p.period
           Fine(k) == f[k] = [p EXCEPT !.synchro = Due(p, k)]
           Bad == {k \in 0 .. h : k <= s + n /\ ~ Fine(k)}
<1>0. f[0] = p /\ \A k \in 0 .. h - 1 : f[k + 1] = Midnight(f[k])
  BY AfterCounts
<1>a. s \in Nat /\ n \in Nat \ {0} /\ s < n
  BY DEF Programs, PhaseValid
<1> HIDE DEF f
<1>b. Fine(0)
  <2>1. [p EXCEPT !.synchro = Due(p, 0)] = p
    BY <1>a DEF Due, Programs
  <2> QED
    BY <1>0, <2>1
<1>1. Bad = {}
  <2>1. SUFFICES ASSUME Bad # {} PROVE FALSE
    OBVIOUS
  <2> DEFINE m == Min(Bad)
  <2>2. m \in Bad /\ \A k \in Bad : m <= k
    <3>1. Bad \subseteq Nat
      OBVIOUS
    <3> HIDE DEF Bad
    <3> QED
      BY <2>1, <3>1, MinIsMember
  <2>3. m \in 0 .. h /\ m <= s + n /\ ~ Fine(m)
    BY <2>2
  <2>4. m # 0
    BY <1>b, <2>3
  <2>5. /\ m - 1 \in 0 .. h /\ m - 1 \in 0 .. h - 1 /\ ~ (m <= m - 1)
        /\ m - 1 + 1 = m /\ m - 1 <= s + n
    BY <1>a, <2>3, <2>4
  <2>6. Fine(m - 1)
    BY <2>2, <2>5
  <2> HIDE DEF m, Bad
  <2>7. f[m] = Midnight([p EXCEPT !.synchro = Due(p, m - 1)])
    BY <1>0, <2>5, <2>6
  <2>8. Due(p, m - 1) \in Int
    BY <1>a, <2>3 DEF Due
  <2>9. Due(p, m) = IF Due(p, m - 1) = 0 THEN n - 1 ELSE Due(p, m - 1) - 1
    BY <1>a, <2>3, <2>4 DEF Due
  <2>10. Midnight([p EXCEPT !.synchro = Due(p, m - 1)]) = [p EXCEPT !.synchro = Due(p, m)]
    <3> DEFINE q == [p EXCEPT !.synchro = Due(p, m - 1)]
    <3>1. q.cycle = "periodic" /\ q.period = n /\ q.synchro = Due(p, m - 1)
      BY <2>8 DEF Programs
    <3>2. Midnight(q) = [q EXCEPT !.synchro = Due(p, m)]
      <4> HIDE DEF q
      <4> QED
        BY <3>1, <2>9 DEF Midnight
    <3>3. [q EXCEPT !.synchro = Due(p, m)] = [p EXCEPT !.synchro = Due(p, m)]
      BY DEF Programs
    <3> QED
      BY <3>2, <3>3
  <2> QED
    BY <2>3, <2>7, <2>10
<1>2. \A k \in 0 .. h : k <= s + n => Fine(k)
  BY <1>1
<1>3. \A k \in 0 .. h : k <= s + n => f[k].cycle = "periodic" /\ f[k].synchro = Due(p, k)
  <2> TAKE k \in 0 .. h
  <2> HAVE k <= s + n
  <2>1. Fine(k)
    BY <1>2
  <2> HIDE DEF f
  <2> QED
    BY <2>1 DEF Programs
<1> QED
  BY <1>3 DEF f

-----------------------------------------------------------------------------
(* The next start.                                                         *)

\* Starts of later days are later, and those of coming days to come.
LEMMA StartsLater ==
  ASSUME Times \in Nat \ {0}, NEW t \in 0 .. Times - 1, NEW d \in Nat
  PROVE  /\ d * Times + t \in Nat
         /\ \A e \in Nat : d <= e => d * Times + t <= e * Times + t
         /\ \A n \in Nat : Day(n) < d => d * Times + t > n
<1>1. d * Times \in Nat
  OBVIOUS
<1>2. ASSUME NEW e \in Nat, d <= e PROVE d * Times + t <= e * Times + t
  <2>1. d * Times <= e * Times /\ e * Times \in Nat
    BY <1>2, ProductsOrdered
  <2> QED
    BY <1>1, <2>1
<1>3. ASSUME NEW n \in Nat, Day(n) < d PROVE d * Times + t > n
  <2>1. Day(n) \in Nat /\ n < (Day(n) + 1) * Times
    BY DayBounds
  <2>2. Day(n) + 1 \in Nat /\ Day(n) + 1 <= d
    BY <1>3, <2>1
  <2>3. (Day(n) + 1) * Times <= d * Times /\ (Day(n) + 1) * Times \in Nat
    BY <2>2, ProductsOrdered
  <2> QED
    BY <1>1, <2>1, <2>3
<1> QED
  BY <1>1, <1>2, <1>3

LEMMA StartsAre ==
  ASSUME NEW p, NEW days, NEW n
  PROVE  \A s : s \in StartsOn(p, days, n) <=>
                  \E d \in days, t \in p.starts : s = d * Times + t /\ s > n
BY DEF StartsOn

\* The days of a program's runs that the reference looks at.
RunDays(p, n, h) ==
    {Day(n) + k : k \in {j \in 0 .. h : WatersOn(After(p, h)[j], Day(n) + j)}}

LEMMA RunsAre ==
  ASSUME NEW p, NEW n, NEW h
  PROVE  NextRun(p, n, h) = Earliest(StartsOn(p, RunDays(p, n, h), n))
BY DEF NextRun, RunDays

\* Days that undercut each other give the same next start: a day of the one is a
\* day of the other, or the other has an earlier one that is still to come.
Undercuts(D, E, n) == \A d \in D : d \in E \/ \E e \in E : Day(n) < e /\ e <= d

LEMMA SameNext ==
  ASSUME Times \in Nat \ {0}, NEW p \in Programs, NEW n \in Nat,
         NEW D, NEW E, D \subseteq Nat, E \subseteq Nat,
         Undercuts(D, E, n), Undercuts(E, D, n)
  PROVE  Earliest(StartsOn(p, D, n)) = Earliest(StartsOn(p, E, n))
<1>1. p.starts \subseteq 0 .. Times - 1
  BY DEF Programs
<1>2. ASSUME NEW A, A \subseteq Nat, NEW B, B \subseteq Nat, Undercuts(A, B, n)
      PROVE  /\ StartsOn(p, A, n) \subseteq Nat
             /\ \A x \in StartsOn(p, A, n) : \E y \in StartsOn(p, B, n) : y <= x
  <2>1. SUFFICES ASSUME NEW x \in StartsOn(p, A, n)
                 PROVE  x \in Nat /\ \E y \in StartsOn(p, B, n) : y <= x
    OBVIOUS
  <2>2. PICK d \in A, t \in p.starts : x = d * Times + t /\ x > n
    BY StartsAre
  <2>3. d \in Nat /\ t \in 0 .. Times - 1
    BY <1>1, <1>2
  <2>4. x \in Nat
    BY <2>2, <2>3, StartsLater
  <2>5. CASE d \in B
    <3>1. x \in StartsOn(p, B, n)
      BY <2>2, <2>5, StartsAre
    <3> QED
      BY <2>4, <3>1
  <2>6. ASSUME NEW e \in B, Day(n) < e, e <= d
        PROVE  \E y \in StartsOn(p, B, n) : y <= x
    <3>1. e \in Nat
      BY <1>2
    <3>2. e * Times + t <= x /\ e * Times + t > n
      BY <2>2, <2>3, <2>6, <3>1, StartsLater
    <3>3. e * Times + t \in StartsOn(p, B, n)
      BY <3>2, StartsAre
    <3> QED
      BY <3>2, <3>3
  <2> QED
    BY <1>2, <2>4, <2>5, <2>6 DEF Undercuts
<1>3. /\ StartsOn(p, D, n) \subseteq Nat
      /\ \A x \in StartsOn(p, D, n) : \E y \in StartsOn(p, E, n) : y <= x
  BY <1>2
<1>4. /\ StartsOn(p, E, n) \subseteq Nat
      /\ \A x \in StartsOn(p, E, n) : \E y \in StartsOn(p, D, n) : y <= x
  BY <1>2
<1> QED
  BY <1>3, <1>4, SameEarliest

\* Of an interval, the two days looked at are its next two runs.
LEMMA IntervalDaysAreTrue ==
  ASSUME Times \in Nat \ {0}, NEW p \in Programs, p.cycle = "periodic", PhaseValid(p),
         p.synchro >= 0, NEW h \in Nat, p.period <= h, NEW n \in Nat
  PROVE  /\ IntervalDays(p, n) \subseteq Nat
         /\ Undercuts(IntervalDays(p, n), RunDays(p, n, h), n)
         /\ Undercuts(RunDays(p, n, h), IntervalDays(p, n), n)
<1> DEFINE s == p.synchro
           m == p.period
<1>1. s \in Nat /\ m \in Nat \ {0} /\ s < m /\ Day(n) \in Nat
  BY DayBounds DEF Programs, PhaseValid
<1>2. IntervalDays(p, n) = {Day(n) + s, Day(n) + s + m}
  BY DEF IntervalDays
<1>3. \A k \in 0 .. h : k <= s + m =>
         (WatersOn(After(p, h)[k], Day(n) + k) <=> Due(p, k) = 0)
  BY CountsDown DEF WatersOn
<1>4. Day(n) + s \in RunDays(p, n, h)
  <2>1. s \in 0 .. h /\ s <= s + m /\ Due(p, s) = 0
    BY <1>1 DEF Due
  <2> QED
    BY <1>3, <2>1 DEF RunDays
<1>5. Undercuts(IntervalDays(p, n), RunDays(p, n, h), n)
  <2>1. CASE s = 0
    <3>1. m \in 0 .. h /\ m <= s + m /\ Due(p, m) = 0
      BY <1>1, <2>1 DEF Due
    <3>2. Day(n) + m \in RunDays(p, n, h)
      BY <1>3, <3>1 DEF RunDays
    <3>3. Day(n) + s + m = Day(n) + m
      BY <1>1, <2>1
    <3> QED
      BY <1>2, <1>4, <3>2, <3>3 DEF Undercuts
  <2>2. CASE s # 0
    <3>1. Day(n) < Day(n) + s /\ Day(n) + s <= Day(n) + s + m
      BY <1>1, <2>2
    <3> QED
      BY <1>2, <1>4, <3>1 DEF Undercuts
  <2> QED
    BY <2>1, <2>2
<1>6. Undercuts(RunDays(p, n, h), IntervalDays(p, n), n)
  <2> SUFFICES ASSUME NEW k \in 0 .. h, WatersOn(After(p, h)[k], Day(n) + k)
               PROVE  \/ Day(n) + k \in IntervalDays(p, n)
                      \/ \E e \in IntervalDays(p, n) : Day(n) < e /\ e <= Day(n) + k
    BY DEF Undercuts, RunDays
  <2>1. CASE k < s + m
    <3>1. Due(p, k) = 0
      BY <1>1, <1>3, <2>1
    <3>2. k = s
      BY <1>1, <2>1, <3>1 DEF Due
    <3> QED
      BY <1>2, <3>2
  <2>2. CASE k >= s + m
    <3>1. Day(n) < Day(n) + s + m /\ Day(n) + s + m <= Day(n) + k
      BY <1>1, <2>2
    <3> QED
      BY <1>2, <3>1
  <2> QED
    BY <1>1, <2>1, <2>2
<1>7. IntervalDays(p, n) \subseteq Nat
  BY <1>1, <1>2
<1> QED
  BY <1>5, <1>6, <1>7

\* A part of a calendar is one.
LEMMA CalendarWithin ==
  ASSUME NEW a \in Nat, NEW b \in Nat, NEW c \in Nat, NEW e \in Nat,
         a <= b, c <= e, Calendar(a, e)
  PROVE  Calendar(b, c)
<1>1. \A d \in b .. c : d \in a .. e
  OBVIOUS
<1>2. \A d \in b .. c - 1 : d \in a .. e - 1
  OBVIOUS
<1> QED
  BY <1>1, <1>2 DEF Calendar

\* Of calendar days, a fortnight has one to come if there is one at all: the days
\* of the week come round in seven days, the odd and even ones of a month in three.
LEMMA FortnightHasDay ==
  ASSUME NEW p \in Programs, p.cycle # "periodic", NEW d \in Nat,
         Calendar(d, d + Lookahead - 1), NEW e \in Nat, MatchesCycle(p, e)
  PROVE  \E x \in d + 1 .. d + Lookahead - 1 : MatchesCycle(p, x)
<1> USE DEF Lookahead
<1>1. CASE p.cycle = "custom"
  <2>1. PICK x \in d + 1 .. d + 7 : x % 7 = e % 7
    <3> DEFINE r == (e % 7) - (d % 7)
    <3>2. e % 7 \in 0 .. 6 /\ d % 7 \in 0 .. 6
      OBVIOUS
    <3>3. CASE r >= 1
      <4>1. d + r \in d + 1 .. d + 7 /\ (d + r) % 7 = e % 7
        BY <3>2, <3>3
      <4> QED
        BY <4>1
    <3>4. CASE r <= 0
      <4>1. d + r + 7 \in d + 1 .. d + 7 /\ (d + r + 7) % 7 = e % 7
        BY <3>2, <3>4
      <4> QED
        BY <4>1
    <3> QED
      BY <3>2, <3>3, <3>4
  <2>2. x % 7 \in p.week
    BY <1>1, <2>1 DEF MatchesCycle, Weekday
  <2>3. x \in d + 1 .. d + 14 - 1
    BY <2>1
  <2> QED
    BY <1>1, <2>2, <2>3 DEF MatchesCycle, Weekday
<1>2. CASE p.cycle \in {"even", "odd", "odd_31"}
  <2> DEFINE a == MonthDay[d + 1]
             b == MonthDay[d + 2]
             c == MonthDay[d + 3]
  <2>1. /\ a \in 1 .. 31 /\ b \in 1 .. 31 /\ c \in 1 .. 31
        /\ b = a + 1 \/ (a >= 28 /\ b = 1)
        /\ c = b + 1 \/ (b >= 28 /\ c = 1)
    <3>1. /\ d + 1 \in d .. d + 14 - 1 /\ d + 2 \in d .. d + 14 - 1 /\ d + 3 \in d .. d + 14 - 1
          /\ d + 1 \in d .. d + 14 - 1 - 1 /\ d + 2 \in d .. d + 14 - 1 - 1
          /\ d + 1 + 1 = d + 2 /\ d + 2 + 1 = d + 3
      OBVIOUS
    <3> QED
      BY <3>1 DEF Calendar
  <2>2. /\ d + 1 \in d + 1 .. d + 14 - 1 /\ d + 2 \in d + 1 .. d + 14 - 1
        /\ d + 3 \in d + 1 .. d + 14 - 1
    OBVIOUS
  <2> HIDE DEF a, b, c
  <2>3. a % 2 = 0 \/ b % 2 = 0 \/ c % 2 = 0
    BY <2>1
  <2>4. (a % 2 = 1 /\ a # 31) \/ (b % 2 = 1 /\ b # 31) \/ (c % 2 = 1 /\ c # 31)
    BY <2>1
  <2>5. CASE p.cycle = "even"
    BY <2>2, <2>3, <2>5 DEF MatchesCycle, a, b, c
  <2>6. CASE p.cycle = "odd"
    BY <2>2, <2>4, <2>6 DEF MatchesCycle, a, b, c
  <2>7. CASE p.cycle = "odd_31"
    BY <2>2, <2>4, <2>7 DEF MatchesCycle, a, b, c
  <2> QED
    BY <1>2, <2>5, <2>6, <2>7
<1> QED
  BY <1>1, <1>2 DEF Programs, Cycles

LEMMA CalendarDaysAreTrue ==
  ASSUME Times \in Nat \ {0}, NEW p \in Programs, p.cycle # "periodic",
         NEW h \in Nat, Lookahead <= h, NEW n \in Nat, Calendar(Day(n), Day(n) + h)
  PROVE  /\ CalendarDays(p, n) \subseteq Nat
         /\ Undercuts(CalendarDays(p, n), RunDays(p, n, h), n)
         /\ Undercuts(RunDays(p, n, h), CalendarDays(p, n), n)
<1> USE DEF Lookahead
<1>0. Day(n) \in Nat
  BY DayBounds
<1>1. \A k \in 0 .. h : WatersOn(After(p, h)[k], Day(n) + k) <=> MatchesCycle(p, Day(n) + k)
  BY CalendarStays DEF WatersOn
<1>2. CalendarDays(p, n) \subseteq RunDays(p, n, h)
  <2> SUFFICES ASSUME NEW d \in Day(n) .. Day(n) + 14 - 1, MatchesCycle(p, d)
               PROVE  d \in RunDays(p, n, h)
    BY DEF CalendarDays
  <2>1. d - Day(n) \in 0 .. h /\ Day(n) + (d - Day(n)) = d
    BY <1>0
  <2> QED
    BY <1>1, <2>1 DEF RunDays
<1>3. Undercuts(RunDays(p, n, h), CalendarDays(p, n), n)
  <2> SUFFICES ASSUME NEW k \in 0 .. h, WatersOn(After(p, h)[k], Day(n) + k)
               PROVE  \/ Day(n) + k \in CalendarDays(p, n)
                      \/ \E e \in CalendarDays(p, n) : Day(n) < e /\ e <= Day(n) + k
    BY DEF Undercuts, RunDays
  <2>1. MatchesCycle(p, Day(n) + k) /\ Day(n) + k \in Nat
    BY <1>0, <1>1
  <2>2. CASE k <= 13
    <3>1. Day(n) + k \in Day(n) .. Day(n) + 14 - 1
      BY <1>0, <2>2
    <3> QED
      BY <2>1, <3>1 DEF CalendarDays
  <2>3. CASE k > 13
    <3>1. Calendar(Day(n), Day(n) + 14 - 1)
      <4>1. Day(n) + 14 - 1 \in Nat /\ Day(n) + h \in Nat /\ Day(n) + 14 - 1 <= Day(n) + h
        BY <1>0
      <4> QED
        BY <1>0, <4>1, CalendarWithin
    <3>2. PICK x \in Day(n) + 1 .. Day(n) + 14 - 1 : MatchesCycle(p, x)
      BY <1>0, <2>1, <3>1, FortnightHasDay
    <3>3. x \in Day(n) .. Day(n) + 14 - 1 /\ Day(n) < x /\ x <= Day(n) + k
      BY <1>0, <2>3, <3>2
    <3>4. x \in CalendarDays(p, n)
      BY <3>2, <3>3 DEF CalendarDays
    <3> QED
      BY <3>3, <3>4
  <2> QED
    BY <2>2, <2>3
<1>4. CalendarDays(p, n) \subseteq Nat
  BY <1>0 DEF CalendarDays
<1> QED
  BY <1>2, <1>3, <1>4 DEF Undercuts

\* The next start shown is the first of the controller's, for every program but a
\* periodic one whose countdown is no part of its interval.
LEMMA NextStartCorrect ==
  ASSUME Times \in Nat \ {0}, NEW p \in Programs, NEW n \in Nat,
         NEW h \in Nat, Lookahead <= h, Calendar(Day(n), Day(n) + h),
         p.cycle = "periodic" => PhaseValid(p) /\ p.synchro >= 0 /\ p.period <= h
  PROVE  NextStart(p, n) = NextRun(p, n, h)
<1>1. RunDays(p, n, h) \subseteq Nat
  <2>1. Day(n) \in Nat
    BY DayBounds
  <2> QED
    BY <2>1 DEF RunDays
<1>2. CASE p.cycle = "periodic"
  <2>1. /\ IntervalDays(p, n) \subseteq Nat
        /\ Undercuts(IntervalDays(p, n), RunDays(p, n, h), n)
        /\ Undercuts(RunDays(p, n, h), IntervalDays(p, n), n)
    BY <1>2, IntervalDaysAreTrue
  <2>2. NextStart(p, n) = Earliest(StartsOn(p, IntervalDays(p, n), n))
    BY <1>2 DEF NextStart
  <2> QED
    BY <1>1, <2>1, <2>2, SameNext, RunsAre
<1>3. CASE p.cycle # "periodic"
  <2>1. /\ CalendarDays(p, n) \subseteq Nat
        /\ Undercuts(CalendarDays(p, n), RunDays(p, n, h), n)
        /\ Undercuts(RunDays(p, n, h), CalendarDays(p, n), n)
    BY <1>3, CalendarDaysAreTrue
  <2>2. NextStart(p, n) = Earliest(StartsOn(p, CalendarDays(p, n), n))
    BY <1>3 DEF NextStart
  <2> QED
    BY <1>1, <2>1, <2>2, SameNext, RunsAre
<1> QED
  BY <1>2, <1>3

-----------------------------------------------------------------------------
(* The editor's invariant.                                                 *)

\* A program whose countdown is one, unless its period is none.
Sane(p) == p \in Programs /\ (p.period >= 1 => p.synchro >= 0)

\* One that a form lets through.
Writable(p) == Sane(p) /\ p.period >= 1

Revisions == [program: Programs, day: Nat]

Pcs == {"closed", "edit", "apply", "degenerate", "preflight", "write", "failed"}

FlowType ==
    [pc: Pcs, day: Nat, form: Programs \cup {None}, revision: Revisions \cup {None},
     program: Programs \cup {None}, anchor: Int \cup {None}, ticked: BOOLEAN,
     today: Nat \cup {None}, checked: Nat \cup {None},
     base: Programs \cup {None}, fresh: BOOLEAN, unseen: BOOLEAN]

\* What was read is no younger than the form that shows it, and neither is than
\* the day: a revision that is still the controller's makes all of them today.
FlowFits(f, today) ==
    /\ f.pc # "closed" => /\ f.form \in Programs /\ f.base \in Programs
                          /\ f.revision \in Revisions
                          /\ f.revision.day <= f.day /\ f.day <= today
                          /\ f.fresh => f.revision.program = f.base
    /\ f.pc \in {"apply", "degenerate"} => Writable(f.program) /\ f.anchor \in Int
    /\ f.pc = "apply" => ~ Degenerate(f.program)
    /\ f.pc \in {"preflight", "write"} =>
          /\ Writable(f.program) /\ f.anchor \in Int
          /\ f.today \in Nat /\ f.day <= f.today /\ f.today <= today
          /\ Degenerate(f.program) => f.ticked
    /\ f.pc = "write" =>
          /\ f.checked = f.revision.day /\ f.checked = f.day /\ f.checked = f.today
          /\ f.program = Phased(f.program, f.anchor, f.today)

EditorInv ==
    /\ now \in 0 .. End /\ active \in BOOLEAN
    /\ Sane(ctl) /\ Sane(cached) /\ snap \in Revisions /\ snap.day <= Today
    /\ flow \in FlowType
    /\ FlowFits(flow, Today)
    \* Until the day ends or the phone edits, the program checked is the one written over.
    /\ flow.pc = "write" /\ flow.fresh /\ ~flow.unseen /\ flow.checked = Today => ctl = flow.base

\* Times and countdowns.
LEMMA TodayIsDay ==
  ASSUME EditorConstants, now \in 0 .. End
  PROVE  Today \in Nat /\ now \in Nat /\ Times \in Nat \ {0}
<1>1. Times \in Nat \ {0} /\ End \in Nat
  BY DEF EditorConstants
<1>2. now \in Nat
  BY <1>1
<1> QED
  BY <1>1, <1>2, DayBounds DEF Today

LEMMA CountdownInPeriod ==
  ASSUME NEW a \in Int, NEW n \in Nat \ {0}, NEW d \in Nat
  PROVE  Countdown(a, n, d) \in 0 .. n - 1
<1>1. \A x \in Int : x % n \in 0 .. n - 1
  OBVIOUS
<1>2. CASE a >= d
  BY <1>1, <1>2 DEF Countdown
<1>3. CASE ~ (a >= d)
  <2>1. d - a \in Int /\ n - ((d - a) % n) \in Int
    BY <1>1
  <2> QED
    BY <1>1, <1>3, <2>1 DEF Countdown
<1> QED
  BY <1>2, <1>3

\* The countdown is the one field of a program that its day sets.
LEMMA PhasedWritable ==
  ASSUME NEW p, p \in Programs, p.period >= 1, NEW a \in Int, NEW d \in Nat
  PROVE  /\ Writable(Phased(p, a, d))
         /\ Degenerate(Phased(p, a, d)) <=> Degenerate(p)
         /\ \A e : Phased(Phased(p, a, d), a, e) = Phased(p, a, e)
<1> DEFINE v(e) == IF p.cycle = "periodic" THEN Countdown(a, p.period, e) ELSE 0
           q == [p EXCEPT !.synchro = v(d)]
<1>1. v(d) \in Nat
  <2>1. p.period \in Nat \ {0}
    BY DEF Programs
  <2>2. Countdown(a, p.period, d) \in 0 .. p.period - 1
    BY <2>1, CountdownInPeriod
  <2> QED
    BY <2>1, <2>2
<1>2. Phased(p, a, d) = q
  BY DEF Phased
<1> HIDE DEF v
<1>3. /\ q \in Programs /\ q.synchro = v(d) /\ q.cycle = p.cycle /\ q.period = p.period
      /\ q.week = p.week /\ q.starts = p.starts /\ q.waters = p.waters
  BY <1>1 DEF Programs
<1>4. \A e : [q EXCEPT !.synchro = v(e)] = [p EXCEPT !.synchro = v(e)]
  BY DEF Programs
<1> HIDE DEF q
<1>5. \A e : Phased(q, a, e) = [q EXCEPT !.synchro = v(e)] /\ Phased(p, a, e) = [p EXCEPT !.synchro = v(e)]
  BY <1>3 DEF Phased, v
<1>6. Degenerate(q) <=> Degenerate(p)
  BY <1>3 DEF Degenerate
<1>7. Writable(q)
  BY <1>1, <1>3 DEF Writable, Sane
<1> QED
  BY <1>2, <1>4, <1>5, <1>6, <1>7

LEMMA MidnightSane ==
  ASSUME NEW p, Sane(p)
  PROVE  Sane(Midnight(p))
<1>1. CASE p.cycle # "periodic"
  BY <1>1 DEF Midnight
<1>2. CASE p.cycle = "periodic"
  <2> DEFINE v == IF p.synchro = 0 THEN p.period - 1 ELSE p.synchro - 1
             q == [p EXCEPT !.synchro = v]
  <2>1. v \in Int /\ (p.period >= 1 => v >= 0)
    BY DEF Sane, Programs
  <2>2. Midnight(p) = q
    BY <1>2 DEF Midnight
  <2> HIDE DEF v
  <2>3. q \in Programs /\ q.synchro = v /\ q.period = p.period
    BY <2>1 DEF Sane, Programs
  <2> QED
    BY <2>1, <2>2, <2>3 DEF Sane
<1> QED
  BY <1>1, <1>2

\* What is handed in parses to a program that may be written.
LEMMA ParsedWritable ==
  ASSUME EditorConstants, now \in 0 .. End, flow.form \in Programs, flow.day \in Nat,
         NEW input \in Inputs, NEW preset \in Presets
  PROVE  Writable(Parsed(input, preset)) /\ input.anchor \in Int
<1>1. /\ input.cycle \in Cycles /\ input.week \subseteq 0 .. 6 /\ input.period \in Nat
      /\ input.starts \subseteq 0 .. Times - 1 /\ input.waters \in BOOLEAN
      /\ input.anchor \in Int /\ input.period >= 1
  <2>1. ASSUME NEW f \in Programs, NEW a \in Int, input = Filled(f, a)
        PROVE  /\ input.cycle \in Cycles /\ input.week \subseteq 0 .. 6 /\ input.period \in Nat
               /\ input.starts \subseteq 0 .. Times - 1 /\ input.waters \in BOOLEAN
               /\ input.anchor \in Int
    BY <2>1 DEF Filled, Programs
  <2>2. flow.form.synchro \in Int
    BY DEF Programs
  <2>3. \E f \in Programs, a \in Int : input = Filled(f, a)
    <3>1. CASE input = Untouched
      <4> DEFINE a == flow.day + IF flow.form.cycle = "periodic" /\ PhaseValid(flow.form)
                                 THEN flow.form.synchro ELSE 0
      <4>1. a \in Int
        BY <2>2
      <4>2. input = Filled(flow.form, a)
        BY <3>1 DEF Untouched
      <4> HIDE DEF a
      <4> QED
        BY <4>1, <4>2
    <3>2. CASE \E f \in Forms, a \in Anchors : input = Filled(f, a)
      <4>1. Forms \subseteq Programs
        BY DEF EditorConstants
      <4>2. Anchors \subseteq Int
        BY DEF Anchors
      <4> QED
        BY <3>2, <4>1, <4>2
    <3> QED
      BY <3>1, <3>2 DEF Inputs
  <2>4. input.period >= 1
    BY DEF Inputs
  <2> QED
    BY <2>1, <2>3, <2>4
<1> DEFINE plain == [cycle |-> input.cycle, week |-> input.week, period |-> input.period,
                     synchro |-> 0, starts |-> input.starts, waters |-> input.waters]
           over == [x \in DOMAIN plain |-> IF x \in DOMAIN preset THEN preset[x] ELSE plain[x]]
<1>2. /\ DOMAIN preset \subseteq {"cycle", "week", "period", "synchro"}
      /\ "cycle" \in DOMAIN preset => preset["cycle"] \in Cycles
      /\ "week" \in DOMAIN preset => preset["week"] \subseteq 0 .. 6
      /\ "period" \in DOMAIN preset => preset["period"] \in Nat \ {0}
      /\ "synchro" \in DOMAIN preset => preset["synchro"] \in Nat
  BY DEF EditorConstants
<1>3. over \in Programs /\ over.period >= 1
  <2>1. DOMAIN plain = {"cycle", "week", "period", "synchro", "starts", "waters"}
    OBVIOUS
  <2>2. over = [cycle |-> over.cycle, week |-> over.week, period |-> over.period,
                synchro |-> over.synchro, starts |-> over.starts, waters |-> over.waters]
    BY <2>1
  <2>3. over.cycle \in Cycles
    BY <1>1, <1>2, <2>1
  <2>4. over.week \subseteq 0 .. 6
    BY <1>1, <1>2, <2>1
  <2>5. over.period \in Nat /\ over.period >= 1
    BY <1>1, <1>2, <2>1
  <2>6. over.synchro \in Int
    BY <1>1, <1>2, <2>1
  <2>7. over.starts = input.starts
    BY <1>2, <2>1
  <2>8. over.waters = input.waters
    BY <1>2, <2>1
  <2> HIDE DEF over, plain
  <2> QED
    BY <1>1, <2>2, <2>3, <2>4, <2>5, <2>6, <2>7, <2>8 DEF Programs
<1>4. Parsed(input, preset) = Phased(over, input.anchor, Today)
  BY DEF Parsed
<1>5. Today \in Nat
  BY TodayIsDay
<1> HIDE DEF over, plain
<1> QED
  BY <1>1, <1>3, <1>4, <1>5, PhasedWritable

-----------------------------------------------------------------------------
(* The invariant is kept.                                                  *)

LEMMA EditorStarts ==
  ASSUME EditorConstants, Init
  PROVE  EditorInv
<1>1. now \in 0 .. End /\ Times \in Nat \ {0}
  BY DEF Init, EditorConstants
<1>2. Today \in Nat
  BY <1>1, TodayIsDay
<1>3. Sane(ctl) /\ ctl \in Programs
  BY DEF Init, EditorConstants, Sane
<1>4. snap \in Revisions /\ snap.day <= Today
  BY <1>2, <1>3 DEF Init, Revisions
<1>5. flow \in FlowType /\ flow.pc = "closed"
  BY DEF Init, Closed, FlowType, Pcs
<1> QED
  BY <1>1, <1>3, <1>4, <1>5 DEF Init, EditorInv, FlowFits

\* Every step but Tick leaves the day.
LEMMA SameDay ==
  ASSUME now' = now
  PROVE  Today' = Today
BY DEF Today, Day

\* What a read brings.
LEMMA RevisionFits ==
  ASSUME EditorConstants, EditorInv
  PROVE  Revision \in Revisions /\ Revision.day = Today /\ Revision.program = ctl /\ Today \in Nat
<1>1. Today \in Nat
  BY TodayIsDay DEF EditorInv
<1> QED
  BY <1>1 DEF EditorInv, Sane, Revision, Revisions

\* The form is rendered today, of whatever program is known.
LEMMA RenderedFits ==
  ASSUME NEW f \in FlowType, NEW p \in Programs, Today \in Nat,
         f.base \in Programs, f.revision \in Revisions, f.revision.day <= Today,
         f.fresh => f.revision.program = f.base
  PROVE  /\ Rendered(f, p) \in FlowType /\ Rendered(f, p).pc = "edit"
         /\ FlowFits(Rendered(f, p), Today)
<1> DEFINE g == Rendered(f, p)
<1>1. /\ g \in FlowType /\ g.pc = "edit" /\ g.day = Today /\ g.form = p
      /\ g.base = f.base /\ g.revision = f.revision /\ g.fresh = f.fresh
  BY DEF Rendered, FlowType, Pcs
<1> HIDE DEF g
<1>2. FlowFits(g, Today)
  BY <1>1 DEF FlowFits
<1> QED
  BY <1>1, <1>2 DEF g

\* A flow that reads something else keeps what it had.
LEMMA ReadsKeep ==
  ASSUME EditorConstants, EditorInv, BackgroundRead \/ OtherRead
  PROVE  EditorInv'
<1>1. now' = now /\ ctl' = ctl /\ active' = active /\ flow' = flow /\ snap' = Revision
      /\ cached' \in {ctl, cached}
  BY DEF BackgroundRead, OtherRead
<1>2. Today' = Today
  BY <1>1, SameDay
<1>3. snap' \in Revisions /\ snap'.day <= Today
  BY <1>1, RevisionFits
<1>4. Sane(cached')
  BY <1>1 DEF EditorInv
<1> QED
  BY <1>1, <1>2, <1>3, <1>4 DEF EditorInv

LEMMA OpenKeeps ==
  ASSUME EditorConstants, EditorInv, OpenEditor
  PROVE  EditorInv'
<1>1. now' = now /\ ctl' = ctl /\ active' = active
  BY DEF OpenEditor
<1>2. Today' = Today /\ Today \in Nat
  BY <1>1, SameDay, RevisionFits
<1>3. /\ Sane(cached') /\ cached' \in Programs
      /\ snap' \in Revisions /\ snap'.day <= Today
      /\ ~active => snap'.program = cached'
  <2>1. CASE active
    <3>1. UNCHANGED <<cached, snap>>
      BY <2>1 DEF OpenEditor
    <3> QED
      BY <2>1, <3>1 DEF EditorInv, Sane
  <2>2. CASE ~active
    <3>1. cached' = ctl /\ snap' = Revision
      BY <2>2 DEF OpenEditor
    <3> QED
      BY <3>1, <1>2, RevisionFits DEF EditorInv, Sane
  <2> QED
    BY <2>1, <2>2
<1> DEFINE g == [Closed EXCEPT !.revision = snap', !.base = cached', !.fresh = ~active]
<1>4. /\ g \in FlowType /\ g.base = cached' /\ g.revision = snap' /\ g.fresh = ~active
  <2>1. active \in BOOLEAN /\ (~active) \in BOOLEAN
    BY DEF EditorInv
  <2> QED
    BY <1>3, <2>1 DEF Closed, FlowType, Pcs
<1>5. flow' = Rendered(g, cached')
  BY DEF OpenEditor
<1> HIDE DEF g
<1>6. flow' \in FlowType /\ flow'.pc = "edit" /\ FlowFits(flow', Today)
  BY <1>2, <1>3, <1>4, <1>5, RenderedFits
<1> QED
  BY <1>1, <1>2, <1>3, <1>6 DEF EditorInv

LEMMA CloseKeeps ==
  ASSUME EditorConstants, EditorInv, CloseEditor
  PROVE  EditorInv'
<1>1. now' = now /\ ctl' = ctl /\ active' = active /\ cached' = cached /\ snap' = snap
  BY DEF CloseEditor
<1>2. Today' = Today
  BY <1>1, SameDay
<1>3. flow' \in FlowType /\ flow'.pc = "closed"
  BY DEF CloseEditor, Closed, FlowType, Pcs
<1> QED
  BY <1>1, <1>2, <1>3 DEF EditorInv, FlowFits

\* What an open form has.
LEMMA OpenHas ==
  ASSUME EditorConstants, EditorInv, flow.pc # "closed"
  PROVE  /\ flow \in FlowType /\ flow.form \in Programs /\ flow.base \in Programs
         /\ flow.revision \in Revisions /\ flow.revision.day \in Nat /\ flow.day \in Nat
         /\ flow.revision.day <= flow.day /\ flow.day <= Today /\ flow.revision.day <= Today
         /\ flow.fresh => flow.revision.program = flow.base
<1>1. /\ flow \in FlowType /\ flow.form \in Programs /\ flow.base \in Programs
      /\ flow.revision \in Revisions /\ flow.revision.day <= flow.day /\ flow.day <= Today
      /\ flow.fresh => flow.revision.program = flow.base
  BY DEF EditorInv, FlowFits
<1>2. flow.day \in Nat /\ flow.revision.day \in Nat /\ Today \in Nat
  BY <1>1, RevisionFits DEF FlowType, Revisions
<1> QED
  BY <1>1, <1>2

\* The form is shown again, of what is known then.
LEMMA ShownAgainKeeps ==
  ASSUME EditorConstants, EditorInv, flow.pc # "closed",
         now' = now, ctl' = ctl, active' = active,
         (cached' = cached /\ snap' = snap) \/ (cached' = ctl /\ snap' = Revision),
         flow' = Rendered(flow, cached')
  PROVE  EditorInv'
<1>1. Today' = Today /\ Today \in Nat
  BY SameDay, RevisionFits
<1>2. Sane(cached') /\ cached' \in Programs /\ snap' \in Revisions /\ snap'.day <= Today
  BY <1>1, RevisionFits DEF EditorInv, Sane
<1>3. flow' \in FlowType /\ flow'.pc = "edit" /\ FlowFits(flow', Today)
  BY <1>1, <1>2, OpenHas, RenderedFits
<1> QED
  BY <1>1, <1>2, <1>3 DEF EditorInv

LEMMA SubmitKeeps ==
  ASSUME EditorConstants, EditorInv, Submit
  PROVE  EditorInv'
<1>1. now' = now /\ ctl' = ctl /\ active' = active /\ cached' = cached /\ snap' = snap
  BY DEF Submit
<1>2. Today' = Today /\ Today \in Nat
  BY <1>1, SameDay, RevisionFits
<1>3. flow.pc = "edit"
  BY DEF Submit
<1>4. CASE active
  <2>1. flow' = Rendered(flow, cached)
    BY <1>4 DEF Submit
  <2>2. flow' = Rendered(flow, cached') /\ flow.pc # "closed"
    BY <1>1, <1>3, <2>1
  <2> QED
    BY <1>1, <2>2, ShownAgainKeeps
<1>5. CASE ~active
  <2>1. PICK input \in Inputs, preset \in Presets :
          LET p == Parsed(input, preset)
              pc == IF Degenerate(p) THEN "degenerate"
                    ELSE IF DOMAIN preset # {} \/ Wraps(p, input.anchor) THEN "apply"
                    ELSE "preflight"
          IN flow' = IF active THEN Rendered(flow, cached)
                     ELSE [flow EXCEPT !.pc = pc, !.program = p, !.anchor = input.anchor,
                                       !.day = IF pc = "preflight" THEN @ ELSE Today,
                                       !.today = Today]
    BY DEF Submit
  <2> DEFINE p == Parsed(input, preset)
             pc == IF Degenerate(p) THEN "degenerate"
                   ELSE IF DOMAIN preset # {} \/ Wraps(p, input.anchor) THEN "apply"
                   ELSE "preflight"
             day == IF pc = "preflight" THEN flow.day ELSE Today
             a == input.anchor
  <2>2. flow' = [flow EXCEPT !.pc = pc, !.program = p, !.anchor = a, !.day = day, !.today = Today]
    BY <1>5, <2>1
  <2>3. Writable(p) /\ a \in Int
    BY <1>3, OpenHas, ParsedWritable DEF EditorInv
  <2>4. /\ pc \in {"degenerate", "apply", "preflight"}
        /\ pc \in {"apply", "preflight"} => ~ Degenerate(p)
        /\ day \in {flow.day, Today}
    OBVIOUS
  <2> HIDE DEF p, pc, day, a
  <2>5. /\ flow \in FlowType /\ flow.form \in Programs /\ flow.base \in Programs
        /\ flow.revision \in Revisions /\ flow.revision.day \in Nat /\ flow.day \in Nat
        /\ flow.revision.day <= flow.day /\ flow.day <= Today
        /\ flow.fresh => flow.revision.program = flow.base
    BY <1>3, OpenHas
  <2>6. p \in Programs
    BY <2>3 DEF Writable, Sane
  <2>7. /\ flow' \in FlowType /\ flow'.pc = pc /\ flow'.program = p /\ flow'.anchor = a
        /\ flow'.day = day /\ flow'.today = Today /\ flow'.form = flow.form
        /\ flow'.base = flow.base /\ flow'.revision = flow.revision /\ flow'.fresh = flow.fresh
    BY <1>2, <2>2, <2>3, <2>4, <2>5, <2>6 DEF FlowType, Pcs
  <2>8. flow'.revision.day <= day /\ day <= Today
    BY <1>2, <2>4, <2>5, <2>7
  <2>9. FlowFits(flow', Today)
    BY <1>2, <2>3, <2>4, <2>5, <2>7, <2>8 DEF FlowFits
  <2>10. flow'.pc # "write"
    BY <2>4, <2>7
  <2> QED
    BY <1>1, <1>2, <2>7, <2>9, <2>10 DEF EditorInv
<1> QED
  BY <1>4, <1>5

LEMMA ConfirmKeeps ==
  ASSUME EditorConstants, EditorInv, Confirm
  PROVE  EditorInv'
<1>1. now' = now /\ ctl' = ctl /\ active' = active /\ cached' = cached /\ snap' = snap
  BY DEF Confirm
<1>2. Today' = Today /\ Today \in Nat
  BY <1>1, SameDay, RevisionFits
<1>3. flow.pc \in {"apply", "degenerate"}
  BY DEF Confirm
<1>4. /\ flow \in FlowType /\ flow.form \in Programs /\ flow.base \in Programs
      /\ flow.revision \in Revisions /\ flow.day \in Nat
      /\ flow.revision.day <= flow.day /\ flow.day <= Today
      /\ flow.fresh => flow.revision.program = flow.base
  BY <1>3, OpenHas
<1>5. /\ Writable(flow.program) /\ flow.anchor \in Int
      /\ flow.pc = "apply" => ~ Degenerate(flow.program)
  BY <1>3 DEF EditorInv, FlowFits
<1>6. /\ flow' \in FlowType /\ flow'.pc = "preflight" /\ flow'.today = Today
      /\ flow'.program = flow.program /\ flow'.anchor = flow.anchor
      /\ flow'.day = flow.day /\ flow'.form = flow.form /\ flow'.base = flow.base
      /\ flow'.revision = flow.revision /\ flow'.fresh = flow.fresh
      /\ flow'.ticked = (flow.pc = "degenerate")
  <2>1. (flow.pc = "degenerate") \in BOOLEAN
    OBVIOUS
  <2> QED
    BY <1>2, <1>4, <2>1 DEF Confirm, FlowType, Pcs
<1>7. Degenerate(flow.program) => flow'.ticked
  BY <1>3, <1>5, <1>6
<1> HIDE DEF Degenerate, Writable
<1>8. FlowFits(flow', Today)
  BY <1>2, <1>4, <1>5, <1>6, <1>7 DEF FlowFits
<1> QED
  BY <1>1, <1>2, <1>6, <1>8 DEF EditorInv

LEMMA DeclineKeeps ==
  ASSUME EditorConstants, EditorInv, Decline
  PROVE  EditorInv'
<1>1. /\ now' = now /\ ctl' = ctl /\ active' = active /\ cached' = cached /\ snap' = snap
      /\ flow.pc \in {"apply", "degenerate"} /\ flow' = Rendered(flow, cached)
  BY DEF Decline
<1>2. flow' = Rendered(flow, cached') /\ flow.pc # "closed"
  BY <1>1
<1> QED
  BY <1>1, <1>2, ShownAgainKeeps

LEMMA ShowAgainKeeps ==
  ASSUME EditorConstants, EditorInv, ShowAgain
  PROVE  EditorInv'
<1>1. /\ now' = now /\ ctl' = ctl /\ active' = active
      /\ flow.pc = "failed" /\ flow' = Rendered(flow, cached')
      /\ (cached' = cached /\ snap' = snap) \/ (cached' = ctl /\ snap' = Revision)
  BY DEF ShowAgain
<1>2. flow.pc # "closed"
  BY <1>1
<1> QED
  BY <1>1, <1>2, ShownAgainKeeps

\* A write that failed leaves the form as it was opened.
LEMMA FailedKeeps ==
  ASSUME EditorConstants, EditorInv, flow.pc # "closed", Fails,
         now' = now, active' = active, cached' \in {cached, ctl'}, Sane(ctl'),
         snap' \in Revisions, snap'.day <= Today
  PROVE  EditorInv'
<1>1. Today' = Today
  BY SameDay
<1>2. /\ flow' \in FlowType /\ flow'.pc = "failed" /\ flow'.form = flow.form
      /\ flow'.base = flow.base /\ flow'.revision = flow.revision /\ flow'.day = flow.day
      /\ flow'.fresh = flow.fresh
  BY OpenHas DEF Fails, FlowType, Pcs
<1>3. FlowFits(flow', Today)
  BY <1>2, OpenHas DEF FlowFits
<1> QED
  BY <1>1, <1>2, <1>3 DEF EditorInv

\* One that was delivered closes it, or leaves it so when a save fails.
LEMMA DeliveredKeeps ==
  ASSUME EditorConstants, EditorInv, flow.pc # "closed", Delivers,
         now' = now, active' = active, Sane(ctl')
  PROVE  EditorInv'
<1>1. Today' = Today /\ Today \in Nat
  BY SameDay, RevisionFits
<1>2. snap' \in Revisions /\ snap'.day <= Today /\ cached' = ctl'
  BY <1>1 DEF Delivers, Revisions, Sane
<1>3. CASE Fails
  BY <1>2, <1>3, FailedKeeps
<1>4. CASE flow' = Closed
  <2>1. flow' \in FlowType /\ flow'.pc = "closed"
    BY <1>4 DEF Closed, FlowType, Pcs
  <2> QED
    BY <1>1, <1>2, <2>1 DEF EditorInv, FlowFits
<1> QED
  BY <1>3, <1>4 DEF Delivers

\* What the check before a write has found.
LEMMA CheckedToday ==
  ASSUME EditorConstants, EditorInv, flow.pc = "preflight", flow.revision = Revision
  PROVE  /\ flow.revision.day = Today /\ flow.day = Today /\ flow.today = Today
         /\ flow.fresh => ctl = flow.base
<1>1. flow.revision.day = Today /\ flow.revision.program = ctl /\ Today \in Nat
  BY RevisionFits
<1>2. flow.today \in Nat /\ flow.day <= flow.today /\ flow.today <= Today
  BY DEF EditorInv, FlowFits
<1>3. flow.day \in Nat /\ flow.revision.day <= flow.day
      /\ (flow.fresh => flow.revision.program = flow.base)
  BY OpenHas
<1> QED
  BY <1>1, <1>2, <1>3

LEMMA PreflightKeeps ==
  ASSUME EditorConstants, EditorInv, Preflight
  PROVE  EditorInv'
<1>1. flow.pc = "preflight" /\ now' = now /\ active' = active /\ Sane(ctl)
  BY DEF Preflight, EditorInv
<1>2. CASE flow.revision # Revision
  <2>1. Fails /\ snap' = Revision /\ ctl' = ctl /\ cached' = cached /\ flow.pc # "closed"
    BY <1>1, <1>2 DEF Preflight
  <2>2. snap' \in Revisions /\ snap'.day <= Today
    BY <2>1, RevisionFits
  <2> QED
    BY <1>1, <2>1, <2>2, FailedKeeps
<1>3. CASE flow.revision = Revision /\ Written = ctl
  <2>1. ctl' = ctl /\ Delivers
    BY <1>3 DEF Preflight
  <2> QED
    BY <1>1, <2>1, DeliveredKeeps
<1>4. CASE flow.revision = Revision /\ Written # ctl
  <2>1. /\ snap' = Revision /\ ctl' = ctl /\ cached' = cached
        /\ flow' = [flow EXCEPT !.pc = "write", !.program = Written, !.checked = Today]
    BY <1>4 DEF Preflight
  <2>2. Today' = Today /\ Today \in Nat /\ snap' \in Revisions /\ snap'.day <= Today
    BY <1>1, <2>1, SameDay, RevisionFits
  <2>3. /\ flow.revision.day = Today /\ flow.day = Today /\ flow.today = Today
        /\ flow.fresh => ctl = flow.base
    BY <1>1, <1>4, CheckedToday
  <2>4. /\ Writable(flow.program) /\ flow.anchor \in Int
        /\ Degenerate(flow.program) => flow.ticked
    BY <1>1 DEF EditorInv, FlowFits
  <2>5. /\ Writable(Written)
        /\ Degenerate(Written) <=> Degenerate(flow.program)
        /\ Phased(Written, flow.anchor, Today) = Written
    <3>1. /\ flow.program \in Programs /\ flow.program.period >= 1
          /\ Written = Phased(flow.program, flow.anchor, Today)
      BY <2>3, <2>4 DEF Writable, Sane, Written
    <3> QED
      BY <2>2, <2>4, <3>1, PhasedWritable
  <2>6. /\ flow \in FlowType /\ flow.form \in Programs /\ flow.base \in Programs
        /\ flow.revision \in Revisions
        /\ flow.fresh => flow.revision.program = flow.base
    BY <1>1, OpenHas
  <2>7. Written \in Programs
    BY <2>5 DEF Writable, Sane
  <2> DEFINE w == Written
  <2> HIDE DEF w
  <2>8. /\ flow' \in FlowType /\ flow'.pc = "write" /\ flow'.program = w
        /\ flow'.checked = Today /\ flow'.form = flow.form /\ flow'.base = flow.base
        /\ flow'.revision = flow.revision /\ flow'.day = flow.day /\ flow'.today = flow.today
        /\ flow'.anchor = flow.anchor /\ flow'.ticked = flow.ticked /\ flow'.fresh = flow.fresh
    BY <2>1, <2>2, <2>6, <2>7 DEF FlowType, Pcs, w
  <2>9. Writable(w) /\ (Degenerate(w) => flow.ticked) /\ Phased(w, flow.anchor, Today) = w
    BY <2>4, <2>5 DEF w
  <2>10. FlowFits(flow', Today)
    BY <2>2, <2>3, <2>4, <2>6, <2>8, <2>9 DEF FlowFits
  <2> QED
    BY <1>1, <2>1, <2>2, <2>3, <2>8, <2>10 DEF EditorInv
<1> QED
  BY <1>2, <1>3, <1>4

LEMMA WriteKeeps ==
  ASSUME EditorConstants, EditorInv, Write
  PROVE  EditorInv'
<1>1. flow.pc = "write" /\ now' = now /\ active' = active /\ ctl' = flow.program
  BY DEF Write
<1>2. Sane(ctl')
  BY <1>1 DEF EditorInv, FlowFits, Writable
<1>3. CASE Today = flow.checked
  <2>1. Delivers
    BY <1>3 DEF Write
  <2> QED
    BY <1>1, <1>2, <2>1, DeliveredKeeps
<1>4. CASE Today # flow.checked
  <2>1. Fails /\ snap' = [program |-> ctl', day |-> Today] /\ cached' = cached /\ flow.pc # "closed"
    BY <1>1, <1>4 DEF Write
  <2>2. Today \in Nat
    BY RevisionFits
  <2>3. snap' \in Revisions /\ snap'.day <= Today
    BY <1>2, <2>1, <2>2 DEF Revisions, Sane
  <2> QED
    BY <1>1, <1>2, <2>1, <2>3, FailedKeeps
<1> QED
  BY <1>3, <1>4

LEMMA LinkLostKeeps ==
  ASSUME EditorConstants, EditorInv, LinkLost
  PROVE  EditorInv'
<1>1. /\ flow.pc \in {"preflight", "write"} /\ flow.pc # "closed" /\ Fails
      /\ now' = now /\ active' = active /\ cached' = cached /\ snap' = snap
      /\ ctl' \in {ctl, flow.program}
  BY DEF LinkLost
<1>2. Sane(ctl) /\ Sane(flow.program) /\ snap \in Revisions /\ snap.day <= Today
  BY <1>1 DEF EditorInv, FlowFits, Writable
<1>3. Sane(ctl') /\ snap' \in Revisions /\ snap'.day <= Today
  BY <1>1, <1>2
<1> QED
  BY <1>1, <1>3, FailedKeeps

LEMMA TickKeeps ==
  ASSUME EditorConstants, EditorInv, Tick
  PROVE  EditorInv'
<1>1. /\ now < End /\ now' = now + 1 /\ cached' = cached /\ snap' = snap
      /\ active' = active /\ flow' = flow
      /\ ctl' = IF Day(now + 1) = Today THEN ctl ELSE Midnight(ctl)
  BY DEF Tick
<1>2. Times \in Nat \ {0} /\ now \in Nat /\ Today \in Nat /\ End \in Nat
  BY TodayIsDay DEF EditorInv, EditorConstants
<1>3. now' \in 0 .. End
  BY <1>1, <1>2
<1>4. Today' = Day(now + 1) /\ Today <= Today' /\ Today' \in Nat
  <2>1. now + 1 \in Nat /\ now <= now + 1
    BY <1>2
  <2>2. Today' = Day(now + 1)
    BY <1>1 DEF Today, Day
  <2> QED
    BY <1>2, <2>1, <2>2, DaysOrdered, DayBounds DEF Today
<1>5. Sane(ctl')
  BY <1>1, MidnightSane DEF EditorInv
<1>6. FlowFits(flow, Today) /\ flow \in FlowType
  BY DEF EditorInv
<1>7. FlowFits(flow, Today')
  <2>1. flow.pc # "closed" => flow.day \in Nat /\ flow.day <= Today'
    BY <1>2, <1>4, OpenHas
  <2>2. flow.pc \in {"preflight", "write"} => flow.today \in Nat /\ flow.today <= Today'
    BY <1>2, <1>4, <1>6 DEF FlowFits
  <2> DEFINE day == Today'
             early == Today
  <2> HIDE DEF day, early
  <2>3. FlowFits(flow, early) /\ (flow.pc # "closed" => flow.day <= day)
        /\ (flow.pc \in {"preflight", "write"} => flow.today <= day)
    BY <1>6, <2>1, <2>2 DEF day, early
  <2>4. FlowFits(flow, day)
    BY <2>3 DEF FlowFits
  <2> QED
    BY <2>4 DEF day
<1>8. snap.day \in Nat /\ snap.day <= Today'
  BY <1>2, <1>4 DEF EditorInv, Revisions
<1>9. flow.pc = "write" /\ flow.fresh /\ ~flow.unseen /\ flow.checked = Today' => ctl' = flow.base
  <2> SUFFICES ASSUME flow.pc = "write", flow.fresh, ~flow.unseen, flow.checked = Today'
               PROVE  ctl' = flow.base
    OBVIOUS
  <2>1. flow.checked = flow.today /\ flow.today <= Today
    BY <1>6 DEF FlowFits
  <2>2. Today' = Today
    BY <1>2, <1>4, <2>1
  <2>3. ctl = flow.base
    BY <2>2 DEF EditorInv
  <2> QED
    BY <1>1, <1>4, <2>2, <2>3
<1> QED
  BY <1>1, <1>3, <1>5, <1>6, <1>7, <1>8, <1>9 DEF EditorInv

LEMMA PhoneKeeps ==
  ASSUME EditorConstants, EditorInv, PhoneEdit
  PROVE  EditorInv'
<1>1. /\ now' = now /\ cached' = cached /\ snap' = snap /\ active' = active
      /\ ctl' \in PhoneEdits
      /\ flow' = [flow EXCEPT !.unseen = @ \/ flow.pc = "write"]
  BY DEF PhoneEdit
<1>2. Today' = Today
  BY <1>1, SameDay
<1>3. Sane(ctl')
  BY <1>1 DEF EditorConstants, Sane
<1> DEFINE u == flow.unseen \/ flow.pc = "write"
<1>4. u \in BOOLEAN /\ (flow.pc = "write" => u)
  BY DEF EditorInv, FlowType
<1>5. flow' = [flow EXCEPT !.unseen = u] /\ flow \in FlowType
  BY <1>1 DEF EditorInv
<1> HIDE DEF u
<1>6. /\ flow' \in FlowType /\ flow'.unseen = u
      /\ flow'.pc = flow.pc /\ flow'.day = flow.day /\ flow'.form = flow.form
      /\ flow'.revision = flow.revision /\ flow'.program = flow.program
      /\ flow'.anchor = flow.anchor /\ flow'.ticked = flow.ticked /\ flow'.today = flow.today
      /\ flow'.checked = flow.checked /\ flow'.base = flow.base /\ flow'.fresh = flow.fresh
  BY <1>4, <1>5 DEF FlowType
<1>7. FlowFits(flow', Today)
  BY <1>6 DEF EditorInv, FlowFits
<1>8. flow'.pc = "write" => flow'.unseen
  BY <1>4, <1>6
<1> QED
  BY <1>1, <1>2, <1>3, <1>6, <1>7, <1>8 DEF EditorInv

LEMMA RestKeeps ==
  ASSUME EditorConstants, EditorInv, RunBegins \/ RunEnds \/ UNCHANGED vars
  PROVE  EditorInv'
<1>1. /\ now' = now /\ cached' = cached /\ snap' = snap /\ active' \in BOOLEAN
      /\ ctl' = ctl /\ flow' = flow
  BY DEF RunBegins, RunEnds, vars, EditorInv
<1>2. Today' = Today
  BY <1>1, SameDay
<1> QED
  BY <1>1, <1>2 DEF EditorInv

LEMMA EditorNext ==
  ASSUME EditorConstants, EditorInv, [Next]_vars
  PROVE  EditorInv'
BY ReadsKeep, OpenKeeps, CloseKeeps, SubmitKeeps, ConfirmKeeps, DeclineKeeps,
   PreflightKeeps, WriteKeeps, LinkLostKeeps, ShowAgainKeeps, TickKeeps, PhoneKeeps,
   RestKeeps DEF Next

LEMMA EditorHolds ==
  ASSUME EditorConstants
  PROVE  Spec => []EditorInv
<1>1. Init => EditorInv
  BY EditorStarts
<1>2. EditorInv /\ [Next]_vars => EditorInv'
  BY EditorNext
<1> QED
  BY <1>1, <1>2, PTL DEF Spec

-----------------------------------------------------------------------------
(* What the editor promises.                                               *)

\* EditorTypeOK, of any programs, forms and presets: a program that is to be
\* written is there, and so is the day it is counted from.
THEOREM EditorTypes ==
  ASSUME EditorConstants
  PROVE  Spec => []EditorTypeOK
<1>1. EditorInv => EditorTypeOK
  <2> SUFFICES ASSUME EditorInv PROVE EditorTypeOK
    OBVIOUS
  <2>1. flow.pc \in {"preflight", "write"} => flow.program \in Programs /\ flow.today \in Nat
    BY DEF EditorInv, FlowFits, Writable, Sane
  <2>2. flow.pc \in {"preflight", "write"} => flow.program # None /\ flow.today # None
    BY <2>1 DEF EditorConstants
  <2>3. flow.pc \in Pcs
    BY DEF EditorInv, FlowType
  <2> QED
    BY <2>2, <2>3 DEF EditorInv, EditorTypeOK, Pcs
<1> QED
  BY EditorHolds, <1>1, PTL

\* A success is a write, or the finding that there is nothing to write, on the day
\* the program was shown: what it leaves is what was shown.
LEMMA SuccessShown ==
  ASSUME EditorConstants, EditorInv, [Next]_vars, ASuccess
  PROVE  /\ flow.day = Today /\ Today \in Nat
         /\ flow.fresh /\ ~flow.unseen => ctl = flow.base
         /\ ctl' = Phased(flow.program, flow.anchor, flow.day)
         /\ Degenerate(ctl') => flow.ticked
<1>0. Today \in Nat
  BY RevisionFits
<1>1. flow.pc \in {"preflight", "write"} /\ flow'.pc = "closed"
  BY DEF ASuccess
<1>2. /\ Writable(flow.program) /\ flow.anchor \in Int
      /\ Degenerate(flow.program) => flow.ticked
  BY <1>1 DEF EditorInv, FlowFits
<1>3. CASE Preflight /\ flow.revision = Revision /\ Written = ctl
  <2>1. /\ flow.day = Today /\ flow.today = Today
        /\ flow.fresh => ctl = flow.base
    BY <1>3, CheckedToday DEF Preflight
  <2>2. ctl' = ctl
    BY <1>3 DEF Preflight
  <2>3. ctl' = Phased(flow.program, flow.anchor, flow.day)
    BY <1>3, <2>1, <2>2 DEF Written
  <2>4. Degenerate(ctl') <=> Degenerate(flow.program)
    <3>1. flow.program \in Programs /\ flow.program.period >= 1
      BY <1>2 DEF Writable, Sane
    <3> QED
      BY <1>0, <1>2, <2>1, <2>3, <3>1, PhasedWritable
  <2> QED
    BY <1>0, <1>2, <2>1, <2>3, <2>4
<1>4. CASE Write /\ Today = flow.checked
  <2>1. flow.pc = "write" /\ ctl' = flow.program
    BY <1>4 DEF Write
  <2>2. /\ flow.checked = flow.day /\ flow.checked = flow.today
        /\ flow.program = Phased(flow.program, flow.anchor, flow.today)
    BY <2>1 DEF EditorInv, FlowFits
  <2>3. flow.fresh /\ ~flow.unseen => ctl = flow.base
    BY <1>4, <2>1 DEF EditorInv
  <2> QED
    BY <1>0, <1>2, <1>4, <2>1, <2>2, <2>3
<1>5. ~Fails
  BY <1>1, OpenHas DEF Fails, FlowType
<1>6. ASSUME flow' = flow \/ PhoneEdit PROVE FALSE
  <2>1. flow'.pc = flow.pc
    BY <1>6 DEF PhoneEdit, EditorInv, FlowType
  <2> QED
    BY <1>1, <2>1
<1>7. ~ (BackgroundRead \/ OtherRead \/ Tick \/ RunBegins \/ RunEnds \/ UNCHANGED vars)
  BY <1>6 DEF BackgroundRead, OtherRead, Tick, RunBegins, RunEnds, vars
<1>8. Preflight \/ Write
  <2>1. ~ (OpenEditor \/ CloseEditor \/ Submit \/ Confirm \/ Decline \/ ShowAgain)
    BY <1>1 DEF OpenEditor, CloseEditor, Submit, Confirm, Decline, ShowAgain
  <2>2. ~ LinkLost
    BY <1>5 DEF LinkLost
  <2> QED
    BY <1>6, <1>7, <2>1, <2>2 DEF Next
<1>9. Preflight => flow.revision = Revision /\ Written = ctl
  <2> SUFFICES ASSUME Preflight, ~ (flow.revision = Revision /\ Written = ctl) PROVE FALSE
    OBVIOUS
  <2>1. flow.revision = Revision
    BY <1>5 DEF Preflight
  <2>2. flow' = [flow EXCEPT !.pc = "write", !.program = Written, !.checked = Today]
    BY <2>1 DEF Preflight
  <2>3. flow'.pc = "write"
    BY <2>2 DEF EditorInv, FlowType
  <2> QED
    BY <1>1, <2>3
<1>10. Write => Today = flow.checked
  BY <1>5 DEF Write
<1> QED
  BY <1>3, <1>4, <1>8, <1>9, <1>10

\* SuccessIsAsShown: a write that is reported done has replaced the program the
\* editor was opened with, waters when the form or its confirmation has shown, and
\* is no dead program the user has not confirmed (_attempt_write, config_flow.py).
THEOREM ShownIsWritten ==
  ASSUME EditorConstants
  PROVE  Spec => SuccessIsAsShown
<1> DEFINE Step == ASuccess =>
      /\ flow.fresh /\ ~flow.unseen => ctl = flow.base
      /\ LET shown == After(Phased(flow.program, flow.anchor, flow.day), Horizon)
             made  == After(ctl', Horizon)
         IN \A k \in 0 .. Horizon - 7 :
               Today + k - flow.day \in 0 .. Horizon =>
                  (WatersOn(made[k], Today + k) <=> WatersOn(shown[Today + k - flow.day], Today + k))
      /\ Degenerate(ctl') => flow.ticked
<1>1. ASSUME EditorInv, [Next]_vars PROVE Step
  <2> SUFFICES ASSUME ASuccess PROVE Step
    OBVIOUS
  <2>1. /\ flow.day = Today /\ Today \in Nat
        /\ flow.fresh /\ ~flow.unseen => ctl = flow.base
        /\ ctl' = Phased(flow.program, flow.anchor, flow.day)
        /\ Degenerate(ctl') => flow.ticked
    BY <1>1, SuccessShown
  <2>2. Horizon \in Nat
    BY DEF EditorConstants
  <2>3. ASSUME NEW k \in 0 .. Horizon - 7 PROVE Today + k - flow.day = k
    BY <2>1, <2>2
  <2> QED
    BY <2>1, <2>3
<1> QED
  BY <1>1, EditorHolds, PTL DEF Spec, SuccessIsAsShown

-----------------------------------------------------------------------------
(* What the sensors show. The reference must look as far as any interval.  *)

Short(p) == p \in Programs => p.period <= Horizon

PeriodsInv == Short(ctl) /\ Short(cached) /\ Short(flow.form) /\ Short(flow.program)

LEMMA PhasedShort ==
  ASSUME NEW p \in Programs, Short(p), NEW a, NEW d
  PROVE  Short(Phased(p, a, d))
<1> DEFINE v == IF p.cycle = "periodic" THEN Countdown(a, p.period, d) ELSE 0
<1>1. Phased(p, a, d) = [p EXCEPT !.synchro = v]
  BY DEF Phased
<1> HIDE DEF v
<1>2. [p EXCEPT !.synchro = v].period = p.period
  BY DEF Programs
<1> QED
  BY <1>1, <1>2 DEF Short

LEMMA ParsedShort ==
  ASSUME EditorConstants, CalendarHolds, flow.form \in Programs, Short(flow.form),
         NEW input \in Inputs, NEW preset \in Presets
  PROVE  Short(Parsed(input, preset))
<1>1. input.period <= Horizon
  <2>1. CASE input = Untouched
    BY <2>1 DEF Untouched, Filled, Short
  <2>2. CASE \E f \in Forms, a \in Anchors : input = Filled(f, a)
    BY <2>2 DEF Filled, CalendarHolds
  <2> QED
    BY <2>1, <2>2 DEF Inputs
<1> DEFINE plain == [cycle |-> input.cycle, week |-> input.week, period |-> input.period,
                     synchro |-> 0, starts |-> input.starts, waters |-> input.waters]
           over == [x \in DOMAIN plain |-> IF x \in DOMAIN preset THEN preset[x] ELSE plain[x]]
           v == IF over.cycle = "periodic" THEN Countdown(input.anchor, over.period, Today) ELSE 0
<1>2. "period" \in DOMAIN preset => preset["period"] <= Horizon
  BY DEF CalendarHolds
<1>3. over.period <= Horizon /\ "period" \in DOMAIN over
  <2>1. DOMAIN plain = {"cycle", "week", "period", "synchro", "starts", "waters"}
    OBVIOUS
  <2>2. plain.period = input.period
    OBVIOUS
  <2> HIDE DEF plain
  <2> QED
    BY <1>1, <1>2, <2>1, <2>2
<1>4. Parsed(input, preset) = [over EXCEPT !.synchro = v]
  BY DEF Parsed, Phased
<1> HIDE DEF over, plain, v
<1>5. [over EXCEPT !.synchro = v].period = over.period
  BY <1>3
<1> QED
  BY <1>3, <1>4, <1>5 DEF Short

\* The fields of a flow that hold programs, step by step.
LEMMA PeriodsNext ==
  ASSUME EditorConstants, CalendarHolds, EditorInv, PeriodsInv, [Next]_vars
  PROVE  PeriodsInv'
<1>0. /\ None \notin Programs /\ Short(None) /\ flow \in FlowType
      /\ ctl \in Programs /\ cached \in Programs
  BY DEF EditorConstants, Short, EditorInv, Sane
<1>1. ASSUME NEW f \in FlowType, NEW p
      PROVE  Rendered(f, p).form = p /\ Rendered(f, p).program = None
  BY DEF Rendered, FlowType
<1>2. CASE BackgroundRead \/ OtherRead \/ RunBegins \/ RunEnds \/ UNCHANGED vars
  BY <1>2 DEF BackgroundRead, OtherRead, RunBegins, RunEnds, vars, PeriodsInv
<1>3. CASE OpenEditor
  <2> DEFINE g == [Closed EXCEPT !.revision = snap', !.base = cached', !.fresh = ~active]
  <2>1. /\ ctl' = ctl /\ cached' \in {ctl, cached} /\ flow' = Rendered(g, cached')
    BY <1>3 DEF OpenEditor
  <2>2. flow'.form = cached' /\ flow'.program = None
    BY <2>1 DEF Rendered, Closed
  <2> QED
    BY <1>0, <2>1, <2>2 DEF PeriodsInv
<1>4. CASE CloseEditor
  <2>1. ctl' = ctl /\ cached' = cached /\ flow'.form = None /\ flow'.program = None
    BY <1>4 DEF CloseEditor, Closed
  <2> QED
    BY <1>0, <2>1 DEF PeriodsInv
<1>5. CASE Submit
  <2>1. ctl' = ctl /\ cached' = cached /\ flow.pc = "edit"
    BY <1>5 DEF Submit
  <2>2. CASE active
    <3>1. flow' = Rendered(flow, cached)
      BY <1>5, <2>2 DEF Submit
    <3>2. flow'.form = cached /\ flow'.program = None
      BY <1>0, <1>1, <3>1
    <3> QED
      BY <1>0, <2>1, <3>2 DEF PeriodsInv
  <2>3. CASE ~active
    <3>1. flow.form \in Programs
      BY <2>1, OpenHas
    <3>2. \E input \in Inputs, preset \in Presets :
             flow'.form = flow.form /\ flow'.program = Parsed(input, preset)
      BY <1>0, <1>5, <2>3 DEF Submit, FlowType
    <3>3. Short(flow'.program)
      BY <3>1, <3>2, ParsedShort DEF PeriodsInv
    <3> QED
      BY <2>1, <3>2, <3>3 DEF PeriodsInv
  <2> QED
    BY <2>2, <2>3
<1>6. CASE Confirm \/ PhoneEdit
  <2>1. flow'.form = flow.form /\ flow'.program = flow.program /\ cached' = cached
    BY <1>0, <1>6 DEF Confirm, PhoneEdit, FlowType
  <2>2. Short(ctl')
    BY <1>6 DEF Confirm, PhoneEdit, CalendarHolds, PeriodsInv, Short
  <2> QED
    BY <2>1, <2>2 DEF PeriodsInv
<1>7. CASE Decline \/ ShowAgain
  <2>1. ctl' = ctl /\ cached' \in {ctl, cached} /\ flow' = Rendered(flow, cached')
    BY <1>7 DEF Decline, ShowAgain
  <2>2. flow'.form = cached' /\ flow'.program = None
    BY <1>0, <1>1, <2>1
  <2> QED
    BY <1>0, <2>1, <2>2 DEF PeriodsInv
<1>8. ASSUME Fails, ctl' \in {ctl, flow.program}, cached' = cached PROVE PeriodsInv'
  <2>1. flow'.form = flow.form /\ flow'.program = None
    BY <1>0, <1>8 DEF Fails, FlowType
  <2> QED
    BY <1>0, <1>8, <2>1 DEF PeriodsInv
<1>9. ASSUME Delivers, ctl' \in {ctl, flow.program} PROVE PeriodsInv'
  <2>1. cached' = ctl' /\ (flow' = Closed \/ Fails)
    BY <1>9 DEF Delivers
  <2>2. CASE flow' = Closed
    <3>1. flow'.form = None /\ flow'.program = None
      BY <2>2 DEF Closed
    <3> QED
      BY <1>0, <1>9, <2>1, <3>1 DEF PeriodsInv
  <2>3. CASE Fails
    <3>1. flow'.form = flow.form /\ flow'.program = None
      BY <1>0, <2>3 DEF Fails, FlowType
    <3> QED
      BY <1>0, <1>9, <2>1, <3>1 DEF PeriodsInv
  <2> QED
    BY <2>1, <2>2, <2>3
<1>10. CASE Preflight
  <2>1. CASE Fails \/ Delivers
    BY <1>8, <1>9, <1>10, <2>1 DEF Preflight, Delivers
  <2>2. CASE ~ (Fails \/ Delivers)
    <3>1. /\ ctl' = ctl /\ cached' = cached /\ flow.pc = "preflight"
          /\ flow' = [flow EXCEPT !.pc = "write", !.program = Written, !.checked = Today]
      BY <1>10, <2>2 DEF Preflight
    <3>2. flow'.form = flow.form /\ flow'.program = Written
      BY <1>0, <3>1 DEF FlowType
    <3>3. flow.program \in Programs
      BY <3>1 DEF EditorInv, FlowFits, Writable, Sane
    <3>4. Short(Written)
      BY <3>3, PhasedShort DEF PeriodsInv, Written
    <3> QED
      BY <3>1, <3>2, <3>4 DEF PeriodsInv
  <2> QED
    BY <2>1, <2>2
<1>11. CASE Write
  <2>1. ctl' = flow.program /\ ((Fails /\ cached' = cached) \/ Delivers)
    BY <1>11 DEF Write
  <2> QED
    BY <1>8, <1>9, <2>1
<1>12. CASE LinkLost
  BY <1>8, <1>12 DEF LinkLost
<1>13. CASE Tick
  <2>1. cached' = cached /\ flow' = flow /\ ctl' \in {ctl, Midnight(ctl)}
    BY <1>13 DEF Tick
  <2>2. Short(Midnight(ctl))
    <3> DEFINE v == IF ctl.synchro = 0 THEN ctl.period - 1 ELSE ctl.synchro - 1
    <3>1. Midnight(ctl) = ctl \/ Midnight(ctl) = [ctl EXCEPT !.synchro = v]
      BY DEF Midnight
    <3> HIDE DEF v
    <3>2. [ctl EXCEPT !.synchro = v].period = ctl.period
      BY <1>0 DEF Programs
    <3> QED
      BY <1>0, <3>1, <3>2 DEF PeriodsInv, Short
  <2> QED
    BY <2>1, <2>2 DEF PeriodsInv
<1> QED
  BY <1>2, <1>3, <1>4, <1>5, <1>6, <1>7, <1>10, <1>11, <1>12, <1>13 DEF Next

\* NextStartIsTrue: the next start the sensors show of a program that is the
\* controller's is the controller's next start, for every calendar, period and time
\* of day (next_start_datetime, schedule.py).
THEOREM NextStartAlwaysTrue ==
  ASSUME EditorConstants, CalendarHolds
  PROVE  Spec => []NextStartIsTrue
<1>1. Init => PeriodsInv
  <2> SUFFICES ASSUME Init PROVE PeriodsInv
    OBVIOUS
  <2>1. Short(ctl) /\ cached = ctl
    BY DEF Init, CalendarHolds, Short
  <2>2. flow.form = None /\ flow.program = None /\ Short(None)
    BY DEF Init, Closed, EditorConstants, Short
  <2> QED
    BY <2>1, <2>2 DEF PeriodsInv
<1>2. EditorInv /\ PeriodsInv /\ [Next]_vars => PeriodsInv'
  BY PeriodsNext
<1>3. EditorInv /\ PeriodsInv => NextStartIsTrue
  <2> SUFFICES ASSUME EditorInv, PeriodsInv,
                      cached = ctl, ctl.cycle = "periodic" => PhaseValid(ctl)
               PROVE  NextStart(ctl, now) = NextRun(ctl, now, Horizon)
    BY DEF NextStartIsTrue
  <2>1. /\ now \in 0 .. End /\ now \in Nat /\ Times \in Nat \ {0} /\ Day(now) \in Nat
        /\ Horizon \in Nat /\ Lookahead <= Horizon /\ End \in Nat
    BY TodayIsDay DEF EditorInv, EditorConstants, CalendarHolds, Today
  <2>2. ctl \in Programs /\ ctl.period <= Horizon /\ (PhaseValid(ctl) => ctl.synchro >= 0)
    BY DEF EditorInv, Sane, PeriodsInv, Short, PhaseValid
  <2>3. Calendar(Day(now), Day(now) + Horizon)
    <3>1. Day(End) \in Nat /\ Day(now) <= Day(End)
      BY <2>1, DayBounds, DaysOrdered
    <3>2. Calendar(0, Day(End) + Horizon)
      BY DEF CalendarHolds
    <3> DEFINE d == Day(now)
               e == Day(End)
    <3> HIDE DEF d, e
    <3>3. d \in Nat /\ e \in Nat /\ d <= e /\ Calendar(0, e + Horizon)
      BY <2>1, <3>1, <3>2 DEF d, e
    <3>4. /\ d + Horizon \in Nat /\ e + Horizon \in Nat
          /\ 0 <= d /\ d + Horizon <= e + Horizon
      BY <2>1, <3>3
    <3>5. Calendar(d, d + Horizon)
      BY <3>3, <3>4, CalendarWithin
    <3> QED
      BY <3>5 DEF d
  <2> QED
    BY <2>1, <2>2, <2>3, NextStartCorrect
<1> QED
  BY EditorHolds, <1>1, <1>2, <1>3, PTL DEF Spec

=============================================================================
