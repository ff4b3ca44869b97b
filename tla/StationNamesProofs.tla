------------------------- MODULE StationNamesProofs -------------------------
(***************************************************************************)
(* Proofs about StationNames. For any number of editors: the types, that   *)
(* the coordinator's width is proven, and that a saved name survives a     *)
(* restart (NamesInv). For one editor, which is what the journal's lock on *)
(* the form gives: the journal's file is a write-ahead journal, and no     *)
(* rename goes over names its form did not show (EditorInv). At the end,   *)
(* both editors of the options flow side by side.                          *)
(***************************************************************************)
EXTENDS MCOptions, WellFoundedInduction, TLAPS

-----------------------------------------------------------------------------
(* The inductive invariants.                                               *)

Values == Names \cup {Blank, Torn}
Widths == Configured .. Slots

\* Names of some stations.
Shows == UNION {[S -> Values] : S \in SUBSET Outputs}

MgrType == [snapshot : NameMaps \cup {None}, pending : Entries \cup {None}]

CoType == [shown : Shows, width : Widths, restored : BOOLEAN, count : Widths]

Steps == {"idle", "opening", "settling", "select", "draft", "waiting", "checking",
          "journaling", "writing", "first", "second", "verify", "finishing", "publishing"}

FlowType == [pc : Steps, tries : 0 .. 2, accept : BOOLEAN, station : Outputs,
             name : Names \cup {None}, revision : NameMaps \cup {None},
             entry : Entries \cup {None}, displayed : NameMaps \cup {None},
             failed : BOOLEAN]

\* The steps of StationNameManager.update, under the heavy-read lock.
Locking == {"checking", "journaling", "writing", "first", "second", "verify", "finishing"}

\* What holds of a flow where it is.
FlowFits(f) ==
    /\ flow[f].pc \notin {"idle", "opening"} => mgr.snapshot # None
    /\ flow[f].pc \in Locking => lock = f
    /\ flow[f].pc \in Locking \cup {"waiting", "publishing"} => flow[f].name \in Names
    /\ flow[f].pc \in Locking \cup {"publishing"} => flow[f].station <= Configured
    /\ flow[f].pc = "publishing" => 1 .. Configured \subseteq DOMAIN co.shown

StoreInv == ctl \in NameMaps /\ mgr \in MgrType /\ disk \in Entries \cup {None}

FlowInv == /\ flow \in [Flows -> FlowType]
           /\ lock \in Flows \cup {"metadata", None}
           /\ \A f \in Flows : FlowFits(f)

\* A promised name is shown, and on its way into the cache or there.
ShownInv == /\ co \in CoType /\ cache \in Shows /\ blind \in BOOLEAN
            /\ promised \in [Outputs -> Names \cup {None}]
            /\ WidthIsProven
            /\ NoResurrection
            /\ \A s \in 1 .. Configured : promised[s] # None =>
                 s \in DOMAIN co.shown /\ co.shown[s] = promised[s]

NamesInv == StoreInv /\ FlowInv /\ ShownInv

\* One editor of the names.
OneEditor == \E f : Flows = {f}

\* What its draft was made from and what it writes, where it is.
EditorFits(f) ==
    /\ flow[f].pc \in {"settling", "journaling", "finishing"} => ~unverified
    /\ flow[f].pc = "journaling" => mgr.pending # None
    /\ flow[f].pc = "writing" => disk # None
    /\ flow[f].pc \in {"waiting", "checking"} /\ ~flow[f].failed
         => flow[f].revision = flow[f].displayed
    /\ flow[f].pc \in {"draft", "journaling", "writing"} /\ ~flow[f].failed
         => mgr.snapshot = flow[f].displayed

EditorInv == NamesInv /\ unverified \in BOOLEAN /\ \A f \in Flows : EditorFits(f)

-----------------------------------------------------------------------------
(* Operators.                                                              *)

\* A nonempty set of outputs has a highest one.
LEMMA MaxIsMember ==
  ASSUME NEW n \in Nat, NEW S, S \subseteq 1 .. n, S # {}
  PROVE  Max(S) \in S /\ \A y \in S : y <= Max(S)
<1> DEFINE R == OpToRel(<, Nat)
           T == {n - x : x \in S}
<1>1. \A x, y \in Nat : x < y => <<x, y>> \in R
  BY DEF OpToRel
<1>2. T \subseteq Nat /\ T # {}
  <2>1. \A x \in S : x \in 1 .. n /\ n - x \in Nat
    OBVIOUS
  <2> QED
    BY <2>1
<1>3. IsWellFoundedOn(R, Nat)
  BY NatLessThanWellFounded
<1> HIDE DEF R
<1>4. PICK m \in T : \A y \in T : ~ (<<y, m>> \in R)
  BY <1>2, <1>3, WFMin
<1>5. \A y \in T : m <= y
  <2> TAKE y \in T
  <2>1. y \in Nat /\ m \in Nat
    BY <1>2
  <2>2. ~ (y < m)
    BY <1>1, <1>4, <2>1
  <2> QED
    BY <2>1, <2>2
<1>6. PICK x \in S : m = n - x
  OBVIOUS
<1>7. \A y \in S : x >= y
  <2> TAKE y \in S
  <2>1. n - y \in T
    OBVIOUS
  <2>2. n - x <= n - y
    BY <1>5, <1>6, <2>1
  <2> QED
    BY <2>2
<1> QED
  BY <1>7 DEF Max

LEMMA MaxOfTwo ==
  ASSUME NEW a \in Nat \ {0}, NEW b \in Nat \ {0}
  PROVE  Max({a, b}) \in {a, b} /\ Max({a, b}) >= a /\ Max({a, b}) >= b
<1>1. {a, b} \subseteq 1 .. a + b
  OBVIOUS
<1>2. \A y \in {a, b} : y <= Max({a, b})
  BY <1>1, MaxIsMember
<1> QED
  BY <1>1, <1>2, MaxIsMember

LEMMA StationCountRange ==
  ASSUME NEW names PROVE StationCount(names) \in Outputs
<1>1. Named(names) \subseteq 1 .. Slots
  BY DEF Named, Outputs
<1>2. Slots \in Outputs
  BY NamesAssumption DEF Outputs
<1> QED
  BY <1>1, <1>2, MaxIsMember, NamesAssumption DEF StationCount, Outputs

\* A read never lowers what the client knows, and teaches it at least the
\* highest named output.
LEMMA CountedFacts ==
  ASSUME NEW names, NEW count \in Widths
  PROVE  /\ Counted(count, names) \in Widths /\ Counted(count, names) >= count
         /\ Named(names) # {} => Counted(count, names) >= StationCount(names)
<1> DEFINE n == IF Named(names) = {} THEN Configured ELSE StationCount(names)
<1>1. n \in Nat \ {0} /\ n <= Slots /\ count \in Nat \ {0}
  BY StationCountRange, NamesAssumption DEF Outputs, Widths
<1>2. Counted(count, names) = Max({count, n})
  BY DEF Counted
<1> HIDE DEF n
<1>3. /\ Counted(count, names) \in {count, n}
      /\ Counted(count, names) >= count /\ Counted(count, names) >= n
  BY <1>1, <1>2, MaxOfTwo
<1>4. Counted(count, names) \in Widths
  BY <1>1, <1>3, NamesAssumption DEF Widths
<1>5. Named(names) # {} => n = StationCount(names)
  BY DEF n
<1> QED
  BY <1>3, <1>4, <1>5

LEMMA AdoptedFacts ==
  ASSUME NEW width \in Widths, NEW count \in Outputs
  PROVE  /\ Adopted(width, count) \in Widths /\ Adopted(width, count) >= width
         /\ Adopted(width, count) \in {width, count}
BY NamesAssumption DEF Adopted, Widths, Outputs

LEMMA WidthsAreOutputs == Widths \subseteq Outputs
BY NamesAssumption DEF Widths, Outputs

\* A set of shown names: a function on some outputs.
LEMMA ShowsDef ==
  ASSUME NEW x
  PROVE  x \in Shows <=> /\ x = [s \in DOMAIN x |-> x[s]] /\ DOMAIN x \subseteq Outputs
                         /\ \A s \in DOMAIN x : x[s] \in Values
BY DEF Shows

\* Reading names shows those of all stations there are, and keeps the others.
LEMMA ShownFacts ==
  ASSUME NEW shown \in Shows, NEW names \in NameMaps, NEW width \in Widths
  PROVE  /\ Shown(shown, names, width) \in Shows
         /\ DOMAIN Shown(shown, names, width) = 1 .. width \cup DOMAIN shown
         /\ \A s \in 1 .. width : Shown(shown, names, width)[s] = names[s]
         /\ \A s \in DOMAIN shown : s > width => Shown(shown, names, width)[s] = shown[s]
<1> DEFINE x == Shown(shown, names, width)
<1>1. DOMAIN shown \subseteq Outputs /\ \A s \in DOMAIN shown : shown[s] \in Values
  BY ShowsDef
<1>2. 1 .. width \subseteq Outputs
  BY NamesAssumption DEF Widths, Outputs
<1>3. \A s \in Outputs : names[s] \in Values
  BY DEF NameMaps, Values
<1>4. /\ x = [s \in DOMAIN x |-> x[s]] /\ DOMAIN x = 1 .. width \cup DOMAIN shown
      /\ \A s \in DOMAIN x : x[s] = IF s <= width THEN names[s] ELSE shown[s]
  BY DEF Shown
<1>5. \A s \in DOMAIN x : s <= width \/ s \in DOMAIN shown
  BY <1>1, <1>4, NamesAssumption DEF Widths, Outputs
<1>6. x \in Shows
  BY <1>1, <1>2, <1>3, <1>4, <1>5, ShowsDef
<1>7. \A s \in 1 .. width : x[s] = names[s]
  BY <1>4, NamesAssumption DEF Widths, Outputs
<1>8. \A s \in DOMAIN shown : s > width => x[s] = shown[s]
  BY <1>1, <1>4, NamesAssumption DEF Widths, Outputs
<1> QED
  BY <1>4, <1>6, <1>7, <1>8

-----------------------------------------------------------------------------
(* What is shown: the ways in which the coordinator's part changes.        *)

LEMMA ShownKept ==
  ASSUME ShownInv, co' \in CoType, co'.shown = co.shown, co'.width >= co.width,
         co'.width <= co'.count \/ blind', blind' \in BOOLEAN,
         UNCHANGED <<cache, promised>>
  PROVE  ShownInv'
<1>1. \A s \in DOMAIN co.shown : s \in Outputs
  BY ShowsDef DEF ShownInv, CoType
<1>2. WidthIsProven'
  BY <1>1, NamesAssumption DEF ShownInv, CoType, WidthIsProven, Widths, Outputs
<1> QED
  BY <1>2 DEF ShownInv, NoResurrection

LEMMA ShownRead ==
  ASSUME ShownInv, NEW names \in NameMaps, co' \in CoType, co'.width >= co.width,
         co'.shown = Shown(co.shown, names, co'.width),
         co'.width <= co'.count \/ blind', blind' \in BOOLEAN,
         promised' = StillPromised(names), UNCHANGED cache
  PROVE  /\ ShownInv'
         /\ DOMAIN co.shown \subseteq DOMAIN co'.shown
         /\ 1 .. Configured \subseteq DOMAIN co'.shown
<1>1. co.shown \in Shows /\ co'.width \in Widths /\ co.width \in Widths
  BY DEF ShownInv, CoType
<1>2. /\ DOMAIN co'.shown = 1 .. co'.width \cup DOMAIN co.shown
      /\ \A s \in 1 .. co'.width : co'.shown[s] = names[s]
      /\ \A s \in DOMAIN co.shown : s > co'.width => co'.shown[s] = co.shown[s]
  <2> DEFINE shown == co.shown
             width == co'.width
  <2> HIDE DEF shown, width
  <2>1. shown \in Shows /\ width \in Widths /\ co'.shown = Shown(shown, names, width)
    BY <1>1 DEF shown, width
  <2>2. /\ DOMAIN co'.shown = 1 .. width \cup DOMAIN shown
        /\ \A s \in 1 .. width : co'.shown[s] = names[s]
        /\ \A s \in DOMAIN shown : s > width => co'.shown[s] = shown[s]
    BY <2>1, ShownFacts
  <2> QED
    BY <2>2 DEF shown, width
<1>3. \A s \in DOMAIN co.shown : s \in Outputs
  BY <1>1, ShowsDef
<1>4. WidthIsProven'
  BY <1>1, <1>2, <1>3, NamesAssumption DEF ShownInv, WidthIsProven, Widths, Outputs
<1>5. 1 .. Configured \subseteq 1 .. co'.width
  BY <1>1, NamesAssumption DEF Widths, Outputs
<1>6. /\ promised' \in [Outputs -> Names \cup {None}]
      /\ \A s \in Outputs : promised'[s] # None => promised'[s] = promised[s] /\ promised[s] = names[s]
  BY DEF StillPromised, ShownInv
<1>7. \A s \in 1 .. Configured : s \in Outputs
  BY NamesAssumption DEF Outputs
<1> QED
  BY <1>2, <1>4, <1>5, <1>6, <1>7 DEF ShownInv, NoResurrection

LEMMA ShownSaved ==
  ASSUME ShownInv, cache' = co.shown, UNCHANGED <<co, blind>>,
         promised' \in [Outputs -> Names \cup {None}],
         \A s \in 1 .. Configured : \/ promised'[s] \in {promised[s], None}
                                    \/ s \in DOMAIN co.shown /\ promised'[s] = co.shown[s]
  PROVE  ShownInv'
BY DEF ShownInv, WidthIsProven, NoResurrection, CoType

LEMMA ShownRestored ==
  ASSUME ShownInv, Restart PROVE ShownInv'
<1> DEFINE kept == (1 .. Configured) \cap DOMAIN cache
<1>1. cache \in Shows /\ cache' = cache /\ promised' = promised /\ blind' = FALSE
  BY DEF Restart, ShownInv
<1>2. co' = [shown |-> [s \in kept |-> cache[s]], width |-> Configured,
             restored |-> DOMAIN cache # {}, count |-> Configured]
  BY DEF Restart, Restored, Restrict
<1>3. co'.shown = [s \in kept |-> cache[s]] /\ co'.width = Configured /\ co'.count = Configured
  BY <1>2
<1>4. co'.shown \in Shows
  BY <1>1, <1>3, ShowsDef
<1>5. co' \in CoType
  BY <1>2, <1>3, <1>4, NamesAssumption DEF CoType, Widths
<1>6. WidthIsProven'
  BY <1>3, NamesAssumption DEF WidthIsProven, Outputs
<1> QED
  BY <1>1, <1>3, <1>5, <1>6 DEF ShownInv, NoResurrection

LEMMA InitNames == Init => EditorInv
<1> SUFFICES ASSUME Init PROVE EditorInv
  OBVIOUS
<1>1. 1 \in Outputs
  BY NamesAssumption DEF Outputs
<1>2. EmptyFlow \in FlowType
  BY <1>1 DEF EmptyFlow, FlowType, Steps
<1>3. flow \in [Flows -> FlowType] /\ \A f \in Flows : flow[f].pc = "idle"
  BY <1>2 DEF Init, EmptyFlow
<1>4. FlowInv
  BY <1>3 DEF Init, FlowInv, FlowFits, Locking
<1>5. StoreInv
  BY NamesAssumption DEF Init, StoreInv, MgrType, NameMaps, Outputs
<1>6. <<>> \in Shows
  BY DEF Shows
<1>7. ShownInv
  <2>1. co \in CoType
    BY <1>6, NamesAssumption DEF Init, CoType, Widths
  <2>2. DOMAIN co.shown = {} /\ co.width = Configured /\ co.count = Configured
    BY DEF Init
  <2>3. \A s \in Outputs : promised[s] = None
    BY DEF Init
  <2>4. WidthIsProven
    BY <2>2, NamesAssumption DEF WidthIsProven, Outputs
  <2>5. promised \in [Outputs -> Names \cup {None}] /\ blind \in BOOLEAN /\ cache \in Shows
    BY <1>6 DEF Init
  <2>6. 1 .. Configured \subseteq Outputs
    BY NamesAssumption DEF Outputs
  <2> QED
    BY <2>1, <2>3, <2>4, <2>5, <2>6 DEF ShownInv, NoResurrection
<1> QED
  BY <1>3, <1>4, <1>5, <1>7 DEF EditorInv, NamesInv, EditorFits, Init

-----------------------------------------------------------------------------
(* The flows.                                                              *)

\* One flow moves; what the others rely on stays.
LEMMA FlowFrame ==
  ASSUME FlowInv, NEW f \in Flows,
         flow' = [flow EXCEPT ![f] = flow'[f]], flow'[f] \in FlowType, FlowFits(f)',
         mgr.snapshot # None => mgr'.snapshot # None,
         lock' \in Flows \cup {"metadata", None},
         lock' # lock => lock \in {f, "metadata", None},
         DOMAIN co.shown \subseteq DOMAIN co'.shown
  PROVE  FlowInv'
<1>1. flow' \in [Flows -> FlowType]
  BY DEF FlowInv
<1>2. ASSUME NEW g \in Flows, g # f PROVE FlowFits(g)'
  <2>1. flow'[g] = flow[g] /\ (lock # lock' => lock # g) /\ FlowFits(g)
    BY <1>2, NamesAssumption DEF FlowInv
  <2> QED
    BY <2>1 DEF FlowFits
<1> QED
  BY <1>1, <1>2 DEF FlowInv

\* A flow moves to another step, or changes more of what it carries.
Moves(f) == flow' = [flow EXCEPT ![f] = flow'[f]] /\ flow'[f] \in FlowType

LEMMA MovesTo ==
  ASSUME FlowInv, NEW f \in Flows, NEW r \in FlowType, flow' = [flow EXCEPT ![f] = r]
  PROVE  Moves(f) /\ flow'[f] = r
BY DEF Moves, FlowInv

LEMMA GotoShape ==
  ASSUME FlowInv, NEW f \in Flows, NEW pc \in Steps, Goto(f, pc)
  PROVE  /\ Moves(f) /\ flow'[f].pc = pc
         /\ flow'[f].station = flow[f].station /\ flow'[f].name = flow[f].name
         /\ flow'[f].failed = flow[f].failed /\ flow'[f].revision = flow[f].revision
         /\ flow'[f].displayed = flow[f].displayed /\ flow'[f].entry = flow[f].entry
<1> DEFINE r == [flow[f] EXCEPT !.pc = pc]
<1>1. flow[f] \in FlowType
  BY DEF FlowInv
<1>2. flow' = [flow EXCEPT ![f] = r]
  BY DEF Goto, FlowInv
<1>3. r \in FlowType
  BY Zenon, <1>1 DEF FlowType
<1>4. /\ r.pc = pc /\ r.station = flow[f].station /\ r.name = flow[f].name
      /\ r.failed = flow[f].failed /\ r.revision = flow[f].revision
      /\ r.displayed = flow[f].displayed /\ r.entry = flow[f].entry
  BY <1>1 DEF FlowType
<1> HIDE DEF r
<1> QED
  BY <1>2, <1>3, <1>4, MovesTo

LEMMA FormAgainShape ==
  ASSUME FlowInv, NEW f \in Flows, FormAgain(f)
  PROVE  Moves(f) /\ flow'[f].pc = "draft" /\ flow'[f].failed = TRUE
<1> DEFINE r == [flow[f] EXCEPT !.pc = "draft", !.failed = TRUE, !.entry = None,
                                !.revision = None, !.name = None]
<1>1. flow[f] \in FlowType /\ "draft" \in Steps
  BY DEF FlowInv, Steps
<1>2. flow' = [flow EXCEPT ![f] = r]
  BY <1>1 DEF FormAgain, FlowInv
<1>3. r \in FlowType
  BY Zenon, <1>1 DEF FlowType
<1>4. r.pc = "draft" /\ r.failed = TRUE
  BY <1>1 DEF FlowType
<1> HIDE DEF r
<1> QED
  BY <1>2, <1>3, <1>4, MovesTo

LEMMA EmptyShape ==
  ASSUME FlowInv, NEW f \in Flows, flow' = [flow EXCEPT ![f] = EmptyFlow]
  PROVE  Moves(f) /\ flow'[f].pc = "idle" /\ flow'[f].failed = FALSE
<1>1. 1 \in Outputs
  BY NamesAssumption DEF Outputs
<1>2. EmptyFlow \in FlowType
  BY <1>1 DEF EmptyFlow, FlowType, Steps
<1>3. EmptyFlow.pc = "idle" /\ EmptyFlow.failed = FALSE
  BY DEF EmptyFlow
<1> QED
  BY <1>2, <1>3, MovesTo

LEMMA OpenShape ==
  ASSUME FlowInv, NEW f \in Flows, Open(f)
  PROVE  Moves(f) /\ flow'[f].pc = "opening"
<1> DEFINE r == [flow[f] EXCEPT !.pc = "opening", !.tries = 1]
<1>1. flow[f] \in FlowType /\ "opening" \in Steps /\ 1 \in 0 .. 2
  BY DEF FlowInv, Steps
<1>2. flow' = [flow EXCEPT ![f] = r]
  BY <1>1 DEF Open, FlowInv
<1>3. r \in FlowType
  BY Zenon, <1>1 DEF FlowType
<1>4. r.pc = "opening"
  BY <1>1 DEF FlowType
<1> HIDE DEF r
<1> QED
  BY <1>2, <1>3, <1>4, MovesTo

LEMMA RetryShape ==
  ASSUME FlowInv, NEW f \in Flows, ReadOpensFails(f)
  PROVE  Moves(f) /\ flow'[f].pc = "opening"
<1> DEFINE r == [flow[f] EXCEPT !.tries = 2]
<1>1. flow[f] \in FlowType /\ 2 \in 0 .. 2
  BY DEF FlowInv
<1>2. flow' = [flow EXCEPT ![f] = r]
  BY <1>1 DEF ReadOpensFails, FlowInv
<1>3. r \in FlowType
  BY Zenon, <1>1 DEF FlowType
<1>4. r.pc = "opening"
  BY <1>1 DEF FlowType, ReadOpensFails
<1> HIDE DEF r
<1> QED
  BY <1>2, <1>3, <1>4, MovesTo

\* The journal a read settles is kept for the case that it cannot be saved.
LEMMA SettlingShape ==
  ASSUME FlowInv, NEW f \in Flows, NEW e \in Entries \cup {None},
         flow' = [flow EXCEPT ![f].pc = "settling", ![f].entry = e]
  PROVE  Moves(f) /\ flow'[f].pc = "settling"
<1> DEFINE r == [flow[f] EXCEPT !.pc = "settling", !.entry = e]
<1>1. flow[f] \in FlowType /\ "settling" \in Steps
  BY DEF FlowInv, Steps
<1>2. flow' = [flow EXCEPT ![f] = r]
  BY <1>1 DEF FlowInv
<1>3. r \in FlowType
  BY Zenon, <1>1 DEF FlowType
<1>4. r.pc = "settling"
  BY <1>1 DEF FlowType
<1> HIDE DEF r
<1> QED
  BY <1>2, <1>3, <1>4, MovesTo

LEMMA AfterRefreshShape ==
  ASSUME FlowInv, NEW f \in Flows, NEW names \in NameMaps, NEW count,
         AfterRefresh(f, names, count)
  PROVE  /\ Moves(f) /\ flow'[f].pc \in {"draft", "select"}
         /\ flow'[f].pc = "draft" => flow'[f].displayed = names
<1>1. flow[f] \in FlowType /\ {"draft", "select"} \subseteq Steps /\ 0 \in 0 .. 2
  BY DEF FlowInv, Steps
<1>2. CASE flow[f].accept
  <2> DEFINE r == [flow[f] EXCEPT !.pc = "draft", !.accept = FALSE, !.tries = 0,
                                  !.entry = None, !.displayed = names]
  <2>1. flow' = [flow EXCEPT ![f] = r]
    BY <1>1, <1>2 DEF AfterRefresh, FlowInv
  <2>2. r \in FlowType
    BY Zenon, <1>1 DEF FlowType
  <2>3. r.pc = "draft" /\ r.displayed = names
    BY <1>1 DEF FlowType
  <2> HIDE DEF r
  <2> QED
    BY <2>1, <2>2, <2>3, MovesTo
<1>3. CASE ~flow[f].accept
  <2> DEFINE r == [flow[f] EXCEPT !.pc = "select", !.tries = 0, !.entry = None]
  <2>1. flow' = [flow EXCEPT ![f] = r]
    BY <1>1, <1>3 DEF AfterRefresh, FlowInv
  <2>2. r \in FlowType
    BY Zenon, <1>1 DEF FlowType
  <2>3. r.pc = "select"
    BY <1>1 DEF FlowType
  <2> HIDE DEF r
  <2> QED
    BY <2>1, <2>2, <2>3, MovesTo
<1> QED
  BY <1>2, <1>3

LEMMA ChooseShape ==
  ASSUME NamesInv, NEW f \in Flows, NEW s \in Outputs, NEW accept \in BOOLEAN,
         Choose(f, s, accept)
  PROVE  /\ Moves(f) /\ flow'[f].pc \in {"draft", "opening"}
         /\ flow'[f].pc = "draft" => flow'[f].displayed = mgr.snapshot
<1>1. /\ FlowInv /\ flow[f] \in FlowType /\ {"draft", "opening"} \subseteq Steps
      /\ mgr.snapshot \in NameMaps \cup {None} /\ {1, s} \subseteq Outputs /\ 1 \in 0 .. 2
  BY NamesAssumption DEF NamesInv, StoreInv, FlowInv, MgrType, Steps, Outputs
<1>2. CASE mgr.pending = None
  <2> DEFINE r == [flow[f] EXCEPT !.pc = "draft", !.station = s, !.displayed = mgr.snapshot]
  <2>1. flow' = [flow EXCEPT ![f] = r]
    BY <1>1, <1>2 DEF Choose, FlowInv
  <2>2. r \in FlowType
    BY Zenon, <1>1 DEF FlowType
  <2>3. r.pc = "draft" /\ r.displayed = mgr.snapshot
    BY <1>1 DEF FlowType
  <2> HIDE DEF r
  <2> QED
    BY <1>1, <2>1, <2>2, <2>3, MovesTo
<1>3. CASE mgr.pending # None
  <2> DEFINE at == IF accept THEN s ELSE 1
             r == [flow[f] EXCEPT !.pc = "opening", !.tries = 1, !.accept = accept,
                                  !.station = at]
  <2>1. at \in Outputs
    BY <1>1
  <2>2. flow' = [flow EXCEPT ![f] = r]
    BY <1>1, <1>3 DEF Choose, FlowInv
  <2> HIDE DEF at
  <2>3. r \in FlowType
    BY Zenon, <1>1, <2>1 DEF FlowType
  <2>4. r.pc = "opening"
    BY <1>1 DEF FlowType
  <2> HIDE DEF r
  <2> QED
    BY <1>1, <2>2, <2>3, <2>4, MovesTo
<1> QED
  BY <1>2, <1>3

LEMMA SubmitShape ==
  ASSUME NamesInv, NEW f \in Flows, NEW n \in Names, Submit(f, n)
  PROVE  /\ Moves(f) /\ flow'[f].pc = "waiting" /\ flow'[f].name = n
         /\ flow'[f].revision = mgr.snapshot /\ flow'[f].failed = flow[f].failed
         /\ flow'[f].displayed = flow[f].displayed
<1>1. /\ FlowInv /\ flow[f] \in FlowType /\ "waiting" \in Steps
      /\ mgr.snapshot \in NameMaps \cup {None}
  BY DEF NamesInv, StoreInv, FlowInv, MgrType, Steps
<1> DEFINE r == [flow[f] EXCEPT !.pc = "waiting", !.name = n, !.revision = mgr.snapshot]
<1>2. flow' = [flow EXCEPT ![f] = r]
  BY <1>1 DEF Submit, FlowInv
<1>3. r \in FlowType
  BY Zenon, <1>1 DEF FlowType
<1>4. /\ r.pc = "waiting" /\ r.name = n /\ r.revision = mgr.snapshot
      /\ r.failed = flow[f].failed /\ r.displayed = flow[f].displayed
  BY <1>1 DEF FlowType
<1> HIDE DEF r
<1> QED
  BY <1>1, <1>2, <1>3, <1>4, MovesTo

LEMMA JournalShape ==
  ASSUME NamesInv, NEW f \in Flows, JournalSaved(f)
  PROVE  /\ Moves(f) /\ flow'[f].pc = "writing"
         /\ flow'[f].station = flow[f].station /\ flow'[f].name = flow[f].name
         /\ flow'[f].failed = flow[f].failed /\ flow'[f].displayed = flow[f].displayed
<1>1. /\ FlowInv /\ flow[f] \in FlowType /\ "writing" \in Steps
      /\ mgr.pending \in Entries \cup {None}
  BY DEF NamesInv, StoreInv, FlowInv, MgrType, Steps
<1> DEFINE r == [flow[f] EXCEPT !.pc = "writing", !.entry = mgr.pending]
<1>2. flow' = [flow EXCEPT ![f] = r]
  BY <1>1 DEF JournalSaved, FlowInv
<1>3. r \in FlowType
  BY Zenon, <1>1 DEF FlowType
<1>4. /\ r.pc = "writing" /\ r.station = flow[f].station /\ r.name = flow[f].name
      /\ r.failed = flow[f].failed /\ r.displayed = flow[f].displayed
  BY <1>1 DEF FlowType
<1> HIDE DEF r
<1> QED
  BY <1>1, <1>2, <1>3, <1>4, MovesTo

-----------------------------------------------------------------------------
(* The types, the width and the promise are kept by every step.            *)

LEMMA NamesFacts ==
  ASSUME NamesInv, NEW f \in Flows
  PROVE  /\ flow[f] \in FlowType /\ FlowFits(f) /\ FlowInv /\ ShownInv /\ StoreInv
         /\ ctl \in NameMaps /\ mgr \in MgrType /\ co \in CoType
         /\ mgr.snapshot \in NameMaps \cup {None} /\ mgr.pending \in Entries \cup {None}
         /\ flow[f].station \in Outputs /\ flow[f].entry \in Entries \cup {None}
         /\ co.shown \in Shows /\ co.width \in Widths /\ co.count \in Widths
         /\ lock \in Flows \cup {"metadata", None}
         /\ None \notin NameMaps /\ None \notin Entries
BY NamesAssumption DEF NamesInv, StoreInv, FlowInv, ShownInv, FlowType, MgrType, CoType

\* What is shown stays when nothing of it changes.
LEMMA ShownStays ==
  ASSUME ShownInv, UNCHANGED <<co, cache, promised, blind>> PROVE ShownInv'
BY DEF ShownInv, WidthIsProven, NoResurrection

\* Whatever becomes of the frames, the controller holds names.
LEMMA HalvesTyped ==
  ASSUME NamesInv, NEW f \in Flows, flow[f].name \in Names
  PROVE  FirstHalf(f) \subseteq NameMaps /\ SecondHalf(f) \subseteq NameMaps
BY NamesFacts DEF FirstHalf, SecondHalf, NameMaps

\* The steps that leave the manager and the coordinator alone.
LEMMA NamesMoves ==
  ASSUME NamesInv, NEW f \in Flows,
         \/ Open(f) \/ ReadOpensFails(f) \/ Aborts(f) \/ Close(f)
         \/ \E s \in Outputs, accept \in BOOLEAN : Choose(f, s, accept)
         \/ \E n \in Names : Submit(f, n)
         \/ TakeLock(f) \/ CheckFails(f) \/ JournalSaved(f) \/ JournalFails(f)
         \/ SendFirst(f) \/ SendSecond(f) \/ CacheFails(f)
  PROVE  NamesInv'
<1>1. UNCHANGED <<mgr, co, cache, promised, blind>>
  BY DEF Open, ReadOpensFails, Aborts, Close, Choose, Submit, TakeLock, CheckFails,
     JournalSaved, JournalFails, SendFirst, SendSecond, CacheFails
<1>2. ShownInv'
  BY <1>1, NamesFacts, ShownStays
<1>3. /\ Moves(f) /\ FlowFits(f)'
      /\ lock' \in Flows \cup {"metadata", None}
      /\ lock' # lock => lock \in {f, "metadata", None}
  <2>1. CASE Open(f) \/ ReadOpensFails(f)
    <3>1. Moves(f) /\ flow'[f].pc = "opening" /\ lock' = lock
      BY <2>1, NamesFacts, OpenShape, RetryShape DEF Open, ReadOpensFails
    <3> QED
      BY <3>1, NamesFacts DEF FlowFits, Locking
  <2>2. CASE Aborts(f) \/ Close(f)
    <3>1. Moves(f) /\ flow'[f].pc = "idle" /\ lock' = lock
      BY <2>2, NamesFacts, EmptyShape DEF Aborts, Close
    <3> QED
      BY <3>1, NamesFacts DEF FlowFits, Locking
  <2>3. CASE \E s \in Outputs, accept \in BOOLEAN : Choose(f, s, accept)
    <3>1. Moves(f) /\ flow'[f].pc \in {"draft", "opening"}
      BY <2>3, ChooseShape
    <3>2. lock' = lock /\ mgr.snapshot # None
      BY <2>3, NamesFacts DEF Choose, FlowFits
    <3> QED
      BY <1>1, <3>1, <3>2, NamesFacts DEF FlowFits, Locking
  <2>4. CASE \E n \in Names : Submit(f, n)
    <3>1. Moves(f) /\ flow'[f].pc = "waiting" /\ flow'[f].name \in Names
      BY <2>4, SubmitShape
    <3>2. lock' = lock /\ mgr.snapshot # None
      BY <2>4, NamesFacts DEF Submit, FlowFits
    <3> QED
      BY <1>1, <3>1, <3>2, NamesFacts DEF FlowFits, Locking
  <2>5. CASE TakeLock(f)
    <3>1. mgr.snapshot # None /\ flow[f].name \in Names /\ lock = None
      BY <2>5, NamesFacts DEF TakeLock, FlowFits, Locking
    <3>2. CASE flow[f].station > Configured \/ mgr.pending # None
      <4>1. Moves(f) /\ flow'[f].pc = "draft" /\ lock' = lock
        BY <2>5, <3>2, NamesFacts, FormAgainShape DEF TakeLock
      <4> QED
        BY <1>1, <3>1, <4>1, NamesFacts DEF FlowFits, Locking
    <3>3. CASE ~(flow[f].station > Configured \/ mgr.pending # None)
      <4>1. Goto(f, "checking") /\ lock' = f /\ "checking" \in Steps
        BY <2>5, <3>3 DEF TakeLock, Steps
      <4>2. /\ Moves(f) /\ flow'[f].pc = "checking" /\ flow'[f].name \in Names
            /\ flow'[f].station = flow[f].station
        BY <3>1, <4>1, NamesFacts, GotoShape
      <4>3. flow[f].station <= Configured
        BY <3>3, NamesFacts, NamesAssumption DEF Outputs
      <4> QED
        BY <1>1, <3>1, <4>1, <4>2, <4>3 DEF FlowFits, Locking
    <3> QED
      BY <3>2, <3>3
  <2>6. CASE CheckFails(f) \/ JournalFails(f)
    <3>1. FormAgain(f) /\ lock' = None /\ mgr.snapshot # None /\ lock = f
      BY <2>6, NamesFacts DEF CheckFails, JournalFails, FlowFits, Locking
    <3>2. Moves(f) /\ flow'[f].pc = "draft"
      BY <3>1, NamesFacts, FormAgainShape
    <3> QED
      BY <1>1, <3>1, <3>2 DEF FlowFits, Locking
  <2>7. CASE CacheFails(f)
    <3>1. FormAgain(f) /\ lock' = lock /\ mgr.snapshot # None
      BY <2>7, NamesFacts DEF CacheFails, FlowFits
    <3>2. Moves(f) /\ flow'[f].pc = "draft"
      BY <3>1, NamesFacts, FormAgainShape
    <3> QED
      BY <1>1, <3>1, <3>2, NamesFacts DEF FlowFits, Locking
  <2>8. CASE JournalSaved(f)
    <3>1. flow[f].pc = "journaling" /\ lock' = lock
      BY <2>8 DEF JournalSaved
    <3>2. Moves(f) /\ flow'[f].pc = "writing" /\ flow'[f].name = flow[f].name
          /\ flow'[f].station = flow[f].station
      BY <2>8, JournalShape
    <3> QED
      BY <1>1, <3>1, <3>2, NamesFacts DEF FlowFits, Locking
  <2>9. CASE SendFirst(f) \/ SendSecond(f)
    <3>1. PICK pc \in {"second", "verify"} : Goto(f, pc)
      BY <2>9 DEF SendFirst, SendSecond
    <3>2. flow[f].pc \in Locking /\ flow[f].pc # "publishing" /\ lock' = lock /\ pc \in Steps
      BY <2>9 DEF SendFirst, SendSecond, Locking, Steps
    <3>3. Moves(f) /\ flow'[f].pc = pc /\ flow'[f].name = flow[f].name
          /\ flow'[f].station = flow[f].station
      BY <3>1, <3>2, NamesFacts, GotoShape
    <3> QED
      BY <1>1, <3>2, <3>3, NamesFacts DEF FlowFits, Locking
  <2> QED
    BY <2>1, <2>2, <2>3, <2>4, <2>5, <2>6, <2>7, <2>8, <2>9
<1>4. FlowInv'
  BY <1>1, <1>3, NamesFacts, FlowFrame DEF Moves
<1>5. StoreInv'
  <2>1. CASE SendFirst(f) \/ SendSecond(f)
    <3>1. flow[f].name \in Names
      BY <2>1, NamesFacts DEF SendFirst, SendSecond, FlowFits, Locking
    <3>2. ctl' \in NameMaps /\ disk' = disk
      BY <2>1, <3>1, HalvesTyped DEF SendFirst, SendSecond
    <3> QED
      BY <1>1, <3>2, NamesFacts DEF StoreInv
  <2>2. CASE JournalSaved(f)
    BY <2>2, NamesFacts DEF JournalSaved, StoreInv
  <2>3. CASE ~(SendFirst(f) \/ SendSecond(f) \/ JournalSaved(f))
    <3>1. UNCHANGED <<ctl, disk>>
      BY <2>3 DEF Open, ReadOpensFails, Aborts, Close, Choose, Submit, TakeLock, CheckFails,
         JournalFails, CacheFails
    <3> QED
      BY <1>1, <3>1, NamesFacts DEF StoreInv
  <2> QED
    BY <2>1, <2>2, <2>3
<1> QED
  BY <1>2, <1>4, <1>5 DEF NamesInv

\* A read raises what the client knows, and may raise the width with it.
LEMMA CoLearns ==
  ASSUME ShownInv, NEW count \in Widths, count >= co.count,
         \/ co' = [co EXCEPT !.count = count]
         \/ co' = [co EXCEPT !.count = count, !.width = Adopted(@, count)],
         UNCHANGED <<cache, promised>>, blind' \in BOOLEAN, blind => blind'
  PROVE  ShownInv' /\ co'.shown = co.shown
<1>1. /\ co \in CoType /\ co.width \in Widths /\ co.count \in Widths /\ co.shown \in Shows
      /\ co.width <= co.count \/ blind
  BY DEF ShownInv, CoType, WidthIsProven
<1> DEFINE w == Adopted(co.width, count)
<1>2. w \in Widths /\ w >= co.width /\ w \in {co.width, count}
  BY <1>1, AdoptedFacts, WidthsAreOutputs
<1>3. CASE co' = [co EXCEPT !.count = count]
  <2>1. co' \in CoType
    BY <1>1, <1>3 DEF CoType
  <2>2. co'.shown = co.shown /\ co'.width = co.width /\ co'.count = count
    BY <1>1, <1>3 DEF CoType
  <2>3. co'.width >= co.width /\ (co'.width <= co'.count \/ blind')
    BY <1>1, <2>2, NamesAssumption DEF Widths, Outputs
  <2> QED
    BY <2>1, <2>2, <2>3, ShownKept
<1>4. CASE co' = [co EXCEPT !.count = count, !.width = Adopted(@, count)]
  <2>0. co' = [co EXCEPT !.count = count, !.width = w]
    BY <1>1, <1>4 DEF CoType
  <2> HIDE DEF w
  <2>1. co' \in CoType
    BY Zenon, <1>1, <1>2, <2>0 DEF CoType
  <2>2. co'.shown = co.shown /\ co'.width = w /\ co'.count = count
    BY <1>1, <2>0 DEF CoType
  <2>3. co'.width >= co.width /\ (co'.width <= co'.count \/ blind')
    BY <1>1, <1>2, <2>2, NamesAssumption DEF Widths, Outputs
  <2> QED
    BY <2>1, <2>2, <2>3, ShownKept
<1> QED
  BY <1>3, <1>4

\* rename_station shows the names it got and releases the lock.
LEMMA Publishes ==
  ASSUME NamesInv, NEW f \in Flows, flow[f].pc \in Locking, NEW names \in NameMaps,
         NEW count \in Widths, count >= co.count, Publish(f, names, count),
         UNCHANGED cache, blind' \in BOOLEAN, blind => blind', mgr'.snapshot # None
  PROVE  ShownInv' /\ FlowInv'
<1>1. /\ ShownInv /\ FlowInv /\ co \in CoType /\ co.width \in Widths /\ co.count \in Widths
      /\ co.shown \in Shows /\ (co.width <= co.count \/ blind)
  BY NamesFacts DEF ShownInv, WidthIsProven
<1> DEFINE w == Adopted(co.width, count)
           x == Shown(co.shown, names, w)
<1>2. w \in Widths /\ w >= co.width /\ w \in {co.width, count}
  BY <1>1, AdoptedFacts, WidthsAreOutputs
<1> HIDE DEF w
<1>3. x \in Shows
  <2>1. co.shown \in Shows /\ w \in Widths
    BY <1>1, <1>2
  <2> QED
    BY Zenon, <2>1, ShownFacts
<1>4. co' = [co EXCEPT !.count = count, !.width = w, !.shown = x]
  <2> DEFINE mid == [co EXCEPT !.count = count]
             wide == [mid EXCEPT !.width = w]
  <2>1. mid.width = co.width /\ mid.shown = co.shown /\ wide.shown = co.shown
    BY <1>1 DEF CoType
  <2>2. co' = [wide EXCEPT !.shown = x]
    BY <1>1, <2>1, Zenon DEF Publish, w
  <2> QED
    BY <2>2
<1> HIDE DEF x
<1>5. co' \in CoType
  BY Zenon, <1>1, <1>2, <1>3, <1>4 DEF CoType
<1>6. co'.count = count /\ co'.width = w /\ co'.shown = x
  BY <1>1, <1>4 DEF CoType
<1>7. co'.shown = Shown(co.shown, names, co'.width)
  BY <1>6, Zenon DEF x
<1>8. co'.width >= co.width /\ (co'.width <= co'.count \/ blind')
  BY <1>1, <1>2, <1>6, NamesAssumption DEF Widths, Outputs
<1>9. /\ ShownInv' /\ DOMAIN co.shown \subseteq DOMAIN co'.shown
      /\ 1 .. Configured \subseteq DOMAIN co'.shown
  <2>1. promised' = StillPromised(names)
    BY DEF Publish
  <2> QED
    BY <1>1, <1>5, <1>7, <1>8, <2>1, ShownRead
<1>10. /\ Moves(f) /\ flow'[f].pc = "publishing" /\ flow'[f].name = flow[f].name
       /\ flow'[f].station = flow[f].station
  <2>1. Goto(f, "publishing") /\ "publishing" \in Steps
    BY DEF Publish, Steps
  <2> QED
    BY <1>1, <2>1, GotoShape
<1>11. lock' = None /\ lock = f /\ FlowFits(f)
  BY NamesFacts DEF FlowFits, Publish
<1>12. FlowFits(f)'
  BY <1>9, <1>10, <1>11 DEF FlowFits, Locking
<1> QED
  BY <1>1, <1>9, <1>10, <1>11, <1>12, FlowFrame DEF Moves

LEMMA CountedHere ==
  ASSUME NamesInv, NEW names
  PROVE  Counted(co.count, names) \in Widths /\ Counted(co.count, names) >= co.count
BY CountedFacts DEF NamesInv, ShownInv, CoType

\* The flow fails and shows its form again.
LEMMA Fails ==
  ASSUME NamesInv, NEW f \in Flows, flow[f].pc \in Locking, FormAgain(f), lock' = None,
         mgr'.snapshot # None, DOMAIN co.shown \subseteq DOMAIN co'.shown
  PROVE  FlowInv'
<1>1. Moves(f) /\ flow'[f].pc = "draft"
  BY NamesFacts, FormAgainShape
<1>2. lock = f
  BY NamesFacts DEF FlowFits
<1>3. FlowFits(f)'
  BY <1>1 DEF FlowFits, Locking
<1> QED
  BY <1>1, <1>2, <1>3, NamesFacts, FlowFrame DEF Moves

\* The flow goes on under the lock.
LEMMA GoesOn ==
  ASSUME NamesInv, NEW f \in Flows, flow[f].pc \in Locking, NEW pc \in Locking, Goto(f, pc),
         UNCHANGED lock, mgr'.snapshot # None, DOMAIN co.shown \subseteq DOMAIN co'.shown
  PROVE  FlowInv'
<1>1. /\ Moves(f) /\ flow'[f].pc = pc /\ flow'[f].name = flow[f].name
      /\ flow'[f].station = flow[f].station
  <2>1. pc \in Steps
    BY DEF Locking, Steps
  <2> QED
    BY <2>1, NamesFacts, GotoShape
<1>2. FlowFits(f)'
  BY <1>1, NamesFacts DEF FlowFits, Locking
<1> QED
  BY <1>1, <1>2, NamesFacts, FlowFrame DEF Moves

LEMMA NamesReadOpens ==
  ASSUME NamesInv, NEW f \in Flows, ReadOpens(f) PROVE NamesInv'
<1> DEFINE count == Counted(co.count, ctl)
<1>1. count \in Widths /\ count >= co.count
  BY CountedHere
<1>2. UNCHANGED <<ctl, disk, cache, lock, promised>> /\ blind' = (blind \/ Named(ctl) = {})
  BY DEF ReadOpens
<1>3. blind' \in BOOLEAN /\ (blind => blind')
  BY <1>2, NamesFacts DEF ShownInv
<1> HIDE DEF count
<1>4. CASE Settled(mgr.pending, ctl, flow[f].accept)
  <2>1. /\ mgr' = [snapshot |-> ctl, pending |-> None]
        /\ co' = [co EXCEPT !.count = count]
        /\ flow' = [flow EXCEPT ![f].pc = "settling", ![f].entry = mgr.pending]
    BY <1>4 DEF ReadOpens, count
  <2>2. mgr' \in MgrType /\ mgr'.snapshot # None
    BY <2>1, NamesFacts DEF MgrType
  <2>3. ShownInv' /\ co'.shown = co.shown
    BY <1>1, <1>2, <1>3, <2>1, NamesFacts, CoLearns
  <2>4. Moves(f) /\ flow'[f].pc = "settling"
    BY <2>1, NamesFacts, SettlingShape
  <2>5. FlowFits(f)'
    BY <2>2, <2>4 DEF FlowFits, Locking
  <2>6. FlowInv'
    BY <1>2, <2>2, <2>3, <2>4, <2>5, NamesFacts, FlowFrame DEF Moves
  <2> QED
    BY <1>2, <2>2, <2>3, <2>6, NamesFacts DEF NamesInv, StoreInv
<1>5. CASE ~Settled(mgr.pending, ctl, flow[f].accept)
  <2>1. mgr' = [mgr EXCEPT !.snapshot = ctl] /\ AfterRefresh(f, ctl, count)
    BY <1>5 DEF ReadOpens, count
  <2>2. mgr' \in MgrType /\ mgr'.snapshot # None
    BY <2>1, NamesFacts DEF MgrType
  <2>3. ShownInv' /\ co'.shown = co.shown
    BY <1>1, <1>2, <1>3, <2>1, NamesFacts, CoLearns DEF AfterRefresh
  <2>4. Moves(f) /\ flow'[f].pc \in {"draft", "select"}
    BY <2>1, NamesFacts, AfterRefreshShape
  <2>5. FlowFits(f)'
    BY <2>2, <2>4 DEF FlowFits, Locking
  <2>6. FlowInv'
    BY <1>2, <2>2, <2>3, <2>4, <2>5, NamesFacts, FlowFrame DEF Moves
  <2> QED
    BY <1>2, <2>2, <2>3, <2>6, NamesFacts DEF NamesInv, StoreInv
<1> QED
  BY <1>4, <1>5

LEMMA NamesSettles ==
  ASSUME NamesInv, NEW f \in Flows, SettleSaved(f) \/ SettleFails(f) PROVE NamesInv'
<1>1. UNCHANGED <<ctl, cache, lock, promised, blind>>
  BY DEF SettleSaved, SettleFails
<1>2. mgr.snapshot # None /\ mgr.snapshot \in NameMaps
  BY NamesFacts DEF SettleSaved, SettleFails, FlowFits
<1>3. CASE SettleSaved(f)
  <2>1. AfterRefresh(f, mgr.snapshot, co.count) /\ disk' = mgr.pending /\ mgr' = mgr
    BY <1>3 DEF SettleSaved
  <2>2. co.count \in Widths /\ co.count >= co.count /\ blind \in BOOLEAN
    BY NamesFacts, NamesAssumption DEF Widths, Outputs, ShownInv
  <2>3. ShownInv' /\ co'.shown = co.shown
    BY <1>1, <2>1, <2>2, NamesFacts, CoLearns DEF AfterRefresh
  <2>4. Moves(f) /\ flow'[f].pc \in {"draft", "select"}
    BY <1>2, <2>1, NamesFacts, AfterRefreshShape
  <2>5. FlowFits(f)'
    BY <1>2, <2>1, <2>4 DEF FlowFits, Locking
  <2>6. FlowInv'
    BY <1>1, <2>1, <2>3, <2>4, <2>5, NamesFacts, FlowFrame DEF Moves
  <2> QED
    BY <1>1, <2>1, <2>3, <2>6, NamesFacts DEF NamesInv, StoreInv
<1>4. CASE SettleFails(f)
  <2>1. mgr' = [mgr EXCEPT !.pending = flow[f].entry] /\ UNCHANGED <<disk, co>>
    BY <1>4 DEF SettleFails
  <2>2. mgr' \in MgrType /\ mgr'.snapshot = mgr.snapshot
    BY <2>1, NamesFacts DEF MgrType
  <2>3. Moves(f) /\ flow'[f].pc = "idle"
    BY <1>4, NamesFacts, EmptyShape DEF SettleFails
  <2>4. FlowFits(f)'
    BY <2>3 DEF FlowFits, Locking
  <2>5. FlowInv'
    BY <1>1, <2>1, <2>2, <2>3, <2>4, NamesFacts, FlowFrame DEF Moves
  <2>6. ShownInv'
    BY <1>1, <2>1, NamesFacts, ShownStays
  <2> QED
    BY <1>1, <2>1, <2>2, <2>5, <2>6, NamesFacts DEF NamesInv, StoreInv
<1> QED
  BY <1>3, <1>4

LEMMA NamesReadBefore ==
  ASSUME NamesInv, NEW f \in Flows, ReadBefore(f) PROVE NamesInv'
<1> DEFINE count == Counted(co.count, ctl)
           station == flow[f].station
           expected == [ctl EXCEPT ![station] = flow[f].name]
           entry == [before |-> ctl, expected |-> expected]
<1>1. count \in Widths /\ count >= co.count
  BY CountedHere
<1>2. UNCHANGED <<ctl, disk, cache>> /\ blind' = (blind \/ Named(ctl) = {})
  BY DEF ReadBefore
<1>3. blind' \in BOOLEAN /\ (blind => blind')
  BY <1>2, NamesFacts DEF ShownInv
<1>4. flow[f].pc = "checking" /\ flow[f].pc \in Locking /\ flow[f].name \in Names
  BY NamesFacts DEF ReadBefore, FlowFits, Locking
<1>5. entry \in Entries
  <2>1. expected \in NameMaps
    BY <1>4, NamesFacts DEF NameMaps
  <2> HIDE DEF expected
  <2> QED
    BY <2>1, NamesFacts DEF Entries
<1> HIDE DEF count, entry
<1>6. CASE /\ ctl # flow[f].revision /\ mgr' = [mgr EXCEPT !.snapshot = ctl] /\ FormAgain(f)
           /\ lock' = None /\ co' = [co EXCEPT !.count = count] /\ UNCHANGED promised
  <2>1. mgr' \in MgrType /\ mgr'.snapshot # None
    BY <1>6, NamesFacts DEF MgrType
  <2>2. ShownInv' /\ co'.shown = co.shown
    BY <1>1, <1>2, <1>3, <1>6, NamesFacts, CoLearns
  <2>3. FlowInv'
    BY <1>4, <1>6, <2>1, <2>2, Fails
  <2> QED
    BY <1>2, <2>1, <2>2, <2>3, NamesFacts DEF NamesInv, StoreInv
<1>7. CASE mgr' = [mgr EXCEPT !.snapshot = ctl] /\ Publish(f, ctl, count)
  <2>1. mgr' \in MgrType /\ mgr'.snapshot # None
    BY <1>7, NamesFacts DEF MgrType
  <2>2. ShownInv' /\ FlowInv'
    BY <1>1, <1>2, <1>3, <1>4, <1>7, <2>1, NamesFacts, Publishes
  <2> QED
    BY <1>2, <2>1, <2>2, NamesFacts DEF NamesInv, StoreInv
<1>8. CASE /\ mgr' = [snapshot |-> ctl, pending |-> entry] /\ Goto(f, "journaling")
           /\ co' = [co EXCEPT !.count = count] /\ UNCHANGED <<lock, promised>>
  <2>1. mgr' \in MgrType /\ mgr'.snapshot # None
    BY <1>5, <1>8, NamesFacts DEF MgrType
  <2>2. ShownInv' /\ co'.shown = co.shown
    BY <1>1, <1>2, <1>3, <1>8, NamesFacts, CoLearns
  <2>3. "journaling" \in Locking
    BY DEF Locking
  <2>4. FlowInv'
    BY <1>4, <1>8, <2>1, <2>2, <2>3, GoesOn
  <2> QED
    BY <1>2, <2>1, <2>2, <2>4, NamesFacts DEF NamesInv, StoreInv
<1> QED
  BY <1>6, <1>7, <1>8 DEF ReadBefore, count, entry

LEMMA NamesWrites ==
  ASSUME NamesInv, NEW f \in Flows, Preflight(f) \/ Verify(f) \/ LoseWrite(f) \/ FinishFails(f)
  PROVE  NamesInv'
<1> DEFINE count == Counted(co.count, ctl)
<1>1. count \in Widths /\ count >= co.count
  BY CountedHere
<1>2. /\ flow[f].pc \in Locking /\ mgr.snapshot # None /\ flow[f].name \in Names
      /\ UNCHANGED <<disk, cache, promised>>
  BY NamesFacts DEF Preflight, Verify, LoseWrite, FinishFails, FlowFits, Locking
<1> HIDE DEF count
<1>3. ShownInv' /\ co'.shown = co.shown
  <2>1. CASE Preflight(f) \/ Verify(f)
    <3>1. co' = [co EXCEPT !.count = count]
      BY <2>1 DEF Preflight, Verify, count
    <3>2. CASE Preflight(f)
      <4>1. blind' = (blind \/ Named(ctl) = {})
        BY <3>2 DEF Preflight
      <4> QED
        BY <1>1, <1>2, <3>1, <4>1, NamesFacts, CoLearns DEF ShownInv
    <3>3. CASE Verify(f)
      <4>1. blind' = blind
        BY <3>3 DEF Verify
      <4> QED
        BY <1>1, <1>2, <3>1, <4>1, NamesFacts, CoLearns DEF ShownInv
    <3> QED
      BY <2>1, <3>2, <3>3
  <2>2. CASE LoseWrite(f) \/ FinishFails(f)
    <3>1. UNCHANGED <<co, cache, promised, blind>>
      BY <2>2 DEF LoseWrite, FinishFails
    <3> QED
      BY <3>1, NamesFacts, ShownStays
  <2> QED
    BY <2>1, <2>2
<1>4. mgr' \in MgrType /\ mgr'.snapshot # None
  <2>1. mgr' \in {mgr, [mgr EXCEPT !.pending = flow[f].entry], [snapshot |-> ctl, pending |-> None]}
    BY DEF Preflight, Verify, LoseWrite, FinishFails
  <2> QED
    BY <1>2, <2>1, NamesFacts DEF MgrType
<1>5. \/ FormAgain(f) /\ lock' = None
      \/ UNCHANGED lock /\ \E pc \in {"first", "finishing"} : Goto(f, pc)
  BY DEF Preflight, Verify, LoseWrite, FinishFails
<1>6. FlowInv'
  <2>1. {"first", "finishing"} \subseteq Locking
    BY DEF Locking
  <2> QED
    BY <1>2, <1>3, <1>4, <1>5, <2>1, Fails, GoesOn
<1>7. ctl' \in NameMaps
  <2>1. ctl' \in {ctl} \cup FirstHalf(f) \cup SecondHalf(f)
    BY DEF Preflight, Verify, LoseWrite, FinishFails
  <2> QED
    BY <1>2, <2>1, HalvesTyped, NamesFacts
<1> QED
  BY <1>2, <1>3, <1>4, <1>6, <1>7, NamesFacts DEF NamesInv, StoreInv

LEMMA NamesFinish ==
  ASSUME NamesInv, NEW f \in Flows, FinishSaved(f) PROVE NamesInv'
<1>1. /\ UNCHANGED <<ctl, mgr, cache, blind>> /\ disk' = mgr.pending
      /\ Publish(f, mgr.snapshot, co.count)
  BY DEF FinishSaved
<1>2. flow[f].pc \in Locking /\ mgr.snapshot \in NameMaps /\ mgr.snapshot # None
  BY NamesFacts DEF FinishSaved, FlowFits, Locking
<1>3. co.count \in Widths /\ co.count >= co.count /\ blind \in BOOLEAN
  BY NamesFacts, NamesAssumption DEF Widths, Outputs, ShownInv
<1>4. ShownInv' /\ FlowInv'
  BY <1>1, <1>2, <1>3, Publishes
<1> QED
  BY <1>1, <1>4, NamesFacts DEF NamesInv, StoreInv

\* The user is told a name that is shown, and in the cache.
LEMMA NamesCached ==
  ASSUME NamesInv, NEW f \in Flows, CacheSaved(f) PROVE NamesInv'
<1> DEFINE station == flow[f].station
           told == IF co.shown[station] = flow[f].name THEN flow[f].name ELSE None
<1>1. /\ UNCHANGED <<ctl, mgr, disk, co, lock, blind>> /\ cache' = co.shown
      /\ promised' = [promised EXCEPT ![station] = told]
      /\ flow' = [flow EXCEPT ![f] = EmptyFlow] /\ flow[f].pc = "publishing"
  BY DEF CacheSaved
<1>2. Moves(f) /\ flow'[f].pc = "idle"
  BY <1>1, NamesFacts, EmptyShape
<1>3. FlowFits(f)'
  BY <1>2 DEF FlowFits, Locking
<1>4. FlowInv'
  BY <1>1, <1>2, <1>3, NamesFacts, FlowFrame DEF Moves
<1>5. /\ station \in Outputs /\ station <= Configured /\ told \in Names \cup {None}
      /\ 1 .. Configured \subseteq DOMAIN co.shown
  BY <1>1, NamesFacts DEF FlowFits
<1>6. told = None \/ (told = co.shown[station] /\ station \in DOMAIN co.shown)
  BY <1>5, NamesAssumption DEF Outputs
<1>7. promised \in [Outputs -> Names \cup {None}]
  BY NamesFacts DEF ShownInv
<1> HIDE DEF told, station
<1>8. promised' \in [Outputs -> Names \cup {None}]
  BY <1>1, <1>5, <1>7
<1>9. \A s \in 1 .. Configured : \/ promised'[s] \in {promised[s], None}
                                 \/ s \in DOMAIN co.shown /\ promised'[s] = co.shown[s]
  BY <1>1, <1>5, <1>6, <1>7
<1>10. ShownInv'
  BY <1>1, <1>8, <1>9, NamesFacts, ShownSaved
<1> QED
  BY <1>1, <1>4, <1>10, NamesFacts DEF NamesInv, StoreInv

-----------------------------------------------------------------------------
(* The background read, the phone, the restart; the theorems.              *)

\* The flows stand still.
LEMMA FlowsStand ==
  ASSUME FlowInv, UNCHANGED flow, lock' \in Flows \cup {"metadata", None},
         lock' # lock => lock \in {"metadata", None},
         mgr.snapshot # None => mgr'.snapshot # None,
         DOMAIN co.shown \subseteq DOMAIN co'.shown
  PROVE  FlowInv'
<1>1. ASSUME NEW g \in Flows PROVE FlowFits(g)'
  <2>1. flow'[g] = flow[g] /\ (lock # lock' => lock # g) /\ FlowFits(g)
    BY <1>1, NamesAssumption DEF FlowInv
  <2> QED
    BY <2>1 DEF FlowFits
<1> QED
  BY <1>1 DEF FlowInv

LEMMA NamesBackground ==
  ASSUME NamesInv, MetadataRead \/ MetadataSaved \/ MetadataSaveFails
  PROVE  NamesInv'
<1>1. UNCHANGED <<ctl, mgr, disk, flow>>
  BY DEF MetadataRead, MetadataSaved, MetadataSaveFails
<1>2. /\ ShownInv /\ FlowInv /\ StoreInv /\ co \in CoType /\ co.width \in Widths
      /\ co.count \in Widths /\ co.shown \in Shows /\ ctl \in NameMaps
      /\ (co.width <= co.count \/ blind)
  BY DEF NamesInv, ShownInv, StoreInv, CoType, WidthIsProven
<1>3. ShownInv' /\ DOMAIN co.shown \subseteq DOMAIN co'.shown
  <2>1. CASE MetadataRead
    <3> DEFINE w == Adopted(co.width, StationCount(ctl))
               x == Shown(co.shown, ctl, w)
               count == Counted(co.count, ctl)
    <3>1. w \in Widths /\ w >= co.width /\ w \in {co.width, StationCount(ctl)}
      BY <1>2, AdoptedFacts, StationCountRange
    <3>2. /\ count \in Widths /\ count >= co.count
          /\ (Named(ctl) # {} => count >= StationCount(ctl))
      BY <1>2, CountedFacts
    <3>3. co' = [shown |-> x, width |-> w, restored |-> FALSE, count |-> count]
      BY <2>1 DEF MetadataRead
    <3> HIDE DEF w, count
    <3>4. x \in Shows
      BY <1>2, <3>1, ShownFacts
    <3>5. co' \in CoType
      <4> HIDE DEF x
      <4> QED
        BY <3>1, <3>2, <3>3, <3>4 DEF CoType
    <3>6. co'.shown = Shown(co.shown, ctl, co'.width) /\ co'.width = w /\ co'.count = count
      BY <3>3
    <3>7. blind' = (blind \/ Named(ctl) = {}) /\ promised' = StillPromised(ctl) /\ cache' = cache
      BY <2>1 DEF MetadataRead
    <3>8. StationCount(ctl) \in Nat
      BY StationCountRange DEF Outputs
    <3>9. co'.width >= co.width /\ (co'.width <= co'.count \/ blind')
      <4>1. CASE blind \/ Named(ctl) = {}
        BY <3>1, <3>6, <3>7, <4>1
      <4>2. CASE ~blind /\ Named(ctl) # {}
        <5>1. co.width <= co.count
          BY <1>2, <4>2
        <5>2. co.width \in Nat /\ co.count \in Nat /\ count \in Nat
          BY <1>2, <3>2, NamesAssumption DEF Widths, Outputs
        <5> QED
          BY <3>1, <3>2, <3>6, <3>8, <4>2, <5>1, <5>2
      <4> QED
        BY <4>1, <4>2
    <3>10. blind' \in BOOLEAN
      <4>1. blind' = (blind \/ Named(ctl) = {})
        BY <2>1 DEF MetadataRead
      <4> QED
        BY <4>1
    <3>11. promised' = StillPromised(ctl) /\ cache' = cache
      BY <3>7
    <3> HIDE DEF x
    <3> QED
      BY <1>2, <3>5, <3>6, <3>9, <3>10, <3>11, ShownRead
  <2>2. CASE MetadataSaved
    <3>1. cache' = co.shown /\ UNCHANGED <<co, blind, promised>>
      BY <2>2 DEF MetadataSaved
    <3>2. promised' \in [Outputs -> Names \cup {None}]
      BY <1>2, <3>1 DEF ShownInv
    <3> QED
      BY <1>2, <3>1, <3>2, ShownSaved
  <2>3. CASE MetadataSaveFails
    <3>1. UNCHANGED <<co, cache, promised, blind>>
      BY <2>3 DEF MetadataSaveFails
    <3> QED
      BY <1>2, <3>1, ShownStays
  <2> QED
    BY <2>1, <2>2, <2>3
<1>4. lock' \in {"metadata", None} /\ lock \in {"metadata", None}
  BY DEF MetadataRead, MetadataSaved, MetadataSaveFails
<1>5. FlowInv'
  BY <1>1, <1>2, <1>3, <1>4, FlowsStand
<1> QED
  BY <1>1, <1>2, <1>3, <1>5 DEF NamesInv, StoreInv

LEMMA NamesPhone ==
  ASSUME NamesInv, NEW s \in Outputs, NEW n \in Names \cup {Blank}, PhoneRenames(s, n)
  PROVE  NamesInv'
<1>1. /\ ctl' = [ctl EXCEPT ![s] = n]
      /\ UNCHANGED <<mgr, disk, co, cache, lock, flow, promised, blind>>
  BY DEF PhoneRenames
<1>2. ctl' \in NameMaps
  BY <1>1 DEF NamesInv, StoreInv, NameMaps
<1>3. ShownInv'
  BY <1>1, ShownStays DEF NamesInv
<1>4. FlowInv'
  BY <1>1, FlowsStand DEF NamesInv, FlowInv
<1> QED
  BY <1>1, <1>2, <1>3, <1>4 DEF NamesInv, StoreInv

LEMMA NamesRestart ==
  ASSUME NamesInv, Restart PROVE NamesInv'
<1>1. ShownInv'
  BY ShownRestored DEF NamesInv
<1>2. /\ mgr' = [snapshot |-> None, pending |-> disk] /\ lock' = None
      /\ flow' = [f \in Flows |-> EmptyFlow] /\ UNCHANGED <<ctl, disk>>
  BY DEF Restart
<1>3. StoreInv'
  BY <1>2 DEF NamesInv, StoreInv, MgrType
<1>4. 1 \in Outputs
  BY NamesAssumption DEF Outputs
<1>5. EmptyFlow \in FlowType
  BY <1>4 DEF EmptyFlow, FlowType, Steps
<1>6. flow' \in [Flows -> FlowType] /\ \A f \in Flows : flow'[f].pc = "idle"
  BY <1>2, <1>5 DEF EmptyFlow
<1>7. FlowInv'
  BY <1>2, <1>6 DEF FlowInv, FlowFits, Locking
<1> QED
  BY <1>1, <1>3, <1>7 DEF NamesInv

LEMMA NamesNext == NamesInv /\ [Next]_vars => NamesInv'
<1> SUFFICES ASSUME NamesInv, [Next]_vars PROVE NamesInv'
  OBVIOUS
<1>1. ASSUME NEW f \in Flows, FlowStep(f) PROVE NamesInv'
  BY <1>1, NamesMoves, NamesReadOpens, NamesSettles, NamesReadBefore, NamesWrites, NamesFinish,
     NamesCached DEF FlowStep
<1>2. ASSUME NEW f \in Flows,
             \/ Open(f) \/ Close(f)
             \/ \E s \in Outputs, accept \in BOOLEAN : Choose(f, s, accept)
             \/ \E n \in Names : Submit(f, n)
      PROVE  NamesInv'
  BY <1>2, NamesMoves
<1>3. ASSUME UNCHANGED vars PROVE NamesInv'
  <2>1. ShownInv'
    BY <1>3, ShownStays DEF NamesInv, vars
  <2>2. FlowInv'
    BY <1>3, FlowsStand DEF NamesInv, FlowInv, vars
  <2> QED
    BY <1>3, <2>1, <2>2 DEF NamesInv, StoreInv, vars
<1> QED
  BY <1>1, <1>2, <1>3, NamesBackground, NamesPhone, NamesRestart DEF Next

LEMMA NamesAlways == Spec => []NamesInv
<1>1. Init => NamesInv
  BY InitNames DEF EditorInv
<1> QED
  BY <1>1, NamesNext, PTL DEF Spec

\* The types of StationNameManager, the coordinator and the flows; that a flow
\* which goes on from a read has a snapshot, and one that talks to the
\* controller the heavy-read lock.
THEOREM NamesTypes == Spec => []NamesTypeOK
<1>1. NamesInv => NamesTypeOK
  <2> SUFFICES ASSUME NamesInv PROVE NamesTypeOK
    OBVIOUS
  <2>1. ctl \in NameMaps /\ disk \in Entries \cup {None} /\ mgr \in MgrType /\ co \in CoType
    BY DEF NamesInv, StoreInv, ShownInv
  <2>2. DOMAIN co.shown \subseteq Outputs
    BY <2>1, ShowsDef DEF CoType
  <2>3. \A f \in Flows : /\ flow[f].pc \notin {"idle", "opening"} => mgr.snapshot # None
                         /\ InSession(f) => lock = f
    BY DEF NamesInv, FlowInv, FlowFits, InSession, Locking
  <2> QED
    BY <2>1, <2>2, <2>3 DEF NamesInv, FlowInv, MgrType, CoType, Widths, NamesTypeOK
<1> QED
  BY <1>1, NamesAlways, PTL

\* coordinator.py adopt_device_station_count: however many editors and reads
\* raise them, the coordinator's width is never beyond what its client knows
\* (but on a controller that showed no name), nor below a name it shows.
THEOREM WidthAlwaysProven == Spec => []WidthIsProven
<1>1. NamesInv => WidthIsProven
  BY DEF NamesInv, ShownInv
<1> QED
  BY <1>1, NamesAlways, PTL

\* coordinator.py:585-587: a name the user was told is saved is in the cache, and
\* so shown after any restart, until a read shows another; for any number of
\* editors and whichever saves fail.
THEOREM NothingResurrected == Spec => []NoResurrection
<1>1. NamesInv => NoResurrection
  BY DEF NamesInv, ShownInv
<1> QED
  BY <1>1, NamesAlways, PTL

-----------------------------------------------------------------------------
(* One editor: the journal, and what a rename is written over.             *)

JournalStep == [Journal!Next]_(Journal!vars)

\* A rename is written over the names its form showed.
Careful(f) == flow[f].pc = "writing" /\ flow'[f].pc = "first" /\ ~flow[f].failed
                => ctl = flow[f].displayed

\* What a step of the editor keeps, and does.
EditorStep(f) == unverified' \in BOOLEAN /\ EditorFits(f)' /\ JournalStep /\ Careful(f)

\* A step of the editor changes the file only while the controller is known,
\* and marks the controller as unknown only under a journal in the file.
LEMMA JournalSteps ==
  ASSUME StoreInv, StoreInv',
         \/ UNCHANGED <<disk, unverified>>
         \/ ~unverified /\ UNCHANGED <<ctl, unverified>>
         \/ disk # None /\ unverified' = TRUE /\ UNCHANGED <<ctl, disk>>
         \/ unverified' = FALSE /\ UNCHANGED <<ctl, disk>>
  PROVE  JournalStep
BY DEF StoreInv, JournalStep, Journal!Next, Journal!vars, Journal!Rewrite, Journal!Begin,
   Journal!Touch, Journal!Learn

\* A flow that comes to rest, or waits for its user after a failure.
LEMMA EditorRests ==
  ASSUME EditorInv, NamesInv', NEW f \in Flows,
         flow'[f].pc \in {"idle", "opening", "select", "second", "verify", "publishing"}
           \/ (flow'[f].pc = "draft" /\ flow'[f].failed),
         UNCHANGED disk, UNCHANGED unverified \/ (unverified' = FALSE /\ UNCHANGED ctl)
  PROVE  EditorStep(f)
<1>1. EditorFits(f)' /\ Careful(f)
  BY DEF EditorFits, Careful
<1>2. unverified' \in BOOLEAN
  BY DEF EditorInv
<1>3. JournalStep
  BY JournalSteps DEF EditorInv, NamesInv
<1> QED
  BY <1>1, <1>2, <1>3 DEF EditorStep

LEMMA EditorUser ==
  ASSUME EditorInv, NamesInv', NEW f \in Flows,
         \/ Open(f) \/ ReadOpensFails(f) \/ Aborts(f) \/ Close(f)
         \/ \E s \in Outputs, accept \in BOOLEAN : Choose(f, s, accept)
         \/ \E n \in Names : Submit(f, n)
         \/ TakeLock(f) \/ CheckFails(f) \/ JournalFails(f)
         \/ SendFirst(f) \/ SendSecond(f) \/ CacheFails(f) \/ CacheSaved(f)
  PROVE  EditorStep(f)
<1>1. UNCHANGED <<disk, unverified, mgr>>
  BY DEF Open, ReadOpensFails, Aborts, Close, Choose, Submit, TakeLock, CheckFails,
     JournalFails, SendFirst, SendSecond, CacheFails, CacheSaved
<1>2. NamesInv /\ FlowInv /\ StoreInv /\ StoreInv' /\ EditorFits(f) /\ unverified \in BOOLEAN
  BY DEF EditorInv, NamesInv
<1>3. CASE Open(f) \/ ReadOpensFails(f) \/ Aborts(f) \/ Close(f) \/ CacheSaved(f)
  <2>1. flow'[f].pc \in {"idle", "opening"}
    BY <1>2, <1>3, OpenShape, RetryShape, EmptyShape DEF Aborts, Close, CacheSaved
  <2> QED
    BY <1>1, <2>1, EditorRests
<1>4. CASE \E s \in Outputs, accept \in BOOLEAN : Choose(f, s, accept)
  <2>1. /\ flow'[f].pc \in {"draft", "opening"}
        /\ flow'[f].pc = "draft" => flow'[f].displayed = mgr.snapshot
    BY <1>2, <1>4, ChooseShape
  <2>2. EditorFits(f)' /\ Careful(f)
    BY <1>1, <2>1 DEF EditorFits, Careful
  <2>3. JournalStep
    BY <1>1, <1>2, JournalSteps
  <2> QED
    BY <1>1, <1>2, <2>2, <2>3 DEF EditorStep
<1>5. CASE \E n \in Names : Submit(f, n)
  <2>1. /\ flow'[f].pc = "waiting" /\ flow'[f].revision = mgr.snapshot
        /\ flow'[f].failed = flow[f].failed /\ flow'[f].displayed = flow[f].displayed
    BY <1>2, <1>5, SubmitShape
  <2>2. flow[f].pc = "draft"
    BY <1>5 DEF Submit
  <2>3. EditorFits(f)' /\ Careful(f)
    BY <1>1, <1>2, <2>1, <2>2 DEF EditorFits, Careful
  <2>4. JournalStep
    BY <1>1, <1>2, JournalSteps
  <2> QED
    BY <1>1, <1>2, <2>3, <2>4 DEF EditorStep
<1>6. CASE TakeLock(f)
  <2>1. flow[f].pc = "waiting" /\ (FormAgain(f) \/ Goto(f, "checking"))
    BY <1>6 DEF TakeLock
  <2>2. CASE FormAgain(f)
    BY <1>1, <1>2, <2>2, FormAgainShape, EditorRests
  <2>3. CASE Goto(f, "checking")
    <3>1. /\ flow'[f].pc = "checking" /\ flow'[f].revision = flow[f].revision
          /\ flow'[f].failed = flow[f].failed /\ flow'[f].displayed = flow[f].displayed
      <4>1. "checking" \in Steps
        BY DEF Steps
      <4> QED
        BY <1>2, <2>3, <4>1, GotoShape
    <3>2. EditorFits(f)' /\ Careful(f)
      BY <1>1, <1>2, <2>1, <3>1 DEF EditorFits, Careful
    <3>3. JournalStep
      BY <1>1, <1>2, JournalSteps
    <3> QED
      BY <1>1, <1>2, <3>2, <3>3 DEF EditorStep
  <2> QED
    BY <2>1, <2>2, <2>3
<1>7. CASE CheckFails(f) \/ JournalFails(f) \/ CacheFails(f)
  <2>1. flow'[f].pc = "draft" /\ flow'[f].failed
    BY <1>2, <1>7, FormAgainShape DEF CheckFails, JournalFails, CacheFails
  <2> QED
    BY <1>1, <2>1, EditorRests
<1>8. CASE SendFirst(f) \/ SendSecond(f)
  <2>1. PICK pc \in {"second", "verify"} : Goto(f, pc)
    BY <1>8 DEF SendFirst, SendSecond
  <2>2. flow'[f].pc = pc
    <3>1. pc \in Steps
      BY DEF Steps
    <3> QED
      BY <1>2, <2>1, <3>1, GotoShape
  <2> QED
    BY <1>1, <2>2, EditorRests
<1> QED
  BY <1>3, <1>4, <1>5, <1>6, <1>7, <1>8

LEMMA EditorReads ==
  ASSUME EditorInv, NamesInv', NEW f \in Flows,
         ReadOpens(f) \/ SettleSaved(f) \/ SettleFails(f)
  PROVE  EditorStep(f)
<1>1. NamesInv /\ FlowInv /\ StoreInv /\ StoreInv' /\ EditorFits(f) /\ unverified \in BOOLEAN
  BY DEF EditorInv, NamesInv
<1>2. CASE ReadOpens(f)
  <2>1. unverified' = FALSE /\ UNCHANGED <<ctl, disk>>
    BY <1>2 DEF ReadOpens
  <2>2. JournalStep
    BY <1>1, <2>1, JournalSteps
  <2>3. \/ flow'[f].pc = "settling"
        \/ /\ flow'[f].pc \in {"draft", "select"}
           /\ flow'[f].pc = "draft" => flow'[f].displayed = mgr'.snapshot
    <3>1. CASE Settled(mgr.pending, ctl, flow[f].accept)
      <4>1. flow' = [flow EXCEPT ![f].pc = "settling", ![f].entry = mgr.pending]
        BY <1>2, <3>1 DEF ReadOpens
      <4> QED
        BY <1>1, <4>1, NamesFacts, SettlingShape
    <3>2. CASE ~Settled(mgr.pending, ctl, flow[f].accept)
      <4>1. mgr' = [mgr EXCEPT !.snapshot = ctl] /\ AfterRefresh(f, ctl, Counted(co.count, ctl))
        BY <1>2, <3>2 DEF ReadOpens
      <4>2. mgr'.snapshot = ctl
        BY <1>1, <4>1, NamesFacts DEF MgrType
      <4> QED
        BY <1>1, <4>1, <4>2, NamesFacts, AfterRefreshShape
    <3> QED
      BY <3>1, <3>2
  <2>4. EditorFits(f)' /\ Careful(f)
    BY <2>1, <2>3 DEF EditorFits, Careful
  <2> QED
    BY <2>1, <2>2, <2>4 DEF EditorStep
<1>3. CASE SettleSaved(f)
  <2>1. /\ AfterRefresh(f, mgr.snapshot, co.count) /\ UNCHANGED <<ctl, mgr, unverified>>
        /\ flow[f].pc = "settling"
    BY <1>3 DEF SettleSaved
  <2>2. ~unverified /\ mgr.snapshot \in NameMaps
    BY <1>1, <2>1, NamesFacts DEF EditorFits, FlowFits
  <2>3. JournalStep
    BY <1>1, <2>1, <2>2, JournalSteps
  <2>4. /\ flow'[f].pc \in {"draft", "select"}
        /\ flow'[f].pc = "draft" => flow'[f].displayed = mgr.snapshot
    BY <1>1, <2>1, <2>2, AfterRefreshShape
  <2>5. EditorFits(f)' /\ Careful(f)
    BY <2>1, <2>4 DEF EditorFits, Careful
  <2> QED
    BY <1>1, <2>1, <2>3, <2>5 DEF EditorStep
<1>4. CASE SettleFails(f)
  <2>1. flow'[f].pc = "idle" /\ UNCHANGED <<disk, unverified>>
    BY <1>1, <1>4, EmptyShape DEF SettleFails
  <2> QED
    BY <2>1, EditorRests
<1> QED
  BY <1>2, <1>3, <1>4

LEMMA EditorReadBefore ==
  ASSUME EditorInv, NamesInv', NEW f \in Flows, ReadBefore(f)
  PROVE  EditorStep(f)
<1>1. NamesInv /\ FlowInv /\ StoreInv /\ StoreInv' /\ EditorFits(f) /\ unverified \in BOOLEAN
  BY DEF EditorInv, NamesInv
<1>2. flow[f].pc = "checking" /\ unverified' = FALSE /\ UNCHANGED <<ctl, disk>>
  BY DEF ReadBefore
<1>3. CASE FormAgain(f)
  BY <1>1, <1>2, <1>3, FormAgainShape, EditorRests
<1>4. CASE Goto(f, "publishing")
  <2>1. "publishing" \in Steps
    BY DEF Steps
  <2> QED
    BY <1>1, <1>2, <1>4, <2>1, GotoShape, EditorRests
<1>5. CASE /\ ctl = flow[f].revision /\ Goto(f, "journaling")
           /\ mgr'.snapshot = ctl /\ mgr'.pending \notin {None}
  <2>1. /\ flow'[f].pc = "journaling" /\ flow'[f].failed = flow[f].failed
        /\ flow'[f].displayed = flow[f].displayed
    <3>1. "journaling" \in Steps
      BY DEF Steps
    <3> QED
      BY <1>1, <1>5, <3>1, GotoShape
  <2>2. EditorFits(f)' /\ Careful(f)
    BY <1>1, <1>2, <1>5, <2>1 DEF EditorFits, Careful
  <2>3. JournalStep
    BY <1>1, <1>2, JournalSteps
  <2> QED
    BY <1>2, <2>2, <2>3 DEF EditorStep
<1> DEFINE expected == [ctl EXCEPT ![flow[f].station] = flow[f].name]
           entry == [before |-> ctl, expected |-> expected]
<1>6. entry \in Entries
  <2>1. flow[f].name \in Names
    BY <1>1, <1>2, NamesFacts DEF FlowFits, Locking
  <2>2. expected \in NameMaps
    BY <1>1, <2>1, NamesFacts DEF NameMaps
  <2> HIDE DEF expected
  <2> QED
    BY <1>1, <2>2, NamesFacts DEF Entries
<1>7. \/ FormAgain(f) \/ Goto(f, "publishing")
      \/ /\ ctl = flow[f].revision /\ Goto(f, "journaling")
         /\ mgr' = [snapshot |-> ctl, pending |-> entry]
  BY DEF ReadBefore, Publish
<1> HIDE DEF entry
<1>8. mgr' = [snapshot |-> ctl, pending |-> entry]
        => mgr'.snapshot = ctl /\ mgr'.pending \notin {None}
  BY <1>1, <1>6, NamesFacts
<1> QED
  BY <1>3, <1>4, <1>5, <1>7, <1>8

LEMMA EditorWrites ==
  ASSUME EditorInv, NamesInv', NEW f \in Flows,
         \/ JournalSaved(f) \/ Preflight(f) \/ Verify(f) \/ LoseWrite(f)
         \/ FinishSaved(f) \/ FinishFails(f)
  PROVE  EditorStep(f)
<1>1. NamesInv /\ FlowInv /\ StoreInv /\ StoreInv' /\ EditorFits(f) /\ unverified \in BOOLEAN
  BY DEF EditorInv, NamesInv
<1>2. CASE JournalSaved(f)
  <2>1. flow[f].pc = "journaling" /\ disk' = mgr.pending /\ UNCHANGED <<ctl, mgr, unverified>>
    BY <1>2 DEF JournalSaved
  <2>2. ~unverified /\ mgr.pending # None
    BY <1>1, <2>1 DEF EditorFits
  <2>3. /\ flow'[f].pc = "writing" /\ flow'[f].failed = flow[f].failed
        /\ flow'[f].displayed = flow[f].displayed
    BY <1>1, <1>2, JournalShape
  <2>4. EditorFits(f)' /\ Careful(f)
    BY <1>1, <2>1, <2>2, <2>3 DEF EditorFits, Careful
  <2>5. JournalStep
    BY <1>1, <2>1, <2>2, JournalSteps
  <2> QED
    BY <1>1, <2>1, <2>4, <2>5 DEF EditorStep
<1>3. CASE Preflight(f)
  <2>1. flow[f].pc = "writing" /\ disk # None /\ UNCHANGED <<ctl, disk>>
    BY <1>1, <1>3 DEF Preflight, EditorFits
  <2>2. CASE ctl = mgr.snapshot
    <3>1. Goto(f, "first") /\ unverified' = TRUE
      BY <1>3, <2>2 DEF Preflight
    <3>2. flow'[f].pc = "first"
      <4>1. "first" \in Steps
        BY DEF Steps
      <4> QED
        BY <1>1, <3>1, <4>1, GotoShape
    <3>3. EditorFits(f)' /\ Careful(f)
      BY <1>1, <2>1, <2>2, <3>2 DEF EditorFits, Careful
    <3>4. JournalStep
      BY <1>1, <2>1, <3>1, JournalSteps
    <3> QED
      BY <3>1, <3>3, <3>4 DEF EditorStep
  <2>3. CASE ctl # mgr.snapshot
    <3>1. FormAgain(f) /\ UNCHANGED unverified
      BY <1>3, <2>3 DEF Preflight
    <3> QED
      BY <1>1, <2>1, <3>1, FormAgainShape, EditorRests
  <2> QED
    BY <2>2, <2>3
<1>4. CASE Verify(f)
  <2>1. Goto(f, "finishing") /\ unverified' = FALSE /\ UNCHANGED <<ctl, disk>>
    BY <1>4 DEF Verify
  <2>2. flow'[f].pc = "finishing"
    <3>1. "finishing" \in Steps
      BY DEF Steps
    <3> QED
      BY <1>1, <2>1, <3>1, GotoShape
  <2>3. EditorFits(f)' /\ Careful(f)
    BY <2>1, <2>2 DEF EditorFits, Careful
  <2>4. JournalStep
    BY <1>1, <2>1, JournalSteps
  <2> QED
    BY <2>1, <2>3, <2>4 DEF EditorStep
<1>5. CASE LoseWrite(f) \/ FinishFails(f)
  <2>1. FormAgain(f) /\ UNCHANGED <<disk, unverified>>
    BY <1>5 DEF LoseWrite, FinishFails
  <2> QED
    BY <1>1, <2>1, FormAgainShape, EditorRests
<1>6. CASE FinishSaved(f)
  <2>1. /\ flow[f].pc = "finishing" /\ Goto(f, "publishing") /\ UNCHANGED <<ctl, unverified>>
    BY <1>6 DEF FinishSaved, Publish
  <2>2. flow'[f].pc = "publishing"
    <3>1. "publishing" \in Steps
      BY DEF Steps
    <3> QED
      BY <1>1, <2>1, <3>1, GotoShape
  <2>3. ~unverified
    BY <1>1, <2>1 DEF EditorFits
  <2>4. EditorFits(f)' /\ Careful(f)
    BY <2>2 DEF EditorFits, Careful
  <2>5. JournalStep
    BY <1>1, <2>1, <2>3, JournalSteps
  <2> QED
    BY <1>1, <2>1, <2>4, <2>5 DEF EditorStep
<1> QED
  BY <1>2, <1>3, <1>4, <1>5, <1>6

\* What moves no flow.
LEMMA EditorStands ==
  ASSUME EditorInv, NamesInv', NEW f \in Flows,
         \/ MetadataRead \/ MetadataSaved \/ MetadataSaveFails
         \/ \E s \in Outputs, n \in Names \cup {Blank} : PhoneRenames(s, n)
         \/ Restart \/ UNCHANGED vars
  PROVE  EditorStep(f)
<1>1. StoreInv /\ StoreInv' /\ EditorFits(f) /\ unverified \in BOOLEAN
  BY DEF EditorInv, NamesInv
<1>2. UNCHANGED <<disk, unverified>>
  BY DEF MetadataRead, MetadataSaved, MetadataSaveFails, PhoneRenames, Restart, vars
<1>3. JournalStep
  BY <1>1, <1>2, JournalSteps
<1>4. flow'[f].pc = "idle" \/ UNCHANGED <<flow, mgr>>
  BY DEF MetadataRead, MetadataSaved, MetadataSaveFails, PhoneRenames, Restart, vars, EmptyFlow
<1>5. EditorFits(f)' /\ Careful(f)
  BY <1>1, <1>2, <1>4 DEF EditorFits, Careful
<1> QED
  BY <1>1, <1>2, <1>3, <1>5 DEF EditorStep

LEMMA EditorNext ==
  ASSUME OneEditor
  PROVE  EditorInv /\ [Next]_vars => EditorInv' /\ \A f \in Flows : EditorStep(f)
<1> SUFFICES ASSUME EditorInv, [Next]_vars PROVE EditorInv' /\ \A f \in Flows : EditorStep(f)
  OBVIOUS
<1>1. NamesInv'
  BY NamesNext DEF EditorInv
<1>2. ASSUME NEW g \in Flows PROVE EditorStep(g)
  <2>1. ASSUME NEW f \in Flows, FlowStep(f) PROVE EditorStep(g)
    <3>1. f = g
      BY DEF OneEditor
    <3> QED
      BY <1>1, <2>1, <3>1, EditorUser, EditorReads, EditorReadBefore, EditorWrites DEF FlowStep
  <2>2. ASSUME NEW f \in Flows,
               \/ Open(f) \/ Close(f)
               \/ \E s \in Outputs, accept \in BOOLEAN : Choose(f, s, accept)
               \/ \E n \in Names : Submit(f, n)
        PROVE  EditorStep(g)
    <3>1. f = g
      BY DEF OneEditor
    <3> QED
      BY <1>1, <2>2, <3>1, EditorUser
  <2> QED
    BY <1>1, <2>1, <2>2, EditorStands DEF Next
<1>3. unverified' \in BOOLEAN
  BY <1>2 DEF EditorStep, OneEditor
<1> QED
  BY <1>1, <1>2, <1>3 DEF EditorInv, EditorStep

\* station_names.py: with one editor the journal's file is a write-ahead
\* journal of the controller's names. A frame is sent only under a journal in
\* the file, and that journal is neither replaced nor removed until a complete
\* read has told what the frame did; over lost links, failing saves, names
\* changed by others and restarts.
THEOREM RenameIsJournaled ==
  ASSUME OneEditor PROVE Spec => ImplementsJournal
<1>1. Init => Journal!Init
  <2> SUFFICES ASSUME Init PROVE Journal!Init
    OBVIOUS
  <2>1. ctl \in NameMaps /\ disk \in Entries \cup {None} /\ unverified = FALSE
    BY InitNames DEF EditorInv, NamesInv, StoreInv, Init
  <2> QED
    BY <2>1 DEF Journal!Init
<1>2. EditorInv /\ [Next]_vars => EditorInv' /\ [Journal!Next]_(Journal!vars)
  BY EditorNext DEF EditorStep, JournalStep, OneEditor
<1> QED
  BY InitNames, <1>1, <1>2, PTL DEF Spec, ImplementsJournal, Journal!Spec

\* station_names.py:11-12, "a stale draft is rejected": with one editor, the
\* names over which a rename's frames go are those its form showed, unless a
\* submit of that form has failed before.
THEOREM NothingOverwrittenBlindly ==
  ASSUME OneEditor PROVE Spec => NoBlindOverwrite
<1> DEFINE CarefulStep ==
      \A f \in Flows : flow[f].pc = "writing" /\ flow'[f].pc = "first" /\ ~flow[f].failed
                         => ctl = flow[f].displayed
<1>1. EditorInv /\ [Next]_vars => EditorInv' /\ [CarefulStep]_vars
  BY EditorNext DEF EditorStep, Careful
<1> QED
  BY InitNames, <1>1, PTL DEF Spec, NoBlindOverwrite

-----------------------------------------------------------------------------
(* The options flow: the editor of the names and that of the programs.     *)

\* An instance is a behaviour of each of the editors, one of which stands still.
THEOREM EditorsSideBySide == MCSpec => Spec /\ Editor!Spec
<1>1. MCInit => Init /\ Editor!Init
  BY DEF MCInit
<1>2. [MCNext]_mcVars => [Next]_vars /\ [Editor!Next]_(Editor!vars)
  BY DEF MCNext, mcVars, editorVars, vars, Editor!vars, Editor!Next
<1> QED
  BY <1>1, <1>2, PTL DEF MCSpec, Spec, Editor!Spec

\* OptionsTypeOK: the states of both editors of the options flow have their
\* types, for any number of stations, names and programs.
THEOREM OptionsTypes == MCSpec => []OptionsTypeOK
<1>1. Editor!Spec => []Editor!EditorTypeOK
  BY OptionsAssumption, Editor!EditorTypes
<1> QED
  BY <1>1, EditorsSideBySide, NamesTypes, PTL DEF OptionsTypeOK

\* What the program editor writes is what it has shown (options_program.py), in
\* the options flow, too.
THEOREM OptionsShownIsWritten == MCSpec => SuccessIsAsShown
<1>1. Editor!Spec => Editor!SuccessIsAsShown
  BY OptionsAssumption, Editor!ShownIsWritten
<1> QED
  BY <1>1, EditorsSideBySide, PTL DEF SuccessIsAsShown

\* NextStartIsTrue: the next start the sensors show is the controller's
\* (next_start_datetime, schedule.py), whatever the options flow edits.
THEOREM OptionsNextStart == MCSpec => []NextStartIsTrue
<1>1. Editor!Spec => []Editor!NextStartIsTrue
  BY OptionsAssumption, Editor!NextStartAlwaysTrue
<1> QED
  BY <1>1, EditorsSideBySide, PTL DEF NextStartIsTrue

=============================================================================
