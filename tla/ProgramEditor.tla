---------------------------- MODULE ProgramEditor ----------------------------
(***************************************************************************)
(* The program editor of the options flow (config_flow.py), from the read  *)
(* that opens it over its form and its confirmations to the write that     *)
(* replaces the controller's program, with what may happen while the form  *)
(* is open: days pass, the phone edits, waterings begin, other readers     *)
(* read.                                                                   *)
(*                                                                         *)
(* There is one program. A revision is what it is taken of: the program    *)
(* and the date in its header, which the controller keeps at its own day.  *)
(***************************************************************************)
EXTENDS Schedule

CONSTANTS
    Stored,     \* the programs the controller may hold at first
    PhoneEdits, \* what the phone may make of it
    Presets,    \* the schedule presets: what each puts over a program
    Forms,      \* what the user may fill in, but for the first run day
    End,        \* bound: the last time
    MaxPhone,   \* bound: edits by the phone
    MaxSubmits, \* bound: forms handed in
    Horizon     \* how far the reference looks for the next start

VARIABLES
    now,
    ctl,        \* the controller's program
    cached,     \* irrigation_programs
    snap,       \* last_snapshot: the revision read last
    active,     \* _irrigation_active
    flow,       \* the editor
    phone, submits

vars == <<now, ctl, cached, snap, active, flow, phone, submits>>

Today == Day(now)
Revision == [program |-> ctl, day |-> Today]

Closed == [pc |-> "closed", day |-> 0, form |-> None, revision |-> None,
           program |-> None, anchor |-> None, ticked |-> FALSE,
           today |-> None, checked |-> None,
           base |-> None, fresh |-> FALSE, unseen |-> FALSE]

Init ==
    /\ now \in 0 .. Times - 1
    /\ ctl \in Stored
    /\ cached = ctl
    /\ snap = [program |-> ctl, day |-> Today]
    /\ active = FALSE
    /\ flow = Closed
    /\ phone = 0 /\ submits = 0

-----------------------------------------------------------------------------
(* Opening it.                                                             *)

\* A read by the background refresh, which waits while the controller waters.
BackgroundRead ==
    /\ ~active
    /\ cached' = ctl /\ snap' = Revision
    /\ UNCHANGED <<now, ctl, active, flow, phone, submits>>

\* A restore's, a rainfall adjustment's or another write's read, of an operation
\* that then fails: the client has seen it, the coordinator has not.
OtherRead ==
    /\ snap' = Revision
    /\ UNCHANGED <<now, ctl, cached, active, flow, phone, submits>>

\* The form as it is rendered now, of the program known by now.
Rendered(f, program) == [f EXCEPT !.pc = "edit", !.day = Today, !.form = program,
                                  !.program = None, !.anchor = None, !.ticked = FALSE,
                                  !.today = None]

\* The editor is opened with a refresh, which does nothing while the controller
\* waters and says nothing of it.
OpenEditor ==
    /\ flow.pc = "closed" /\ submits < MaxSubmits
    /\ IF active THEN UNCHANGED <<cached, snap>> ELSE cached' = ctl /\ snap' = Revision
    /\ flow' = Rendered([Closed EXCEPT !.revision = snap', !.base = cached', !.fresh = ~active],
                        cached')
    /\ UNCHANGED <<now, ctl, active, phone, submits>>

\* The user goes away.
CloseEditor ==
    /\ flow.pc \in {"edit", "apply", "degenerate"}
    /\ flow' = Closed
    /\ UNCHANGED <<now, ctl, cached, snap, active, phone, submits>>

-----------------------------------------------------------------------------
(* The form.                                                               *)

\* The first run days offered: one period of the program shown.
Anchors == flow.day .. flow.day + (IF flow.form.period >= 1 THEN flow.form.period ELSE 1) - 1

\* A filled-in form; and one that is handed in as it is.
Filled(f, a) == [cycle |-> f.cycle, week |-> f.week, period |-> f.period,
                 starts |-> f.starts, waters |-> f.waters, anchor |-> a]

Untouched ==
    Filled(flow.form,
           flow.day + IF flow.form.cycle = "periodic" /\ PhaseValid(flow.form)
                      THEN flow.form.synchro ELSE 0)

\* (A period below a day the form does not take.)
Inputs == {i \in {Untouched} \cup {Filled(f, a) : f \in Forms, a \in Anchors} :
              i.period >= 1}

\* The program with the countdown to its first run day.
Phased(p, anchor, day) ==
    [p EXCEPT !.synchro = IF p.cycle = "periodic" THEN Countdown(anchor, p.period, day) ELSE 0]

\* _parse_program_input and _apply_preset.
Parsed(input, preset) ==
    LET plain == [cycle |-> input.cycle, week |-> input.week, period |-> input.period,
                  synchro |-> 0, starts |-> input.starts, waters |-> input.waters]
        over  == [x \in DOMAIN plain |-> IF x \in DOMAIN preset THEN preset[x] ELSE plain[x]]
    IN Phased(over, input.anchor, Today)

\* Whether the day picked is not one of the coming period's.
Wraps(p, anchor) ==
    p.cycle = "periodic" /\ anchor \notin Today .. Today + p.period - 1

\* A program goes straight to the controller when nothing is to be confirmed.
Submit ==
    /\ flow.pc = "edit" /\ submits < MaxSubmits
    /\ submits' = submits + 1
    /\ \E input \in Inputs, preset \in Presets :
          LET p == Parsed(input, preset)
              pc == IF Degenerate(p) THEN "degenerate"
                    ELSE IF DOMAIN preset # {} \/ Wraps(p, input.anchor) THEN "apply"
                    ELSE "preflight"
          IN flow' = IF active THEN Rendered(flow, cached)
                     ELSE [flow EXCEPT !.pc = pc, !.program = p, !.anchor = input.anchor,
                                       !.day = IF pc = "preflight" THEN @ ELSE Today,
                                       !.today = Today]
    /\ UNCHANGED <<now, ctl, cached, snap, active, phone>>

Confirm ==
    /\ flow.pc \in {"apply", "degenerate"}
    /\ flow' = [flow EXCEPT !.pc = "preflight", !.today = Today,
                             !.ticked = flow.pc = "degenerate"]
    /\ UNCHANGED <<now, ctl, cached, snap, active, phone, submits>>

Decline ==
    /\ flow.pc \in {"apply", "degenerate"}
    /\ flow' = Rendered(flow, cached)
    /\ UNCHANGED <<now, ctl, cached, snap, active, phone, submits>>

-----------------------------------------------------------------------------
(* The write: set_irrigation_program.                                      *)

\* The write day is the day the operation began; a day that ended since shows
\* in the header's date.
Written == Phased(flow.program, flow.anchor, flow.today)

Fails == flow' = [flow EXCEPT !.pc = "failed", !.program = None, !.anchor = None,
                              !.ticked = FALSE, !.unseen = FALSE,
                              !.today = None, !.checked = None]

\* What was read back is published, then the stores are saved; a save that fails
\* makes the whole write a failure.
Delivers == /\ cached' = ctl' /\ snap' = [program |-> ctl', day |-> Today]
            /\ flow' = Closed \/ Fails

\* Mutant: the revision the editor was opened with is not asked for.
PreflightUnchecked ==
    /\ flow.pc = "preflight"
    /\ IF Written = ctl THEN UNCHANGED ctl /\ Delivers
       ELSE /\ snap' = Revision
            /\ flow' = [flow EXCEPT !.pc = "write", !.program = Written,
                                    !.checked = Today]
            /\ UNCHANGED <<ctl, cached>>
    /\ UNCHANGED <<now, active, phone, submits>>

\* A program that is there already is not written.
Preflight ==
    /\ flow.pc = "preflight"
    /\ IF flow.revision # Revision
       THEN Fails /\ snap' = Revision /\ UNCHANGED <<ctl, cached>>
       ELSE IF Written = ctl
       THEN UNCHANGED ctl /\ Delivers
       ELSE /\ snap' = Revision
            /\ flow' = [flow EXCEPT !.pc = "write", !.program = Written,
                                    !.checked = Today]
            /\ UNCHANGED <<ctl, cached>>
    /\ UNCHANGED <<now, active, phone, submits>>

\* The frames carry the header's date of the preflight, so that the read back
\* agrees with what is expected on that day only.
Write ==
    /\ flow.pc = "write"
    /\ ctl' = flow.program
    /\ IF Today = flow.checked THEN Delivers
       ELSE Fails /\ snap' = [program |-> ctl', day |-> Today] /\ UNCHANGED cached
    /\ UNCHANGED <<now, active, phone, submits>>

\* The link is lost before the first frame or after the last.
LinkLost ==
    /\ flow.pc \in {"preflight", "write"}
    /\ ctl' \in {ctl} \cup IF flow.pc = "write" THEN {flow.program} ELSE {}
    /\ Fails
    /\ UNCHANGED <<now, cached, snap, active, phone, submits>>

\* After a failure the form is shown again, of what can be read; the revision
\* stays that of the opening.
ShowAgain ==
    /\ flow.pc = "failed"
    /\ \/ ~active /\ cached' = ctl /\ snap' = Revision
       \/ UNCHANGED <<cached, snap>>
    /\ flow' = Rendered(flow, cached')
    /\ UNCHANGED <<now, ctl, active, phone, submits>>

-----------------------------------------------------------------------------
(* The rest of the world.                                                  *)

Tick ==
    /\ now < End
    /\ now' = now + 1
    /\ ctl' = IF Day(now + 1) = Today THEN ctl ELSE Midnight(ctl)
    /\ UNCHANGED <<cached, snap, active, flow, phone, submits>>

PhoneEdit ==
    /\ phone < MaxPhone
    /\ phone' = phone + 1
    /\ ctl' \in PhoneEdits \ {ctl}
    /\ flow' = [flow EXCEPT !.unseen = @ \/ flow.pc = "write"]
    /\ UNCHANGED <<now, cached, snap, active, submits>>

RunBegins == ~active /\ active' = TRUE /\ UNCHANGED <<now, ctl, cached, snap, flow, phone, submits>>
RunEnds == active /\ active' = FALSE /\ UNCHANGED <<now, ctl, cached, snap, flow, phone, submits>>

Next ==
    \/ BackgroundRead \/ OtherRead \/ OpenEditor \/ CloseEditor
    \/ Submit \/ Confirm \/ Decline \/ Preflight \/ Write \/ LinkLost \/ ShowAgain
    \/ Tick \/ PhoneEdit \/ RunBegins \/ RunEnds

Spec == Init /\ [][Next]_vars

-----------------------------------------------------------------------------
(* What the constants stand for.                                           *)

\* What is stored, edited, preset and filled in are programs, or parts of one.
EditorConstants ==
    /\ Times \in Nat \ {0} /\ {End, Horizon} \subseteq Nat /\ Times - 1 <= End
    /\ None \notin Nat \cup Programs
    /\ Stored \cup PhoneEdits \cup Forms \subseteq Programs
    /\ \A p \in Stored \cup PhoneEdits : p.synchro >= 0
    /\ \A q \in Presets :
          /\ DOMAIN q \subseteq {"cycle", "week", "period", "synchro"}
          /\ "cycle" \in DOMAIN q => q["cycle"] \in Cycles
          /\ "week" \in DOMAIN q => q["week"] \subseteq 0 .. 6
          /\ "period" \in DOMAIN q => q["period"] \in Nat \ {0}
          /\ "synchro" \in DOMAIN q => q["synchro"] \in Nat

\* Days of the month that follow each other.
Calendar(first, last) ==
    /\ \A d \in first .. last : MonthDay[d] \in 1 .. 31
    /\ \A d \in first .. last - 1 :
          \/ MonthDay[d + 1] = MonthDay[d] + 1
          \/ MonthDay[d] >= 28 /\ MonthDay[d + 1] = 1

\* The calendar is one, and the reference looks as far as the next start may be.
CalendarHolds ==
    /\ Horizon >= Lookahead
    /\ \A p \in Stored \cup PhoneEdits \cup Forms : p.period <= Horizon
    /\ \A q \in Presets : "period" \in DOMAIN q => q["period"] <= Horizon
    /\ Calendar(0, Day(End) + Horizon)

-----------------------------------------------------------------------------
(* What the editor promises, and what the sensors show.                    *)

EditorTypeOK ==
    /\ now \in 0 .. End /\ active \in BOOLEAN
    /\ flow.pc \in {"closed", "edit", "apply", "degenerate", "preflight", "write", "failed"}
    /\ flow.pc \in {"preflight", "write"} => flow.program # None /\ flow.today # None

\* A write that is reported done has replaced the program the editor was opened
\* with, waters on the days the form or its confirmation has shown, be it written
\* on the day of that or later, and is no dead program the user has not confirmed.
\* (What the phone changes after the last check the protocol cannot tell, and an
\* editor opened while the controller waters has read nothing.)
ASuccess == flow.pc \in {"preflight", "write"} /\ flow'.pc = "closed"

SuccessIsAsShown == [][ASuccess =>
    /\ flow.fresh /\ ~flow.unseen => ctl = flow.base
    /\ LET shown == After(Phased(flow.program, flow.anchor, flow.day), Horizon)
           made  == After(ctl', Horizon)
       IN \A k \in 0 .. Horizon - 7 :
             Today + k - flow.day \in 0 .. Horizon =>
                (WatersOn(made[k], Today + k) <=> WatersOn(shown[Today + k - flow.day], Today + k))
    /\ Degenerate(ctl') => flow.ticked]_vars

\* The next start shown of a program that is the controller's is its next start,
\* however far away: fourteen days, or two of an interval's, are looked at.
NextStartIsTrue ==
    cached = ctl /\ (ctl.cycle = "periodic" => PhaseValid(ctl)) =>
        NextStart(cached, now) = NextRun(ctl, now, Horizon)

=============================================================================
