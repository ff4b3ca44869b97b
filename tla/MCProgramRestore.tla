-------------------------- MODULE MCProgramRestore --------------------------
(***************************************************************************)
(* Instances of ProgramRestore for TLC.                                    *)
(***************************************************************************)
EXTENDS ProgramRestore

CONSTANTS a, b, off, lawn, odd

\* A backup of an early beta: two blocks to restore, no raw snapshot yet.
OldBackup == {[programs |-> [x \in Editable |-> lawn], snapshot |-> None, pending |-> None]}

\* What beta.1-beta.12 may have left: a backup without raw snapshot, the raw
\* snapshot of a degraded controller beside the protected backup, and such a
\* backup that the library does not encode any more.
MCLegacy ==
  LET full  == [x \in {a, b} |-> lawn]
      stale == [x \in {a, b} |-> IF x = a THEN odd ELSE lawn]
      bare  == [blocks |-> [x \in Slots |-> off], date |-> [day |-> 1, month |-> 1]]
  IN {[programs |-> full, snapshot |-> None, pending |-> None],
      [programs |-> full, snapshot |-> bare, pending |-> None],
      [programs |-> stale, snapshot |-> bare, pending |-> None]}

\* The headers' dates: two days of a month, and a day of the next.
OneDate    == {[day |-> 1, month |-> 1]}
TwoDays    == {[day |-> d, month |-> 1] : d \in {1, 2}}
ThreeDates == TwoDays \cup {[day |-> 1, month |-> 2]}
=============================================================================
