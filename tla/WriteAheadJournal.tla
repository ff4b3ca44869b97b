-------------------------- MODULE WriteAheadJournal --------------------------
(***************************************************************************)
(* What a durable before/expected journal promises, whatever keeps it: a   *)
(* device is changed on behalf of the journal only while the journal is    *)
(* on disk, and the journal on disk neither changes nor goes away until    *)
(* the outcome of that change is known.                                    *)
(***************************************************************************)
CONSTANTS Entries,   \* what a journal can hold
          Devices,   \* the states of the device
          None

VARIABLES journal,   \* on disk: an entry, or None
          device,
          dirty      \* the device may be half-way through the journaled change

vars == <<journal, device, dirty>>

Init == /\ journal \in Entries \cup {None}
        /\ device \in Devices
        /\ dirty = FALSE

\* Only a clean journal is opened, replaced or closed.
Rewrite == /\ ~dirty
           /\ journal' \in Entries \cup {None}
           /\ UNCHANGED <<device, dirty>>

\* The change begins under the journal.
Begin == /\ journal # None
         /\ dirty' = TRUE
         /\ UNCHANGED <<journal, device>>

\* The change goes on, or somebody else changes the device.
Touch == /\ device' \in Devices
         /\ UNCHANGED <<journal, dirty>>

\* A complete read of the device has told the outcome, or has become what a new
\* entry starts from.
Learn == /\ dirty' = FALSE
         /\ UNCHANGED <<journal, device>>

Next == Rewrite \/ Begin \/ Touch \/ Learn

Spec == Init /\ [][Next]_vars
=============================================================================
