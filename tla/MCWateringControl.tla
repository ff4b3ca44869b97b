-------------------------- MODULE MCWateringControl --------------------------
(***************************************************************************)
(* Instances of WateringControl for TLC.                                   *)
(***************************************************************************)
EXTENDS WateringControl, TLC

\* A valve or a button, of a station or of a program, are alike but for what
\* they ask for.
Symmetry == Permutations(Callers)
=============================================================================
