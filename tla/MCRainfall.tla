------------------------------ MODULE MCRainfall ------------------------------
(***************************************************************************)
(* Instances of Rainfall for TLC.                                          *)
(***************************************************************************)
EXTENDS Rainfall, TLC

\* One percent of the small baseline rounds to nothing, half of it to five.
MCFractions == {0, 4, 50}
MCPhoneBudgets == {3, 10}

\* The selected programs are alike.
Symmetry == Permutations(Selected)
=============================================================================
