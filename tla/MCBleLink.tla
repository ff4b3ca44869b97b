------------------------------ MODULE MCBleLink ------------------------------
(***************************************************************************)
(* Instances of BleLink for TLC.                                           *)
(***************************************************************************)
EXTENDS BleLink, TLC

CONSTANTS coord, flow,   \* the coordinator's client; the config flow's
          poll, user, setup

\* Two tasks on the coordinator's client, one on the config flow's.
Owners == (poll :> coord) @@ (user :> coord) @@ (setup :> flow)
=============================================================================
