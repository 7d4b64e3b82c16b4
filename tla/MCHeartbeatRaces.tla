------------------------- MODULE MCHeartbeatRaces -------------------------
(***************************************************************************)
(* Model checking of HeartbeatRaces on small instances.                    *)
(***************************************************************************)
EXTENDS HeartbeatRaces, TLC

CONSTANTS h1, none
=============================================================================
