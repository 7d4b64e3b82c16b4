---------------------------- MODULE MCLogManager ----------------------------
(***************************************************************************)
(* Model checking of LogManager on small instances.                        *)
(***************************************************************************)
EXTENDS LogManager

CONSTANTS m1, m2
=============================================================================
