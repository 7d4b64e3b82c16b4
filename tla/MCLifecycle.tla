---------------------------- MODULE MCLifecycle ----------------------------
(***************************************************************************)
(* Model checking of Lifecycle on small instances.                         *)
(***************************************************************************)
EXTENDS Lifecycle

CONSTANT m1
=============================================================================
