-------------------------- MODULE MCSocketManager --------------------------
(***************************************************************************)
(* Model checking of SocketManager on small instances.                     *)
(***************************************************************************)
EXTENDS SocketManagerInv, TLC

CONSTANTS h1, h2, none

HandleSymmetry == Permutations(Handle)
=============================================================================
