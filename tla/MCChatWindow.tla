---------------------------- MODULE MCChatWindow ----------------------------
(***************************************************************************)
(* Model checking of ChatWindow on small instances.                        *)
(***************************************************************************)
EXTENDS ChatWindow
=============================================================================
