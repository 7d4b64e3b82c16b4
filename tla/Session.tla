------------------------------ MODULE Session ------------------------------
(***************************************************************************)
(* What the connection manager promises: one session at a time.  A session *)
(* is opened, becomes usable, is greeted ("xyc") at most once and only     *)
(* while it is usable, and is closed, by whoever notices first, before the *)
(* next one is opened.                                                     *)
(***************************************************************************)
EXTENDS Naturals

VARIABLES
  phase,    \* of the session
  greeted   \* how often the session was greeted

Phase == {"down", "opening", "usable", "closing"}

Init == phase = "down" /\ greeted = 0

Move(from, to) ==
  /\ phase = from
  /\ phase' = to

Open      == Move("down", "opening") /\ UNCHANGED greeted
Establish == Move("opening", "usable") /\ UNCHANGED greeted
GiveUp    == Move("opening", "closing") /\ UNCHANGED greeted
Drop      == Move("usable", "closing") /\ UNCHANGED greeted
Close     == Move("closing", "down") /\ greeted' = 0

Greet ==
  /\ phase = "usable"
  /\ greeted = 0
  /\ greeted' = 1
  /\ UNCHANGED phase

Next == Open \/ Establish \/ GiveUp \/ Drop \/ Close \/ Greet

Spec == Init /\ [][Next]_<<phase, greeted>>
=============================================================================
