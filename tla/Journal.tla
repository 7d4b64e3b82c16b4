------------------------------ MODULE Journal ------------------------------
(***************************************************************************)
(* What a log promises: lines are only ever added, at the end, and the     *)
(* part of them that is kept whatever happens next is a beginning of it    *)
(* that only ever grows.                                                   *)
(***************************************************************************)
EXTENDS Naturals, Sequences

CONSTANT Message

VARIABLES
  lines,  \* all that was added
  kept    \* how many of them are kept

Init == lines = <<>> /\ kept = 0

Add(message) == lines' = Append(lines, message) /\ UNCHANGED kept

Keep == kept' \in (kept + 1)..Len(lines) /\ UNCHANGED lines

Next == Keep \/ \E message \in Message : Add(message)

Spec == Init /\ [][Next]_<<lines, kept>>
=============================================================================
