---------------------------- MODULE MCTextUtils ----------------------------
(***************************************************************************)
(* Model checking of TextUtils: a character of one byte, one of two and    *)
(* one of four bytes, which is two code units of UTF-16.  The heartbeat is *)
(* two of the first.                                                       *)
(***************************************************************************)
EXTENDS TextUtils

MCBytes == [c \in Char |-> CASE c = "a" -> 1 [] c = "e" -> 2 [] OTHER -> 4]
MCPong  == <<"a", "a">>
MCUnits == [c \in Char |-> IF c = "g" THEN 2 ELSE 1]
=============================================================================
