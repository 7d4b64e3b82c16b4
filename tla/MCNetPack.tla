----------------------------- MODULE MCNetPack -----------------------------
(***************************************************************************)
(* Model checking of NetPack: each number is told from the others, a byte  *)
(* of a message is <<0, 0>>, and a message of two bytes is too long.       *)
(***************************************************************************)
EXTENDS NetPack

MCIds     == {[seq |-> 101, msg_id |-> 102, conn_id |-> 103, uid |-> 104]}
MCPayload == {<<<<0, 0>>>>, <<<<0, 0>>, <<0, 0>>>>}
=============================================================================
