------------------------------ MODULE NetPack ------------------------------
(***************************************************************************)
(* The packet codec (NetPack.cpp): a header of six numbers in front of a   *)
(* message, written and read back byte by byte.  The program does not use  *)
(* it yet.  Here a packet is made, filled in, serialized behind what the   *)
(* string holds, read from as much of the string as has come, and answered *)
(* by a packet made from the one that was read.                            *)
(***************************************************************************)
EXTENDS Integers, Sequences

CONSTANTS
  Ids,       \* the seq, msg_id, conn_id and uid that a caller fills in
  Flag,      \* the members of ServerMsgType in use
  Payload,   \* the strings SerializeAsString gives
  INT32_MAX, \* the largest int32_t
  MaxPacks,  \* bound: packets in one string
  MaxMsg     \* bound: size of a message that is serialized

ASSUME FieldAssumption ==
  /\ Ids \subseteq [seq : Int, msg_id : Int, conn_id : Int, uid : Int]
  /\ Flag \subseteq Int

ASSUME PayloadAssumption == Payload \subseteq Seq(Int \X Nat)

HeaderSize == 29

(* A larger size would not be negative as an int32_t; protobuf makes no    *)
(* message of half of it.                                                  *)
ASSUME WidthAssumption ==
  INT32_MAX \in Nat /\ MaxMsg \in Nat /\ HeaderSize + MaxMsg < 2 * (INT32_MAX + 1)

VARIABLES
  pack,    \* the packet in hand
  data,    \* the string
  stored,  \* history: the packets serialized into it
  read     \* history: what `pack` was read from: the packet at the front of
           \* the string, and the number of bytes

vars == <<pack, data, stored, read>>

(* Where deserialize finds each field.                                     *)
(* Mutant: two of them are taken for each other.                           *)
SwappedOffset == [len |-> 0, seq |-> 4, msg_id |-> 8, conn_id |-> 20, uid |-> 12, flag |-> 28]
Offset        == [len |-> 0, seq |-> 4, msg_id |-> 8, conn_id |-> 12, uid |-> 20, flag |-> 28]

(* A number is its bytes, the kth of which is <<number, k>>.               *)
Byte == Int \X Nat
Pack == [len : Nat, seq : Int, msg_id : Int, conn_id : Int, uid : Int,
         flag : Flag \cup {0}, msg : Seq(Byte)]

NewPack == [len |-> 0, seq |-> 0, msg_id |-> 0, conn_id |-> 0, uid |-> 0,
            flag |-> 0, msg |-> <<>>]

Unread == [first |-> NewPack, size |-> 0]

TypeOK ==
  /\ pack \in Pack
  /\ \E ids \in Ids \cup {NewPack} :
       \A f \in {"seq", "msg_id", "conn_id", "uid"} : pack[f] = ids[f]
  /\ data \in Seq(Byte)
  /\ stored \in Seq(Pack)
  /\ read \in [first : Pack, size : Nat]

Init ==
  /\ pack = NewPack
  /\ data = <<>>
  /\ stored = <<>>
  /\ read = Unread

-----------------------------------------------------------------------------
Put(n, size) == [k \in 1..size |-> <<n, k>>]

Get(str, offset) == str[offset + 1][1]

(* Mutants: serialize leaves len as it is; it counts the header only.      *)
(* The sum is a size_t, total_len an int32_t.                              *)
Int32(n)    == IF n > INT32_MAX THEN n - 2 * (INT32_MAX + 1) ELSE n
OldLen(p)   == p.len
TotalLen(p) == Int32(HeaderSize + Len(p.msg))

Header(p) ==
  Put(TotalLen(p), 4) \o Put(p.seq, 4) \o Put(p.msg_id, 4)
    \o Put(p.conn_id, 8) \o Put(p.uid, 8) \o Put(p.flag, 1)

serialize(p) == Header(p) \o p.msg

(* conn_id, deserialize's parameter, is not used.                          *)
(* Mutant: a packet without a message counts as too short.                 *)
NoMessage(str) == Len(str) <= HeaderSize
TooShort(str)  == Len(str) < HeaderSize

deserialize(str) ==
  LET field(f) == Get(str, Offset[f])
  IN  IF TooShort(str) THEN NewPack
      ELSE [len |-> field("len"), seq |-> field("seq"), msg_id |-> field("msg_id"),
            conn_id |-> field("conn_id"), uid |-> field("uid"), flag |-> field("flag"),
            msg |-> SubSeq(str, HeaderSize + 1, Len(str))]

-----------------------------------------------------------------------------
(* The constructors; a null message leaves msg empty.                      *)
Make ==
  /\ \E flag \in Flag, msg \in Payload \cup {<<>>} :
       pack' = [NewPack EXCEPT !.flag = flag, !.msg = msg]
  /\ read' = Unread
  /\ UNCHANGED <<data, stored>>

Answer ==
  /\ \E flag \in Flag, msg \in Payload \cup {<<>>} :
       pack' = [pack EXCEPT !.flag = flag, !.msg = msg]
  /\ read' = Unread
  /\ UNCHANGED <<data, stored>>

FillIn ==
  /\ \E ids \in Ids :
       pack' = [pack EXCEPT !.seq = ids.seq, !.msg_id = ids.msg_id,
                            !.conn_id = ids.conn_id, !.uid = ids.uid]
  /\ read' = Unread
  /\ UNCHANGED <<data, stored>>

(* resize throws when total_len is negative, and then nothing has changed. *)
Serialize ==
  /\ Len(stored) < MaxPacks /\ Len(pack.msg) <= MaxMsg
  /\ TotalLen(pack) >= 0
  /\ data' = data \o serialize(pack)
  /\ stored' = Append(stored, pack)
  /\ UNCHANGED <<pack, read>>

Deserialize ==
  /\ stored # <<>>
  /\ \E n \in 0..Len(data) :
       /\ pack' = deserialize(SubSeq(data, 1, n))
       /\ read' = [first |-> stored[1], size |-> n]
  /\ data' = <<>>
  /\ stored' = <<>>

Next == Make \/ Answer \/ FillIn \/ Serialize \/ Deserialize

Spec == Init /\ [][Next]_vars

-----------------------------------------------------------------------------
Whole(p) == [p EXCEPT !.len = HeaderSize + Len(p.msg)]

(* A packet comes back as it was made, but for len: it is set when the     *)
(* packet is serialized, even where an answer still has the request's.     *)
RoundTrip ==
  read.size = Whole(read.first).len => pack = Whole(read.first)

(* deserialize does not look at len, but who reads a packet can: it is the *)
(* size of the string exactly when that was the packet that was sent, not  *)
(* a part of it or one with the next one in its message.  (An empty        *)
(* string gives a packet with the right len, 0, all the same.)             *)
LenTellsWhole ==
  read.size > 0 => (pack.len = read.size <=> read.size = Whole(read.first).len)

(* A string too short for a header is a fresh packet, a longer one keeps   *)
(* the header whatever has become of the message.                          *)
HeaderSurvives ==
  read # Unread =>
    IF read.size < HeaderSize THEN pack = NewPack
    ELSE [pack EXCEPT !.msg = <<>>] = [Whole(read.first) EXCEPT !.msg = <<>>]
=============================================================================
