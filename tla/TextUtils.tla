----------------------------- MODULE TextUtils -----------------------------
(***************************************************************************)
(* The way of a text (TextUtils.cpp, WinMain.cpp): typed into the input    *)
(* field, taken from there as UTF-16, sent as UTF-8 with the terminating   *)
(* NUL, and at the other end read in pieces of whatever size TCP delivers, *)
(* each converted to UTF-16 by itself, unless it reads as a heartbeat.     *)
(* The server, which passes on what the clients send, is external; what a  *)
(* connection that ends takes along is SocketManager's.                    *)
(***************************************************************************)
EXTENDS Naturals, Sequences, FiniteSets, SequencesExt, FiniteSetsExt

CONSTANTS
  Char,       \* the characters that are typed
  Bytes,      \* how many bytes each has in UTF-8
  Units,      \* how many code units each has in UTF-16
  Pong,       \* the heartbeat's "PONG", which a user may type as well
  InputSize,  \* ProcessInput's buffer, 1024
  BufLen,     \* DEFAULT_BUFLEN, 4096
  MaxTyped,   \* bound: characters in one input
  MaxTexts    \* bound: inputs

NUL     == "NUL"
Bad     == "U+FFFD"  \* what stands for a character that was cut
Symbol  == Char \cup {NUL, Bad}
Size(c) == IF c \in Char THEN Bytes[c] ELSE IF c = NUL THEN 1 ELSE 3

(* The window's input field takes no NUL.                                  *)
ASSUME CharAssumption ==
  Bytes \in [Char -> 1..4] /\ Units \in [Char -> 1..2] /\ NUL \notin Char
ASSUME PongAssumption == Pong \in Seq(Char)
ASSUME SizeAssumption == InputSize \in Nat \ {0} /\ BufLen \in Nat \ {0}
ASSUME BoundAssumption == MaxTyped \in Nat /\ MaxTexts \in Nat

(* A byte of UTF-8: the kth of a character.                                *)
Byte == {b \in Symbol \X (1..4) : b[2] <= Size(b[1])}

Count(seq, set) == Cardinality({i \in DOMAIN seq : seq[i] \in set})

VARIABLES
  typed,     \* history: the texts that were typed
  failed,    \* history: those of them that SendMessageData did not send
  sent,      \* history: what was sent of the others, character by character
  wire,      \* the bytes on their way
  received,  \* the characters of all lines pushed to `messages`
  splits,    \* history: reads that ended inside a character
  swallowed  \* history: characters of the reads taken for a heartbeat

vars == <<typed, failed, sent, wire, received, splits, swallowed>>

TypeOK ==
  /\ typed \in Seq(Seq(Char))
  /\ failed \subseteq DOMAIN typed
  /\ sent \in Seq(Symbol)
  /\ wire \in Seq(Byte)
  /\ received \in Seq(Symbol)
  /\ splits \in Nat
  /\ swallowed \in Nat

Init ==
  /\ typed = <<>>
  /\ failed = {}
  /\ sent = <<>>
  /\ wire = <<>>
  /\ received = <<>>
  /\ splits = 0
  /\ swallowed = 0

-----------------------------------------------------------------------------
(* ProcessInput.                                                           *)
UnitsOf(text) == Len(text) + Count(text, {c \in Char : Units[c] = 2})

(* GetWindowText fills the buffer but for its NUL, if need be with half of *)
(* a character at the end.  Mutant: it leaves a unit free.                 *)
RoomLess == InputSize - 2
Room     == InputSize - 1

GetWindowText(text) ==
  LET fits  == {n \in 0..Len(text) : UnitsOf(SubSeq(text, 1, n)) <= Room}
      whole == SubSeq(text, 1, Max(fits))
  IN  IF whole # text /\ UnitsOf(whole) < Room THEN Append(whole, Bad) ELSE whole

(* Mutant: a byte too many for each character.                             *)
LongCoded(c) == [k \in 1..Size(c) + 1 |-> <<c, k>>]
Coded(c)     == [k \in 1..Size(c) |-> <<c, k>>]

Utf8(text) == FlattenSeq([i \in DOMAIN text |-> Coded(text[i])])

(* Mutant: the text is sent without the NUL.                               *)
WithoutNull(wstr)     == Utf8(wstr)
wstring_to_utf8(wstr) == Utf8(wstr) \o <<<<NUL, 1>>>>

(* The field is cleared whether SendMessageData succeeds or not: without a *)
(* connection, and when send fails, it returns FALSE and nobody looks.     *)
ProcessInput ==
  /\ Len(typed) < MaxTexts
  /\ \E text \in BoundedSeq(Char, MaxTyped) :
       LET input == GetWindowText(text)
       IN  /\ input # <<>>
           /\ typed' = Append(typed, text)
           /\ \/ /\ sent' = sent \o input \o <<NUL>>
                 /\ wire' = wire \o wstring_to_utf8(input)
                 /\ UNCHANGED failed
              \/ /\ failed' = failed \cup {Len(typed')}
                 /\ UNCHANGED <<sent, wire>>
  /\ UNCHANGED <<received, splits, swallowed>>

-----------------------------------------------------------------------------
(* ReceiveMessage and OnReceiveMessage.                                    *)

(* MultiByteToWideChar: a character whose bytes are all in the piece; Bad  *)
(* for each byte of one that began before the piece, and once for one that *)
(* ends behind it.                                                         *)
Converted(str, i) ==
  LET c == str[i][1]
      k == str[i][2]
  IN  IF k > i \/ (i = Len(str) /\ k < Size(c)) THEN <<Bad>>
      ELSE IF k = Size(c) THEN <<c>> ELSE <<>>

(* Mutant: the last byte of the piece is left out.                         *)
AllButLast(str)        == FlattenSeq([i \in 1..Len(str) - 1 |-> Converted(str, i)])
string_to_wstring(str) == FlattenSeq([i \in DOMAIN str |-> Converted(str, i)])

(* A read that is "PONG" counts as a heartbeat, whoever typed it.          *)
OnReceiveMessage ==
  \E n \in 1..Len(wire) :
    LET str == SubSeq(wire, 1, n)
    IN  /\ n <= BufLen
        /\ wire' = SubSeq(wire, n + 1, Len(wire))
        /\ \/ /\ str = Utf8(Pong)
              /\ swallowed' = swallowed + Len(Pong)
              /\ UNCHANGED <<received, splits>>
           \/ /\ str # Utf8(Pong)
              /\ received' = received \o string_to_wstring(str)
              /\ splits' = IF str[n][2] < Size(str[n][1]) THEN splits + 1 ELSE splits
              /\ UNCHANGED swallowed
        /\ UNCHANGED <<typed, failed, sent>>

-----------------------------------------------------------------------------
Next == ProcessInput \/ OnReceiveMessage

Spec == Init /\ [][Next]_vars

-----------------------------------------------------------------------------
Outgoing ==
  [i \in DOMAIN typed |-> IF i \in failed THEN <<>> ELSE Append(typed[i], NUL)]

(* What was typed is sent, each text with its NUL, but for the texts whose *)
(* SendMessageData failed, if it fits into the buffer: a longer input      *)
(* loses its end, which the field no longer shows.                         *)
TypedIsSent ==
  (\A i \in DOMAIN typed : UnitsOf(typed[i]) < InputSize) => sent = FlattenSeq(Outgoing)

(* Reads of any size give the text that was sent, if none of them ends     *)
(* inside a character and none is taken for a heartbeat.                   *)
ArrivesWhole ==
  splits = 0 /\ swallowed = 0 => received \o string_to_wstring(wire) = sent

(* A read that ends inside a character costs one character, one taken for  *)
(* a heartbeat costs those of "PONG", and what else is read is not lost.   *)
LossIsBounded ==
  LET whole == Symbol \ {Bad}
  IN  Count(received, whole) + Count(string_to_wstring(wire), whole) + splits
        + swallowed >= Count(sent, whole)

(* However the bytes are cut, each text that was sent brings exactly one   *)
(* NUL along, so that the field at the other end stops at the first.       *)
OneNulEach ==
  Count(received, {NUL}) + Count(string_to_wstring(wire), {NUL})
    = Len(typed) - Cardinality(failed)

-----------------------------------------------------------------------------
(* string_to_wchar_buffer asks MultiByteToWideChar for the size of a C     *)
(* string, by -1, so that what comes back counts the NUL.                  *)
c_str(str) ==
  LET ends == {i \in DOMAIN str : str[i] = NUL}
  IN  IF ends = {} THEN str ELSE SubSeq(str, 1, Min(ends) - 1)

size_needed(str) == UnitsOf(c_str(str)) + 1

(* The comment above it says of the size: not including the final null     *)
(* character.                                                              *)
SizeWithoutNull ==
  received # <<>> => size_needed(received) = UnitsOf(c_str(received))
=============================================================================
