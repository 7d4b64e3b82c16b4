--------------------------- MODULE NetPackProofs ---------------------------
(***************************************************************************)
(* Proofs about NetPack: packets of any size, any number of them in the    *)
(* string, read from any beginning of it.                                  *)
(***************************************************************************)
EXTENDS NetPack, SequenceTheorems, TLAPS

-----------------------------------------------------------------------------
(* memcpy of a number gives so many bytes, and each of them tells it.      *)
LEMMA PutBytes ==
  ASSUME NEW n \in Int, NEW size \in Nat
  PROVE  /\ Put(n, size) \in Seq(Byte)
         /\ Len(Put(n, size)) = size
         /\ \A k \in 1..size : Put(n, size)[k] = <<n, k>>
<1>1. Put(n, size) \in [1..size -> Byte]
  BY DEF Put, Byte
<1> QED BY <1>1, SeqDef DEF Put

(* What stands behind a sequence begins where that ends.                   *)
LEMMA Joined ==
  ASSUME NEW s \in Seq(Byte), NEW t \in Seq(Byte), NEW m \in Nat, Len(s) = m
  PROVE  /\ s \o t \in Seq(Byte)
         /\ Len(s \o t) = m + Len(t)
         /\ \A i \in 1..m + Len(t) : (s \o t)[i] = IF i <= m THEN s[i] ELSE t[i - m]
BY ConcatProperties

LEMMA PutBehind ==
  ASSUME NEW s \in Seq(Byte), NEW n \in Int, NEW size \in Nat \ {0}
  PROVE  /\ s \o Put(n, size) \in Seq(Byte)
         /\ Len(s \o Put(n, size)) = Len(s) + size
         /\ \A i \in 1..Len(s) : (s \o Put(n, size))[i] = s[i]
         /\ (s \o Put(n, size))[Len(s) + 1] = <<n, 1>>
<1> DEFINE t == Put(n, size)
           m == Len(s)
<1>1. t \in Seq(Byte) /\ Len(t) = size /\ t[1] = <<n, 1>>
  <2>1. size \in Nat /\ 1 \in 1..size
    OBVIOUS
  <2> QED BY <2>1, PutBytes, Zenon
<1>2. m \in Nat
  BY LenProperties
<1> HIDE DEF t
<1>3. /\ s \o t \in Seq(Byte) /\ Len(s \o t) = m + size
      /\ \A i \in 1..m + size : (s \o t)[i] = IF i <= m THEN s[i] ELSE t[i - m]
  BY <1>1, <1>2, Joined
<1> HIDE DEF m
<1>4. \A i \in 1..m : i \in 1..m + size /\ i <= m
  BY <1>2
<1> DEFINE k == m + 1
<1>5. k \in 1..m + size /\ ~(k <= m) /\ k - m = 1
  BY <1>2
<1> HIDE DEF k
<1>6. (s \o t)[k] = t[1]
  BY <1>3, <1>5, Zenon
<1>7. \A i \in 1..m : (s \o t)[i] = s[i]
  BY <1>3, <1>4, Zenon
<1> QED BY <1>1, <1>3, <1>6, <1>7 DEF t, m, k

(* The message's size and the header's are an int32_t.                     *)
Fits(p) == HeaderSize + Len(p.msg) <= INT32_MAX

LEMMA LenFits ==
  ASSUME NEW p \in Pack
  PROVE  /\ TotalLen(p) \in Int /\ Len(p.msg) \in Nat
         /\ Fits(p) => TotalLen(p) = 29 + Len(p.msg)
         /\ TotalLen(p) >= 0 /\ Len(p.msg) <= MaxMsg => Fits(p)
<1>1. Len(p.msg) \in Nat
  <2>1. p.msg \in Seq(Byte)
    BY DEF Pack
  <2> QED BY <2>1, LenProperties
<1> DEFINE n == Len(p.msg)
<1>3. n \in Nat
  BY <1>1
<1> HIDE DEF n
<1>2. /\ Int32(HeaderSize + n) \in Int
      /\ HeaderSize + n <= INT32_MAX => Int32(HeaderSize + n) = 29 + n
      /\ Int32(HeaderSize + n) >= 0 /\ n <= MaxMsg => HeaderSize + n <= INT32_MAX
  BY <1>3, WidthAssumption DEF Int32, HeaderSize
<1> QED BY <1>1, <1>2 DEF TotalLen, Fits, n

(* A header of Pack's six numbers has its size, and deserialize finds each *)
(* field where serialize has put it.                                       *)
LEMMA HeaderLayout ==
  ASSUME NEW p \in Pack
  PROVE  /\ Header(p) \in Seq(Byte)
         /\ Len(Header(p)) = HeaderSize
         /\ Header(p)[1] = <<TotalLen(p), 1>> /\ Header(p)[5] = <<p.seq, 1>>
         /\ Header(p)[9] = <<p.msg_id, 1>> /\ Header(p)[13] = <<p.conn_id, 1>>
         /\ Header(p)[21] = <<p.uid, 1>> /\ Header(p)[29] = <<p.flag, 1>>
<1> DEFINE z1 == 1   z4 == 4   z5 == 5   z8 == 8   z9 == 9   z12 == 12
           z13 == 13   z20 == 20   z21 == 21   z28 == 28   z29 == 29
<1>0. /\ z1 \in Nat \ {0} /\ z4 \in Nat \ {0} /\ z8 \in Nat \ {0}
      /\ z4 \in Nat /\ z8 \in Nat /\ z12 \in Nat /\ z20 \in Nat /\ z28 \in Nat
      /\ z8 = z4 + z4 /\ z12 = z8 + z4 /\ z20 = z12 + z8 /\ z28 = z20 + z8
      /\ z29 = z28 + z1 /\ z5 = z4 + 1 /\ z9 = z8 + 1 /\ z13 = z12 + 1
      /\ z21 = z20 + 1 /\ z29 = z28 + 1
  OBVIOUS
<1>00. /\ 1 \in 1..z4 /\ 1 \in 1..z8 /\ 1 \in 1..z12 /\ 1 \in 1..z20 /\ 1 \in 1..z28
       /\ z5 \in 1..z8 /\ z5 \in 1..z12 /\ z5 \in 1..z20 /\ z5 \in 1..z28
       /\ z9 \in 1..z12 /\ z9 \in 1..z20 /\ z9 \in 1..z28
       /\ z13 \in 1..z20 /\ z13 \in 1..z28 /\ z21 \in 1..z28
  OBVIOUS
<1> DEFINE a == Put(TotalLen(p), z4)
           b == a \o Put(p.seq, z4)
           c == b \o Put(p.msg_id, z4)
           d == c \o Put(p.conn_id, z8)
           e == d \o Put(p.uid, z8)
           f == e \o Put(p.flag, z1)
<1>8. Header(p) = f
  BY DEF Header, f, e, d, c, b, a
<1> HIDE DEF z1, z4, z5, z8, z9, z12, z13, z20, z21, z28, z29
<1>1. /\ TotalLen(p) \in Int /\ p.seq \in Int /\ p.msg_id \in Int
      /\ p.conn_id \in Int /\ p.uid \in Int /\ p.flag \in Int
  <2>1. p.msg \in Seq(Byte) /\ p.flag \in Flag \cup {0}
    BY DEF Pack
  <2>2. \A x \in Flag \cup {0} : x \in Int
    BY FieldAssumption
  <2>4. TotalLen(p) \in Int
    BY LenFits
  <2>5. p.flag \in Int
    BY <2>1, <2>2, Zenon
  <2> QED BY <2>4, <2>5 DEF Pack
<1>2. a \in Seq(Byte) /\ Len(a) = z4 /\ a[1] = <<TotalLen(p), 1>>
  BY <1>0, <1>00, <1>1, PutBytes, Zenon
<1> HIDE DEF a
<1>3. /\ b \in Seq(Byte) /\ Len(b) = z8 /\ b[z5] = <<p.seq, 1>>
      /\ \A i \in 1..z4 : b[i] = a[i]
  <2>1. /\ b \in Seq(Byte) /\ Len(b) = Len(a) + z4
        /\ b[Len(a) + 1] = <<p.seq, 1>>
        /\ \A i \in 1..Len(a) : b[i] = a[i]
    BY <1>0, <1>1, <1>2, PutBehind, Zenon
  <2> HIDE DEF b
  <2> QED BY <2>1, <1>0, <1>2, Zenon
<1> HIDE DEF b
<1>4. /\ c \in Seq(Byte) /\ Len(c) = z12 /\ c[z9] = <<p.msg_id, 1>>
      /\ \A i \in 1..z8 : c[i] = b[i]
  <2>1. /\ c \in Seq(Byte) /\ Len(c) = Len(b) + z4
        /\ c[Len(b) + 1] = <<p.msg_id, 1>>
        /\ \A i \in 1..Len(b) : c[i] = b[i]
    BY <1>0, <1>1, <1>3, PutBehind, Zenon
  <2> HIDE DEF c
  <2> QED BY <2>1, <1>0, <1>3, Zenon
<1> HIDE DEF c
<1>5. /\ d \in Seq(Byte) /\ Len(d) = z20 /\ d[z13] = <<p.conn_id, 1>>
      /\ \A i \in 1..z12 : d[i] = c[i]
  <2>1. /\ d \in Seq(Byte) /\ Len(d) = Len(c) + z8
        /\ d[Len(c) + 1] = <<p.conn_id, 1>>
        /\ \A i \in 1..Len(c) : d[i] = c[i]
    BY <1>0, <1>1, <1>4, PutBehind, Zenon
  <2> HIDE DEF d
  <2> QED BY <2>1, <1>0, <1>4, Zenon
<1> HIDE DEF d
<1>6. /\ e \in Seq(Byte) /\ Len(e) = z28 /\ e[z21] = <<p.uid, 1>>
      /\ \A i \in 1..z20 : e[i] = d[i]
  <2>1. /\ e \in Seq(Byte) /\ Len(e) = Len(d) + z8
        /\ e[Len(d) + 1] = <<p.uid, 1>>
        /\ \A i \in 1..Len(d) : e[i] = d[i]
    BY <1>0, <1>1, <1>5, PutBehind, Zenon
  <2> HIDE DEF e
  <2> QED BY <2>1, <1>0, <1>5, Zenon
<1> HIDE DEF e
<1>7. /\ f \in Seq(Byte) /\ Len(f) = z29 /\ f[z29] = <<p.flag, 1>>
      /\ \A i \in 1..z28 : f[i] = e[i]
  <2>1. /\ f \in Seq(Byte) /\ Len(f) = Len(e) + z1
        /\ f[Len(e) + 1] = <<p.flag, 1>>
        /\ \A i \in 1..Len(e) : f[i] = e[i]
    <3>1. e \in Seq(Byte) /\ p.flag \in Int /\ z1 \in Nat \ {0}
      BY <1>0, <1>1, <1>6
    <3> QED BY <3>1, PutBehind, Zenon
  <2> HIDE DEF f
  <2> QED BY <2>1, <1>0, <1>6, Zenon
<1> HIDE DEF f
<1>9. f[1] = <<TotalLen(p), 1>>
  <2>1. c[1] = <<TotalLen(p), 1>>
    BY <1>00, <1>2, <1>3, <1>4, Zenon
  <2> QED BY <2>1, <1>00, <1>5, <1>6, <1>7, Zenon
<1>10. f[z5] = <<p.seq, 1>> /\ f[z9] = <<p.msg_id, 1>>
  <2>1. d[z5] = <<p.seq, 1>> /\ d[z9] = <<p.msg_id, 1>>
    BY <1>00, <1>3, <1>4, <1>5, Zenon
  <2> QED BY <2>1, <1>00, <1>6, <1>7, Zenon
<1>11. f[z13] = <<p.conn_id, 1>> /\ f[z21] = <<p.uid, 1>>
  BY <1>00, <1>5, <1>6, <1>7, Zenon
<1> QED BY <1>7, <1>8, <1>9, <1>10, <1>11 DEF HeaderSize, z5, z9, z13, z21, z29

(* A serialized packet is its header and then its message.                 *)
LEMMA SerializedPack ==
  ASSUME NEW p \in Pack, Fits(p)
  PROVE  /\ TotalLen(p) \in Nat /\ TotalLen(p) >= HeaderSize
         /\ serialize(p) \in Seq(Byte)
         /\ Len(serialize(p)) = TotalLen(p)
         /\ \A i \in 1..HeaderSize : serialize(p)[i] = Header(p)[i]
         /\ \A i \in 30..TotalLen(p) : serialize(p)[i] = p.msg[i - HeaderSize]
<1> DEFINE h == Header(p)
           m == p.msg
<1>1. h \in Seq(Byte) /\ Len(h) = 29 /\ m \in Seq(Byte)
  BY HeaderLayout DEF Pack, HeaderSize
<1>2. Len(m) \in Nat
  BY <1>1, LenProperties
<1>3. TotalLen(p) = 29 + Len(m) /\ serialize(p) = h \o m
  BY LenFits DEF serialize
<1> HIDE DEF h, m
<1>4. /\ h \o m \in Seq(Byte)
      /\ Len(h \o m) = 29 + Len(m)
      /\ \A i \in 1..29 + Len(m) : (h \o m)[i] = IF i <= 29 THEN h[i] ELSE m[i - 29]
  <2> DEFINE z == 29
  <2>1. z \in Nat /\ Len(h) = z
    BY <1>1
  <2> HIDE DEF z
  <2>2. /\ h \o m \in Seq(Byte)
        /\ Len(h \o m) = z + Len(m)
        /\ \A i \in 1..z + Len(m) : (h \o m)[i] = IF i <= z THEN h[i] ELSE m[i - z]
    BY <1>1, <2>1, Joined, Zenon
  <2> QED BY <2>2 DEF z
<1>5. \A i \in 1..29 : i \in 1..29 + Len(m) /\ i <= 29
  BY <1>2
<1>6. \A i \in 30..29 + Len(m) : i \in 1..29 + Len(m) /\ ~(i <= 29)
  BY <1>2
<1>7. \A i \in 1..29 : (h \o m)[i] = h[i]
  BY <1>4, <1>5, Zenon
<1>8. \A i \in 30..29 + Len(m) : (h \o m)[i] = m[i - 29]
  BY <1>4, <1>6, Zenon
<1>9. TotalLen(p) \in Nat /\ TotalLen(p) >= 29
  BY <1>2, <1>3
<1> QED BY <1>3, <1>4, <1>7, <1>8, <1>9 DEF HeaderSize, h, m

(* A string that begins like a packet, as far as it goes, gives back the   *)
(* header of that packet, and from its whole length the packet.            *)
LEMMA ReadBack ==
  ASSUME NEW p \in Pack, Fits(p), NEW str \in Seq(Byte), Len(str) >= HeaderSize,
         \A i \in 1..Len(str) : i <= TotalLen(p) => str[i] = serialize(p)[i]
  PROVE  /\ deserialize(str) \in Pack
         /\ [deserialize(str) EXCEPT !.msg = <<>>] = [Whole(p) EXCEPT !.msg = <<>>]
         /\ deserialize(str).len = TotalLen(p)
         /\ Len(str) = TotalLen(p) => deserialize(str) = Whole(p)
<1> DEFINE q == deserialize(str)
           m == SubSeq(str, HeaderSize + 1, Len(str))
<1>1. Len(str) \in Nat /\ Len(str) >= 29 /\ TotalLen(p) \in Nat /\ TotalLen(p) >= 29
  BY SerializedPack, LenProperties DEF HeaderSize
<1>2. \A i \in 1..29 : str[i] = Header(p)[i]
  <2> TAKE i \in 1..29
  <2>1. i \in 1..Len(str) /\ i <= TotalLen(p)
    BY <1>1
  <2>2. str[i] = serialize(p)[i]
    BY <2>1
  <2> QED BY <2>2, SerializedPack DEF HeaderSize
<1>3. /\ m \in Seq(Byte)
      /\ Len(m) = Len(str) - 29
      /\ \A i \in 1..Len(m) : m[i] = str[i + 29]
  <2>1. \A i \in 30..Len(str) : str[i] \in Byte
    <3> TAKE i \in 30..Len(str)
    <3>1. i \in 1..Len(str)
      BY <1>1
    <3> QED BY <3>1, ElementOfSeq
  <2>2. m = SubSeq(str, 30, Len(str)) /\ 30 \in Int /\ Len(str) \in Int
    BY <1>1 DEF HeaderSize
  <2> HIDE DEF m
  <2>3. /\ m \in Seq(Byte)
        /\ Len(m) = IF 30 <= Len(str) THEN Len(str) - 30 + 1 ELSE 0
        /\ \A i \in 1..Len(str) - 30 + 1 : m[i] = str[30 + i - 1]
    BY <2>1, <2>2, SubSeqProperties
  <2>4. ASSUME NEW n \in Nat, NEW k, n >= 29, k = IF 30 <= n THEN n - 30 + 1 ELSE 0
        PROVE  k = n - 29 /\ \A i \in 1..k : i \in 1..n - 30 + 1 /\ 30 + i - 1 = i + 29
    BY <2>4
  <2>5. Len(m) = IF 30 <= Len(str) THEN Len(str) - 30 + 1 ELSE 0
    BY <2>3
  <2>6. /\ Len(m) = Len(str) - 29
        /\ \A i \in 1..Len(m) : i \in 1..Len(str) - 30 + 1 /\ 30 + i - 1 = i + 29
    BY <1>1, <2>4, <2>5, Zenon
  <2> QED BY <2>3, <2>6, Zenon
<1>4. q = [len |-> TotalLen(p), seq |-> p.seq, msg_id |-> p.msg_id,
           conn_id |-> p.conn_id, uid |-> p.uid, flag |-> p.flag, msg |-> m]
  <2>1. ~TooShort(str)
    BY <1>1 DEF TooShort, HeaderSize
  <2>2. /\ str[1] = <<TotalLen(p), 1>> /\ str[5] = <<p.seq, 1>>
        /\ str[9] = <<p.msg_id, 1>> /\ str[13] = <<p.conn_id, 1>>
        /\ str[21] = <<p.uid, 1>> /\ str[29] = <<p.flag, 1>>
    <3>1. /\ 1 \in 1..29 /\ 5 \in 1..29 /\ 9 \in 1..29
          /\ 13 \in 1..29 /\ 21 \in 1..29 /\ 29 \in 1..29
      OBVIOUS
    <3> QED BY <3>1, <1>2, HeaderLayout, Zenon
  <2>3. /\ Get(str, 0) = TotalLen(p) /\ Get(str, 4) = p.seq /\ Get(str, 8) = p.msg_id
        /\ Get(str, 12) = p.conn_id /\ Get(str, 20) = p.uid /\ Get(str, 28) = p.flag
    BY <2>2 DEF Get
  <2> QED BY <2>1, <2>3 DEF deserialize, Offset
<1>5. Whole(p) = [len |-> TotalLen(p), seq |-> p.seq, msg_id |-> p.msg_id,
                  conn_id |-> p.conn_id, uid |-> p.uid, flag |-> p.flag, msg |-> p.msg]
  BY LenFits DEF Whole, HeaderSize, Pack
<1>6. ASSUME Len(str) = TotalLen(p) PROVE m = p.msg
  <2>1. p.msg \in Seq(Byte) /\ TotalLen(p) = 29 + Len(p.msg)
    BY LenFits DEF Pack
  <2>2. Len(m) = Len(p.msg) /\ Len(m) \in Nat
    BY <1>1, <1>3, <1>6, <2>1, LenProperties
  <2>3. \A i \in 1..Len(m) : m[i] = p.msg[i]
    <3> TAKE i \in 1..Len(m)
    <3>1. i + 29 \in 1..Len(str) /\ i + 29 \in 30..TotalLen(p) /\ (i + 29) - 29 = i
      <4>1. ASSUME NEW n \in Nat, NEW k \in 1..n
            PROVE  k + 29 \in 1..29 + n /\ k + 29 \in 30..29 + n /\ (k + 29) - 29 = k
        OBVIOUS
      <4> QED BY <4>1, <1>6, <2>1, <2>2, Zenon
    <3>2. m[i] = str[i + 29]
      BY <1>3
    <3>3. str[i + 29] = serialize(p)[i + 29]
      BY <1>1, <1>6, <3>1
    <3>4. serialize(p)[i + 29] = p.msg[(i + 29) - 29]
      BY <3>1, SerializedPack DEF HeaderSize
    <3> QED BY <3>1, <3>2, <3>3, <3>4
  <2> QED BY <1>3, <2>1, <2>2, <2>3, SeqEqual
<1> HIDE DEF q, m
<1>7. q \in Pack
  BY <1>1, <1>3, <1>4 DEF Pack
<1>8. [q EXCEPT !.msg = <<>>] = [Whole(p) EXCEPT !.msg = <<>>] /\ q.len = TotalLen(p)
  BY <1>4, <1>5
<1>9. Len(str) = TotalLen(p) => q = Whole(p)
  BY <1>4, <1>5, <1>6
<1> QED BY <1>7, <1>8, <1>9 DEF q

-----------------------------------------------------------------------------
Fields == {"seq", "msg_id", "conn_id", "uid"}

Known(p) == \E ids \in Ids \cup {NewPack} : \A f \in Fields : p[f] = ids[f]

(* All packets in the string were filled in by a caller, and their sizes   *)
(* are no more than an int32_t.                                            *)
StoredKnown == \A i \in DOMAIN stored : Known(stored[i]) /\ Fits(stored[i])

(* The string begins with the whole of the first packet.                   *)
FrontWhole ==
  IF stored = <<>> THEN data = <<>>
  ELSE /\ Len(data) >= TotalLen(stored[1])
       /\ \A i \in 1..TotalLen(stored[1]) : data[i] = serialize(stored[1])[i]

(* TypeOK, and what has to be known of the string to tell what comes back  *)
(* from it.                                                                *)
NetPackInv ==
  /\ TypeOK
  /\ StoredKnown
  /\ FrontWhole
  /\ RoundTrip
  /\ LenTellsWhole
  /\ HeaderSurvives

-----------------------------------------------------------------------------
LEMMA NewPackKnown ==
  /\ NewPack \in Pack /\ Known(NewPack)
  /\ Unread \in [first : Pack, size : Nat]
<1>1. NewPack \in Pack
  <2>1. <<>> \in Seq(Byte) /\ 0 \in Nat /\ 0 \in Int
    OBVIOUS
  <2> QED BY <2>1 DEF NewPack, Pack
<1>2. Known(NewPack)
  BY Zenon DEF Known
<1> QED BY <1>1, <1>2 DEF Unread

(* Whether a packet is known is a matter of its four numbers.              *)
LEMMA KnownBy ==
  ASSUME NEW p, NEW q, Known(p),
         q.seq = p.seq, q.msg_id = p.msg_id, q.conn_id = p.conn_id, q.uid = p.uid
  PROVE  Known(q)
<1>1. \A f \in Fields : q[f] = p[f]
  BY DEF Fields
<1> QED BY <1>1, Zenon DEF Known

(* No property speaks of a packet that was not read.                       *)
LEMMA NothingRead ==
  read = Unread => RoundTrip /\ LenTellsWhole /\ HeaderSurvives
<1> SUFFICES ASSUME read = Unread PROVE RoundTrip /\ LenTellsWhole /\ HeaderSurvives
  OBVIOUS
<1>1. Whole(NewPack).len = 29
  BY DEF Whole, NewPack, HeaderSize
<1>2. read.size = 0 /\ read.first = NewPack
  BY DEF Unread
<1> QED BY <1>1, <1>2 DEF RoundTrip, LenTellsWhole, HeaderSurvives

(* The string's first packet, and the whole of it, stay in front when      *)
(* another is serialized behind it.                                        *)
LEMMA SerializeStep ==
  ASSUME NetPackInv, Serialize
  PROVE  NetPackInv'
<1>1. /\ pack \in Pack /\ Known(pack) /\ data \in Seq(Byte) /\ stored \in Seq(Pack)
      /\ read \in [first : Pack, size : Nat]
  BY DEF NetPackInv, TypeOK, Known, Fields
<1>0. Fits(pack)
  BY <1>1, LenFits DEF Serialize
<1>2. /\ data' = data \o serialize(pack) /\ stored' = Append(stored, pack)
      /\ pack' = pack /\ read' = read
  BY DEF Serialize
<1>3. /\ serialize(pack) \in Seq(Byte) /\ Len(serialize(pack)) = TotalLen(pack)
      /\ TotalLen(pack) \in Nat
  BY <1>0, <1>1, SerializedPack
<1>4. /\ stored' \in Seq(Pack) /\ stored' # <<>>
      /\ stored'[1] = IF stored = <<>> THEN pack ELSE stored[1]
      /\ \A i \in DOMAIN stored' : stored'[i] = pack \/ (i \in DOMAIN stored /\ stored'[i] = stored[i])
  <2>1. /\ Append(stored, pack) \in Seq(Pack)
        /\ Len(Append(stored, pack)) = Len(stored) + 1
        /\ \A i \in 1..Len(stored) : Append(stored, pack)[i] = stored[i]
        /\ Append(stored, pack)[Len(stored) + 1] = pack
    BY <1>1, AppendProperties
  <2>2. Len(stored) \in Nat /\ (stored = <<>> <=> Len(stored) = 0) /\ DOMAIN stored = 1..Len(stored)
    BY <1>1, EmptySeq, LenProperties
  <2>3. DOMAIN Append(stored, pack) = 1..Len(stored) + 1 /\ Append(stored, pack) # <<>>
    BY <2>1, <2>2, LenProperties
  <2>4. Append(stored, pack)[1] = IF stored = <<>> THEN pack ELSE stored[1]
    BY <2>1, <2>2
  <2> QED BY <1>2, <2>1, <2>2, <2>3, <2>4
<1>5. data' \in Seq(Byte)
  BY <1>1, <1>2, <1>3, ConcatProperties
<1>6. TypeOK'
  BY <1>1, <1>2, <1>4, <1>5 DEF NetPackInv, TypeOK
<1>7. StoredKnown'
  BY <1>0, <1>1, <1>4 DEF NetPackInv, StoredKnown
<1>8. FrontWhole'
  <2> DEFINE first == IF stored = <<>> THEN pack ELSE stored[1]
             n == TotalLen(first)
             s == serialize(first)
  <2>1. SUFFICES Len(data') >= n /\ \A i \in 1..n : data'[i] = s[i]
    BY <1>4 DEF FrontWhole
  <2>2. CASE stored = <<>>
    <3>1. data = <<>>
      BY <2>2 DEF NetPackInv, FrontWhole
    <3>2. data' = serialize(pack)
      BY <3>1, <1>2, <1>3, ConcatEmptySeq
    <3> QED BY <2>2, <3>2, <1>3
  <2>3. CASE stored # <<>>
    <3>1. /\ Len(data) >= n /\ \A i \in 1..n : data[i] = s[i]
      BY <2>3 DEF NetPackInv, FrontWhole
    <3>2. stored[1] \in Pack /\ Fits(stored[1])
      BY <1>1, <2>3 DEF NetPackInv, StoredKnown
    <3>3. n \in Nat
      BY <3>2, <2>3, SerializedPack
    <3> HIDE DEF n, s
    <3>4. Len(data) \in Nat
      BY <1>1, LenProperties
    <3>5. /\ Len(data') = Len(data) + TotalLen(pack)
          /\ \A i \in 1..Len(data) : data'[i] = data[i]
      <4> DEFINE m == Len(data)
                 t == serialize(pack)
      <4>1. t \in Seq(Byte) /\ Len(t) = TotalLen(pack) /\ m \in Nat /\ data' = data \o t /\ Len(data) = m
        BY <1>2, <1>3, <3>4
      <4> HIDE DEF t, m
      <4>2. /\ Len(data \o t) = m + Len(t)
            /\ \A i \in 1..m + Len(t) : (data \o t)[i] = IF i <= m THEN data[i] ELSE t[i - m]
        BY <1>1, <4>1, Joined, Zenon
      <4>3. Len(t) \in Nat
        BY <4>1, <1>3
      <4>4. \A i \in 1..m : i \in 1..m + Len(t) /\ i <= m
        BY <4>1, <4>3
      <4> QED BY <4>1, <4>2, <4>4, Zenon
    <3>6. \A i \in 1..n : i \in 1..Len(data)
      BY <3>1, <3>3, <3>4
    <3>7. \A i \in 1..n : data'[i] = s[i]
      BY <3>1, <3>5, <3>6, Zenon
    <3> QED BY <3>1, <3>3, <3>4, <3>5, <3>7, <1>3
  <2> QED BY <2>2, <2>3
<1>9. RoundTrip' /\ LenTellsWhole' /\ HeaderSurvives'
  BY <1>2 DEF NetPackInv, RoundTrip, LenTellsWhole, HeaderSurvives
<1> QED BY <1>6, <1>7, <1>8, <1>9 DEF NetPackInv

(* What deserialize makes of the string's beginning.                       *)
LEMMA DeserializeStep ==
  ASSUME NetPackInv, Deserialize
  PROVE  NetPackInv'
<1> DEFINE first == stored[1]
<1>1. /\ stored # <<>> /\ data' = <<>> /\ stored' = <<>>
      /\ data \in Seq(Byte) /\ stored \in Seq(Pack) /\ Len(data) \in Nat
  BY LenProperties DEF NetPackInv, TypeOK, Deserialize
<1>2. PICK n \in 0..Len(data) :
        pack' = deserialize(SubSeq(data, 1, n)) /\ read' = [first |-> first, size |-> n]
  BY DEF Deserialize
<1> DEFINE str == SubSeq(data, 1, n)
           whole == TotalLen(first)
<1>3. first \in Pack /\ Known(first) /\ Fits(first)
  <2>1. 1 \in DOMAIN stored
    BY <1>1
  <2> QED BY <1>1, <2>1 DEF NetPackInv, StoredKnown
<1>4. /\ whole \in Nat /\ whole >= 29 /\ Len(data) >= whole
      /\ \A i \in 1..whole : data[i] = serialize(first)[i]
  BY <1>1, <1>3, SerializedPack DEF NetPackInv, FrontWhole, HeaderSize
<1>5. n \in Nat /\ n <= Len(data)
  BY <1>1
<1>6. /\ str \in Seq(Byte) /\ Len(str) = n
      /\ \A i \in 1..n : str[i] = data[i]
  <2>1. \A i \in 1..n : data[i] \in Byte
    BY <1>1, <1>5, ElementOfSeq
  <2>2. /\ str \in Seq(Byte)
        /\ Len(str) = IF 1 <= n THEN n - 1 + 1 ELSE 0
        /\ \A i \in 1..n - 1 + 1 : str[i] = data[1 + i - 1]
    BY <1>1, <1>5, <2>1, SubSeqProperties
  <2> HIDE DEF str
  <2>3. (IF 1 <= n THEN n - 1 + 1 ELSE 0) = n /\ n - 1 + 1 = n
    BY <1>5
  <2>4. \A i \in 1..n : 1 + i - 1 = i
    BY <1>5
  <2> QED BY <2>2, <2>3, <2>4
<1>7. Whole(first).len = whole
  BY <1>3, LenFits DEF Whole, HeaderSize, Pack
<1>8. read'.first = first /\ read'.size = n
  BY <1>2
<1>9. CASE n < 29
  <2>1. pack' = NewPack
    BY <1>2, <1>6, <1>9 DEF deserialize, TooShort, HeaderSize
  <2>2. TypeOK'
    BY <1>1, <1>2, <1>3, <1>5, <2>1, NewPackKnown DEF TypeOK, Known, Fields
  <2>3. NewPack.len = 0
    BY DEF NewPack
  <2>4. RoundTrip' /\ LenTellsWhole'
    BY <1>4, <1>5, <1>7, <1>8, <1>9, <2>1, <2>3 DEF RoundTrip, LenTellsWhole
  <2>5. HeaderSurvives'
    BY <1>8, <1>9, <2>1 DEF HeaderSurvives, HeaderSize
  <2> QED BY <1>1, <2>2, <2>4, <2>5 DEF NetPackInv, StoredKnown, FrontWhole
<1>10. CASE n >= 29
  <2>1. /\ pack' \in Pack
        /\ [pack' EXCEPT !.msg = <<>>] = [Whole(first) EXCEPT !.msg = <<>>]
        /\ pack'.len = whole
        /\ n = whole => pack' = Whole(first)
    <3>1. \A i \in 1..n : i <= whole => str[i] = serialize(first)[i]
      BY <1>4, <1>5, <1>6
    <3>2. Len(str) >= HeaderSize
      BY <1>6, <1>10 DEF HeaderSize
    <3> HIDE DEF str, first
    <3> QED BY <1>2, <1>3, <1>6, <3>1, <3>2, ReadBack, Zenon DEF str, whole
  <2>2. Known(pack')
    <3>1. Whole(first) \in Pack
      BY <1>3, <1>4, LenFits DEF Whole, Pack, HeaderSize
    <3>2. /\ pack'.seq = first.seq /\ pack'.msg_id = first.msg_id
          /\ pack'.conn_id = first.conn_id /\ pack'.uid = first.uid
      BY <2>1, <1>3 DEF Whole, Pack
    <3> QED BY <3>2, <1>3, KnownBy
  <2>3. TypeOK'
    BY <1>1, <1>2, <1>3, <1>5, <2>1, <2>2 DEF TypeOK, Known, Fields
  <2>4. RoundTrip' /\ LenTellsWhole'
    BY <1>4, <1>5, <1>7, <1>8, <1>10, <2>1 DEF RoundTrip, LenTellsWhole
  <2>5. HeaderSurvives'
    BY <1>8, <1>10, <2>1 DEF HeaderSurvives, HeaderSize
  <2> QED BY <1>1, <2>3, <2>4, <2>5 DEF NetPackInv, StoredKnown, FrontWhole
<1> QED BY <1>5, <1>9, <1>10

(* NetPackInv is inductive: each way to make a packet leaves the string    *)
(* alone, and the two that do not are the steps above.                     *)
LEMMA NetPackInduction ==
  /\ Init => NetPackInv
  /\ NetPackInv /\ [Next]_vars => NetPackInv'
<1>1. Init => NetPackInv
  <2> SUFFICES ASSUME Init PROVE NetPackInv
    OBVIOUS
  <2>1. TypeOK /\ StoredKnown /\ FrontWhole
    BY NewPackKnown DEF Init, TypeOK, Known, Fields, StoredKnown, FrontWhole
  <2> QED BY <2>1, NothingRead DEF Init, NetPackInv
<1>2. ASSUME NetPackInv, [Next]_vars PROVE NetPackInv'
  <2>1. ASSUME read' = Unread, UNCHANGED <<data, stored>>, pack' \in Pack, Known(pack')
        PROVE  NetPackInv'
    <3>1. TypeOK'
      BY <2>1, <1>2, NewPackKnown DEF NetPackInv, TypeOK, Known, Fields
    <3>2. StoredKnown' /\ FrontWhole'
      BY <2>1, <1>2 DEF NetPackInv, StoredKnown, FrontWhole
    <3>3. RoundTrip' /\ LenTellsWhole' /\ HeaderSurvives'
      <4>1. Whole(NewPack).len = 29
        BY DEF Whole, NewPack, HeaderSize
      <4>2. read'.size = 0 /\ read'.first = NewPack
        BY <2>1 DEF Unread
      <4> QED BY <2>1, <4>1, <4>2 DEF RoundTrip, LenTellsWhole, HeaderSurvives
    <3> QED BY <3>1, <3>2, <3>3 DEF NetPackInv
  <2>2. \A flag \in Flag, msg \in Payload \cup {<<>>} :
          flag \in Flag \cup {0} /\ msg \in Seq(Byte)
    <3>1. <<>> \in Seq(Byte) /\ Payload \subseteq Seq(Byte)
      BY PayloadAssumption DEF Byte
    <3> QED BY <3>1, Zenon
  <2>3. pack \in Pack /\ Known(pack)
    BY <1>2 DEF NetPackInv, TypeOK, Known, Fields
  <2>4. CASE Make
    <3>1. PICK flag \in Flag, msg \in Payload \cup {<<>>} :
            pack' = [NewPack EXCEPT !.flag = flag, !.msg = msg]
      BY <2>4 DEF Make
    <3>2. pack' \in Pack
      BY <3>1, <2>2, NewPackKnown DEF Pack
    <3>3. Known(pack')
      <4>1. /\ pack'.seq = NewPack.seq /\ pack'.msg_id = NewPack.msg_id
            /\ pack'.conn_id = NewPack.conn_id /\ pack'.uid = NewPack.uid
        BY <3>1, NewPackKnown DEF Pack
      <4> QED BY <4>1, NewPackKnown, KnownBy
    <3> QED BY <2>1, <2>4, <3>2, <3>3 DEF Make
  <2>5. CASE Answer
    <3>1. PICK flag \in Flag, msg \in Payload \cup {<<>>} :
            pack' = [pack EXCEPT !.flag = flag, !.msg = msg]
      BY <2>5 DEF Answer
    <3>2. pack' \in Pack
      BY <3>1, <2>2, <2>3 DEF Pack
    <3>3. Known(pack')
      <4>1. /\ pack'.seq = pack.seq /\ pack'.msg_id = pack.msg_id
            /\ pack'.conn_id = pack.conn_id /\ pack'.uid = pack.uid
        BY <3>1, <2>3 DEF Pack
      <4> QED BY <4>1, <2>3, KnownBy
    <3> QED BY <2>1, <2>5, <3>2, <3>3 DEF Answer
  <2>6. CASE FillIn
    <3>1. PICK ids \in Ids :
            pack' = [pack EXCEPT !.seq = ids.seq, !.msg_id = ids.msg_id,
                                 !.conn_id = ids.conn_id, !.uid = ids.uid]
      BY <2>6 DEF FillIn
    <3>2. ids \in [seq : Int, msg_id : Int, conn_id : Int, uid : Int]
      BY FieldAssumption
    <3>3. pack' \in Pack
      BY <3>1, <3>2, <2>3 DEF Pack
    <3>4. Known(pack')
      <4>1. /\ pack'.seq = ids.seq /\ pack'.msg_id = ids.msg_id
            /\ pack'.conn_id = ids.conn_id /\ pack'.uid = ids.uid
        BY <3>1, <2>3 DEF Pack
      <4>2. Known(ids)
        BY Zenon DEF Known
      <4> QED BY <4>1, <4>2, KnownBy
    <3> QED BY <2>1, <2>6, <3>3, <3>4 DEF FillIn
  <2>7. CASE Serialize
    BY <1>2, <2>7, SerializeStep
  <2>8. CASE Deserialize
    BY <1>2, <2>8, DeserializeStep
  <2>9. CASE UNCHANGED vars
    BY <1>2, <2>9 DEF vars, NetPackInv, TypeOK, StoredKnown, FrontWhole,
                      RoundTrip, LenTellsWhole, HeaderSurvives
  <2> QED BY <1>2, <2>4, <2>5, <2>6, <2>7, <2>8, <2>9 DEF Next
<1> QED BY <1>1, <1>2

-----------------------------------------------------------------------------
(* Whatever is made, serialized and read, the string begins with the whole *)
(* of its first packet, and what was read is as the properties say.        *)
THEOREM NetPackInvariance == Spec => []NetPackInv
BY NetPackInduction, PTL DEF Spec

(* The packet in hand has the fields of a packet, its numbers from one     *)
(* caller and never mixed, however it was made or read.                    *)
THEOREM PackTypeCorrect == Spec => []TypeOK
<1>1. NetPackInv => TypeOK
  BY DEF NetPackInv
<1> QED BY <1>1, NetPackInvariance, PTL

(* deserialize gives back what serialize wrote, for any values of the      *)
(* fields and every message that serialize takes: the size of its packet   *)
(* is an int32_t.                                                          *)
THEOREM PacksRoundTrip == Spec => []RoundTrip
<1>1. NetPackInv => RoundTrip
  BY DEF NetPackInv
<1> QED BY <1>1, NetPackInvariance, PTL

(* The len that was read is the size of the string exactly when the string *)
(* was the one packet, wherever the reading stopped.                       *)
THEOREM LenTellsThePack == Spec => []LenTellsWhole
<1>1. NetPackInv => LenTellsWhole
  BY DEF NetPackInv
<1> QED BY <1>1, NetPackInvariance, PTL

(* A string that holds the header gives it back, however much of the       *)
(* message is missing or has been added.                                   *)
THEOREM HeadersSurvive == Spec => []HeaderSurvives
<1>1. NetPackInv => HeaderSurvives
  BY DEF NetPackInv
<1> QED BY <1>1, NetPackInvariance, PTL

=============================================================================
