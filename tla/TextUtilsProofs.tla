-------------------------- MODULE TextUtilsProofs --------------------------
(***************************************************************************)
(* Proofs about TextUtils: any characters of one to four bytes, any sizes  *)
(* of buffers and texts, and reads that cut the bytes anywhere.            *)
(***************************************************************************)
EXTENDS TextUtils, SequenceTheorems, FiniteSetTheorems, TLAPS

-----------------------------------------------------------------------------
(* The least number principle, as a fact about sets of numbers.            *)
LEMMA LeastNumber ==
  ASSUME NEW T \in SUBSET Nat, T # {}
  PROVE  \E n \in T : \A m \in T : n <= m
<1> DEFINE R == {ss \in Nat \X Nat : ss[1] < ss[2]}
<1>1. IsWellFoundedOn(R, Nat)
  BY NatLessThanWellFounded, Zenon DEF OpToRel
<1>2. PICK n \in T : \A m \in T : <<m, n>> \notin R
  <2> HIDE DEF R
  <2> QED BY <1>1, WFMin, Zenon
<1>3. \A m \in T : n <= m
  <2> SUFFICES ASSUME NEW m \in T PROVE ~(m < n)
    OBVIOUS
  <2>1. <<m, n>> \in R <=> m < n
    OBVIOUS
  <2> QED BY <1>2, <2>1, Zenon
<1> QED BY <1>3

(* Induction, with a set in place of the predicate.                        *)
LEMMA NatInduct ==
  ASSUME NEW T, 0 \in T, \A n \in Nat : n \in T => n + 1 \in T
  PROVE  Nat \subseteq T
<1> SUFFICES ASSUME Nat \ T # {} PROVE FALSE
  OBVIOUS
<1>1. PICK n \in Nat \ T : \A m \in Nat \ T : n <= m
  BY LeastNumber
<1>2. n - 1 \in Nat
  BY <1>1
<1>3. n - 1 \in T
  BY <1>1, <1>2
<1>4. (n - 1) + 1 \in T
  BY <1>2, <1>3
<1> QED BY <1>1, <1>4

LEMMA SeqInduct ==
  ASSUME NEW S, NEW T, <<>> \in T,
         \A s \in Seq(S), e \in S : s \in T => Append(s, e) \in T
  PROVE  Seq(S) \subseteq T
<1> DEFINE U == {n \in Nat : \A s \in Seq(S) : Len(s) = n => s \in T}
<1>1. 0 \in U
  BY EmptySeq
<1>2. ASSUME NEW n \in Nat, n \in U PROVE n + 1 \in U
  <2> SUFFICES ASSUME NEW s \in Seq(S), Len(s) = n + 1 PROVE s \in T
    BY <1>2
  <2>1. s # <<>>
    BY <1>2, EmptySeq
  <2>2. PICK r \in Seq(S), e \in S : s = Append(r, e)
    BY <2>1, SequenceEmptyOrAppend
  <2>3. Len(r) = n
    <3>1. Len(s) = Len(r) + 1 /\ Len(r) \in Nat
      BY <2>2, AppendProperties, LenProperties
    <3> QED BY <1>2, <3>1
  <2> QED BY <1>2, <2>2, <2>3
<1>3. Nat \subseteq U
  <2> HIDE DEF U
  <2> QED BY <1>1, <1>2, NatInduct
<1> QED BY <1>3, LenProperties

-----------------------------------------------------------------------------
(* FlattenSeq goes along the sequences and appends each to what it has.    *)
Along(seqs, n, f) ==
  f = [i \in 1..n |-> IF i = 1 THEN seqs[i] ELSE f[i-1] \o seqs[i]]

LEMMA AlongExists ==
  ASSUME NEW seqs, NEW n \in Nat
  PROVE  \E f : Along(seqs, n, f)
<1> DEFINE T == {k \in Nat : \E f : Along(seqs, k, f)}
<1>1. 0 \in T
  <2> DEFINE f == [i \in 1..0 |-> seqs[i]]
  <2>1. Along(seqs, 0, f)
    BY DEF Along
  <2> QED BY <2>1
<1>2. ASSUME NEW k \in Nat, k \in T PROVE k + 1 \in T
  <2>1. PICK f : Along(seqs, k, f)
    BY <1>2
  <2> DEFINE g == [i \in 1..k + 1 |->
                     IF i \in 1..k THEN f[i]
                     ELSE IF i = 1 THEN seqs[i] ELSE f[i-1] \o seqs[i]]
             h == [i \in 1..k + 1 |-> IF i = 1 THEN seqs[i] ELSE g[i-1] \o seqs[i]]
  <2>2. ASSUME NEW i \in 1..k + 1 PROVE g[i] = h[i]
    <3>1. CASE i = 1
      <4>1. g[1] = seqs[1]
        BY <1>2, <2>1, <3>1 DEF Along
      <4> QED BY <3>1, <4>1, <2>2
    <3>2. CASE i # 1
      <4>1. i - 1 \in 1..k /\ i - 1 \in 1..k + 1
        BY <1>2, <2>2, <3>2
      <4>2. g[i-1] = f[i-1]
        BY <4>1
      <4>3. g[i] = f[i-1] \o seqs[i]
        <5>1. CASE i \in 1..k
          <6>1. g[i] = f[i]
            BY <5>1
          <6>2. f[i] = f[i-1] \o seqs[i]
            BY <2>1, <3>2, <5>1 DEF Along
          <6> QED BY <6>1, <6>2
        <5>2. CASE i \notin 1..k
          BY <5>2, <3>2
        <5> QED BY <5>1, <5>2
      <4>4. h[i] = g[i-1] \o seqs[i]
        BY <3>2
      <4> QED BY <4>2, <4>3, <4>4
    <3> QED BY <3>1, <3>2
  <2>3. g = h
    <3>1. DOMAIN g = 1..k + 1 /\ DOMAIN h = 1..k + 1
      OBVIOUS
    <3>2. g = [i \in 1..k + 1 |-> g[i]] /\ h = [i \in 1..k + 1 |-> h[i]]
      OBVIOUS
    <3> HIDE DEF g, h
    <3> QED BY <2>2, <3>2
  <2>4. Along(seqs, k + 1, g)
    BY <2>3 DEF Along
  <2> QED BY <1>2, <2>4
<1>3. Nat \subseteq T
  <2> HIDE DEF T
  <2> QED BY <1>1, <1>2, NatInduct
<1> QED BY <1>3

Agree(r, s, n) == \A i \in 1..n : r[i] = s[i]

(* What it has does not depend on the sequences to come.                   *)
LEMMA AlongAgree ==
  ASSUME NEW r, NEW s, NEW m \in Nat, NEW n \in Nat, NEW f, NEW g,
         Along(r, m, f), Along(s, n, g), m <= n, Agree(r, s, m)
  PROVE  Agree(f, g, m)
<1> DEFINE T == {i \in Nat : i \in 1..m => f[i] = g[i]}
<1>1. 0 \in T
  OBVIOUS
<1>2. ASSUME NEW k \in Nat, k \in T PROVE k + 1 \in T
  <2> SUFFICES ASSUME k + 1 \in 1..m PROVE f[k+1] = g[k+1]
    OBVIOUS
  <2>1. k + 1 \in 1..n /\ (k + 1) - 1 = k /\ (k # 0 => k \in 1..m) /\ (k + 1 = 1 <=> k = 0)
    OBVIOUS
  <2>2. f[k+1] = IF k = 0 THEN r[k+1] ELSE f[k] \o r[k+1]
    BY <2>1 DEF Along
  <2>3. g[k+1] = IF k = 0 THEN s[k+1] ELSE g[k] \o s[k+1]
    BY <2>1 DEF Along
  <2>4. r[k+1] = s[k+1]
    BY DEF Agree
  <2> QED BY <1>2, <2>1, <2>2, <2>3, <2>4
<1>3. Nat \subseteq T
  <2> HIDE DEF T
  <2> QED BY <1>1, <1>2, NatInduct
<1> QED BY <1>3 DEF Agree

LEMMA FlattenIs ==
  ASSUME NEW seqs, Len(seqs) \in Nat
  PROVE  \E f : /\ Along(seqs, Len(seqs), f)
                /\ FlattenSeq(seqs) = IF Len(seqs) = 0 THEN seqs ELSE f[Len(seqs)]
<1> DEFINE n == Len(seqs)
           f == CHOOSE f : Along(seqs, n, f)
<1>1. Along(seqs, n, f)
  BY AlongExists, Zenon
<1>2. FlattenSeq(seqs) = IF n = 0 THEN seqs ELSE f[n]
  BY Zenon DEF FlattenSeq, Along
<1> QED BY <1>1, <1>2

LEMMA FlattenEmpty == FlattenSeq(<<>>) = <<>>
BY DEF FlattenSeq

LEMMA FlattenAppend ==
  ASSUME NEW S, NEW seqs \in Seq(Seq(S)), NEW x \in Seq(S)
  PROVE  FlattenSeq(Append(seqs, x)) = FlattenSeq(seqs) \o x
<1> DEFINE s == Append(seqs, x)
           n == Len(seqs)
<1>1. /\ s \in Seq(Seq(S)) /\ n \in Nat /\ Len(s) = n + 1
      /\ \A i \in 1..n : s[i] = seqs[i]
      /\ s[n + 1] = x
  BY AppendProperties, LenProperties
<1> HIDE DEF s
<1>2. PICK f : /\ Along(seqs, n, f)
               /\ FlattenSeq(seqs) = IF n = 0 THEN seqs ELSE f[n]
  BY <1>1, FlattenIs
<1>3. PICK g : /\ Along(s, n + 1, g)
               /\ FlattenSeq(s) = g[n + 1]
  <2>1. n + 1 \in Nat /\ n + 1 # 0
    BY <1>1
  <2>2. \E g : /\ Along(s, Len(s), g)
               /\ FlattenSeq(s) = IF Len(s) = 0 THEN s ELSE g[Len(s)]
    BY <1>1, <2>1, FlattenIs, Zenon
  <2> QED BY <1>1, <2>1, <2>2
<1>4. g[n + 1] = IF n = 0 THEN s[n + 1] ELSE g[n] \o s[n + 1]
  <2>1. n + 1 \in 1..n + 1 /\ (n + 1 = 1 <=> n = 0) /\ (n + 1) - 1 = n
    BY <1>1
  <2>2. g = [i \in 1..n + 1 |-> IF i = 1 THEN s[i] ELSE g[i-1] \o s[i]]
    BY <1>3 DEF Along
  <2>3. g[n + 1] = IF n + 1 = 1 THEN s[n + 1] ELSE g[(n + 1) - 1] \o s[n + 1]
    <3> DEFINE k == n + 1
    <3> HIDE DEF k
    <3>1. k \in 1..k /\ g = [i \in 1..k |-> IF i = 1 THEN s[i] ELSE g[i-1] \o s[i]]
      BY <2>1, <2>2 DEF k
    <3>2. g[k] = IF k = 1 THEN s[k] ELSE g[k-1] \o s[k]
      BY <3>1, Zenon
    <3> QED BY <3>2 DEF k
  <2> QED BY <2>1, <2>3
<1>5. CASE n = 0
  <2>1. seqs = <<>> /\ FlattenSeq(seqs) = <<>>
    BY <1>2, <1>5, EmptySeq
  <2>2. <<>> \o x = x
    BY ConcatEmptySeq
  <2> QED BY <1>1, <1>3, <1>4, <1>5, <2>1, <2>2 DEF s
<1>6. CASE n # 0
  <2>1. n \in 1..n /\ n <= n + 1 /\ n + 1 \in Nat
    BY <1>1, <1>6
  <2>2. f[n] = g[n]
    <3> DEFINE m == n + 1
    <3>1. m \in Nat /\ n <= m /\ Along(s, m, g) /\ Agree(seqs, s, n)
      BY <1>1, <1>3, <2>1 DEF Agree
    <3> HIDE DEF m
    <3>2. Along(seqs, n, f) /\ n \in Nat
      BY <1>1, <1>2
    <3>3. Agree(f, g, n)
      BY <3>1, <3>2, AlongAgree, Zenon
    <3> QED BY <2>1, <3>3 DEF Agree
  <2> QED BY <1>1, <1>2, <1>3, <1>4, <1>6, <2>2 DEF s
<1> QED BY <1>5, <1>6

LEMMA FlattenType ==
  ASSUME NEW S
  PROVE  \A seqs \in Seq(Seq(S)) : FlattenSeq(seqs) \in Seq(S)
<1> DEFINE T == {seqs \in Seq(Seq(S)) : FlattenSeq(seqs) \in Seq(S)}
<1>1. <<>> \in T
  BY FlattenEmpty, EmptySeq
<1>2. ASSUME NEW s \in Seq(Seq(S)), NEW x \in Seq(S), s \in T PROVE Append(s, x) \in T
  <2>1. FlattenSeq(Append(s, x)) = FlattenSeq(s) \o x
    BY FlattenAppend
  <2>2. FlattenSeq(s) \o x \in Seq(S)
    BY <1>2, ConcatProperties
  <2> QED BY <2>1, <2>2, AppendProperties
<1>3. Seq(Seq(S)) \subseteq T
  <2> HIDE DEF T
  <2> QED BY <1>1, <1>2, SeqInduct
<1> QED BY <1>3

(* The library's fact about concatenation, quantified.                     *)
LEMMA Associative ==
  ASSUME NEW S
  PROVE  \A s, t, u \in Seq(S) : (s \o t) \o u = s \o (t \o u)
BY ConcatAssociative

LEMMA AppendBehind ==
  ASSUME NEW S, NEW s \in Seq(S), NEW t \in Seq(S), NEW e \in S
  PROVE  s \o Append(t, e) = Append(s \o t, e)
<1>1. <<e>> \in Seq(S)
  OBVIOUS
<1>2. Append(t, e) = t \o <<e>>
  BY AppendIsConcat
<1>3. s \o t \in Seq(S)
  BY ConcatProperties
<1>4. Append(s \o t, e) = (s \o t) \o <<e>>
  BY <1>3, AppendIsConcat
<1>5. (s \o t) \o <<e>> = s \o (t \o <<e>>)
  BY <1>1, ConcatAssociative
<1> QED BY <1>2, <1>4, <1>5

LEMMA FlattenConcat ==
  ASSUME NEW S, NEW a \in Seq(Seq(S))
  PROVE  \A b \in Seq(Seq(S)) : FlattenSeq(a \o b) = FlattenSeq(a) \o FlattenSeq(b)
<1> DEFINE T == {b \in Seq(Seq(S)) : FlattenSeq(a \o b) = FlattenSeq(a) \o FlattenSeq(b)}
<1>0. FlattenSeq(a) \in Seq(S)
  BY FlattenType
<1>1. <<>> \in T
  <2>1. a \o <<>> = a /\ FlattenSeq(a) \o <<>> = FlattenSeq(a)
    BY <1>0, ConcatEmptySeq
  <2> QED BY <2>1, FlattenEmpty, EmptySeq
<1>2. ASSUME NEW b \in Seq(Seq(S)), NEW x \in Seq(S), b \in T PROVE Append(b, x) \in T
  <2>1. a \o Append(b, x) = Append(a \o b, x)
    BY AppendBehind
  <2>2. FlattenSeq(Append(a \o b, x)) = FlattenSeq(a \o b) \o x
    <3>1. a \o b \in Seq(Seq(S))
      BY ConcatProperties
    <3> QED BY <3>1, FlattenAppend
  <2>3. FlattenSeq(Append(b, x)) = FlattenSeq(b) \o x
    BY FlattenAppend
  <2>4. (FlattenSeq(a) \o FlattenSeq(b)) \o x = FlattenSeq(a) \o (FlattenSeq(b) \o x)
    <3>1. FlattenSeq(b) \in Seq(S)
      BY FlattenType
    <3> QED BY <1>0, <3>1, ConcatAssociative
  <2>5. FlattenSeq(a \o b) = FlattenSeq(a) \o FlattenSeq(b)
    BY <1>2
  <2>6. FlattenSeq(a \o Append(b, x)) = FlattenSeq(a) \o FlattenSeq(Append(b, x))
    BY <2>1, <2>2, <2>3, <2>4, <2>5, Zenon
  <2> QED BY <2>6, AppendProperties
<1>3. Seq(Seq(S)) \subseteq T
  <2> HIDE DEF T
  <2> QED BY <1>1, <1>2, SeqInduct
<1> QED BY <1>3

-----------------------------------------------------------------------------
(* Counting the elements of a sequence that are in a set.                  *)
Hits(seq, set) == {i \in DOMAIN seq : seq[i] \in set}

LEMMA CountType ==
  ASSUME NEW S, NEW s \in Seq(S), NEW G
  PROVE  /\ IsFiniteSet(Hits(s, G)) /\ Count(s, G) \in Nat
         /\ Count(s, G) = Cardinality(Hits(s, G))
<1>1. Len(s) \in Nat /\ DOMAIN s = 1..Len(s)
  BY LenProperties
<1>2. IsFiniteSet(1..Len(s))
  BY <1>1, FS_Interval
<1>3. Hits(s, G) \in SUBSET (1..Len(s))
  BY <1>1 DEF Hits
<1>4. IsFiniteSet(Hits(s, G))
  BY <1>2, <1>3, FS_Subset
<1>5. Count(s, G) = Cardinality(Hits(s, G))
  BY Zenon DEF Count, Hits
<1> QED BY <1>4, <1>5, FS_CardinalityType

LEMMA CountEmpty == \A G : Count(<<>>, G) = 0
<1> SUFFICES ASSUME NEW G PROVE Count(<<>>, G) = 0
  OBVIOUS
<1>1. {i \in DOMAIN <<>> : <<>>[i] \in G} = {}
  OBVIOUS
<1> QED BY <1>1, FS_EmptySet, Zenon DEF Count

LEMMA CountAppend ==
  ASSUME NEW S, NEW s \in Seq(S), NEW e \in S, NEW G
  PROVE  Count(Append(s, e), G) = Count(s, G) + IF e \in G THEN 1 ELSE 0
<1> DEFINE t == Append(s, e)
           n == Len(s) + 1
<1>1. /\ t \in Seq(S) /\ Len(t) = n /\ t[n] = e
      /\ \A i \in 1..Len(s) : t[i] = s[i]
  BY AppendProperties
<1>2. /\ Len(s) \in Nat /\ DOMAIN s = 1..Len(s) /\ DOMAIN t = 1..n
      /\ 1..n = 1..Len(s) \cup {n} /\ n \notin 1..Len(s)
  BY <1>1, LenProperties
<1> HIDE DEF t
<1>3. Hits(t, G) = IF e \in G THEN Hits(s, G) \cup {n} ELSE Hits(s, G)
  <2> HIDE DEF n
  <2> QED BY <1>1, <1>2 DEF Hits
<1>4. n \notin Hits(s, G)
  BY <1>2 DEF Hits
<1>5. /\ IsFiniteSet(Hits(s, G)) /\ Count(s, G) \in Nat
      /\ Count(s, G) = Cardinality(Hits(s, G)) /\ Count(t, G) = Cardinality(Hits(t, G))
  BY <1>1, CountType
<1>6. Cardinality(Hits(s, G) \cup {n}) = Cardinality(Hits(s, G)) + 1
  BY <1>4, <1>5, FS_AddElement
<1> QED BY <1>3, <1>5, <1>6 DEF t

LEMMA CountConcat ==
  ASSUME NEW S, NEW a \in Seq(S), NEW G
  PROVE  \A b \in Seq(S) : Count(a \o b, G) = Count(a, G) + Count(b, G)
<1> DEFINE T == {b \in Seq(S) : Count(a \o b, G) = Count(a, G) + Count(b, G)}
<1>0. Count(a, G) \in Nat
  BY CountType
<1>1. <<>> \in T
  BY <1>0, CountEmpty, ConcatEmptySeq, EmptySeq
<1>2. ASSUME NEW b \in Seq(S), NEW e \in S, b \in T PROVE Append(b, e) \in T
  <2>1. a \o Append(b, e) = Append(a \o b, e)
    BY AppendBehind
  <2>2. a \o b \in Seq(S)
    BY ConcatProperties
  <2>3. Count(Append(a \o b, e), G) = Count(a \o b, G) + IF e \in G THEN 1 ELSE 0
    BY <2>2, CountAppend
  <2>4. Count(Append(b, e), G) = Count(b, G) + IF e \in G THEN 1 ELSE 0
    BY CountAppend
  <2>5. Count(a \o b, G) = Count(a, G) + Count(b, G) /\ Count(b, G) \in Nat
    BY <1>2, CountType
  <2>6. Count(a \o Append(b, e), G) = Count(a, G) + Count(Append(b, e), G)
    BY <1>0, <2>1, <2>3, <2>4, <2>5
  <2> QED BY <2>6, AppendProperties
<1>3. Seq(S) \subseteq T
  <2> HIDE DEF T
  <2> QED BY <1>1, <1>2, SeqInduct
<1> QED BY <1>3

(* A sequence counts no more than another, or one more at most, if its     *)
(* hits are among those of the other, but for one place.                   *)
LEMMA CountWithin ==
  ASSUME NEW S, NEW s \in Seq(S), NEW t \in Seq(S), NEW G, NEW x
  PROVE  /\ Hits(s, G) \subseteq Hits(t, G) => Count(s, G) <= Count(t, G)
         /\ Hits(s, G) \subseteq Hits(t, G) \cup {x} => Count(s, G) <= Count(t, G) + 1
<1>1. /\ IsFiniteSet(Hits(t, G)) /\ Count(t, G) \in Nat /\ Count(s, G) \in Nat
      /\ Count(s, G) = Cardinality(Hits(s, G)) /\ Count(t, G) = Cardinality(Hits(t, G))
  BY CountType
<1>2. ASSUME Hits(s, G) \subseteq Hits(t, G) PROVE Count(s, G) <= Count(t, G)
  <2>1. Hits(s, G) \in SUBSET Hits(t, G)
    BY <1>2
  <2> QED BY <1>1, <2>1, FS_Subset
<1>3. ASSUME Hits(s, G) \subseteq Hits(t, G) \cup {x} PROVE Count(s, G) <= Count(t, G) + 1
  <2> DEFINE U == Hits(t, G) \cup {x}
  <2>1. IsFiniteSet(U) /\ Cardinality(U) <= Cardinality(Hits(t, G)) + 1
    <3> DEFINE H == Hits(t, G)
    <3>1. /\ IsFiniteSet(U)
          /\ Cardinality(U) = IF x \in H THEN Cardinality(H) ELSE Cardinality(H) + 1
      BY <1>1, FS_AddElement, Zenon
    <3>2. Cardinality(H) \in Nat
      BY <1>1
    <3> HIDE DEF H, U
    <3>3. Cardinality(U) <= Cardinality(H) + 1
      BY <3>1, <3>2
    <3> QED BY <3>1, <3>3 DEF H
  <2>2. Hits(s, G) \in SUBSET U
    BY <1>3
  <2> HIDE DEF U
  <2>3. Cardinality(Hits(s, G)) <= Cardinality(U) /\ Cardinality(U) \in Nat
    BY <2>1, <2>2, FS_Subset, FS_CardinalityType
  <2> QED BY <1>1, <2>1, <2>3
<1> QED BY <1>2, <1>3

Short(S)  == {<<>>} \cup {<<c>> : c \in S}
Single(G) == {<<c>> : c \in G}

(* Where each piece is one element or none, the whole has as many of a     *)
(* kind as there are pieces of that kind.                                  *)
LEMMA CountFlatten ==
  ASSUME NEW S, NEW G
  PROVE  \A seqs \in Seq(Short(S)) : Count(FlattenSeq(seqs), G) = Count(seqs, Single(G))
<1> DEFINE T == {seqs \in Seq(Short(S)) : Count(FlattenSeq(seqs), G) = Count(seqs, Single(G))}
<1>1. <<>> \in T
  BY FlattenEmpty, CountEmpty, EmptySeq
<1>2. ASSUME NEW s \in Seq(Short(S)), NEW x \in Short(S), s \in T PROVE Append(s, x) \in T
  <2>1. Short(S) \subseteq Seq(S) /\ x \in Seq(S)
    <3>1. <<>> \in Seq(S) /\ \A c \in S : <<c>> \in Seq(S)
      OBVIOUS
    <3>2. \A y \in Short(S) : y \in Seq(S)
      BY <3>1, Zenon DEF Short
    <3> QED BY <3>2
  <2>2. s \in Seq(Seq(S)) /\ FlattenSeq(s) \in Seq(S)
    BY <2>1, SeqMonotonic, FlattenType
  <2>3. FlattenSeq(Append(s, x)) = FlattenSeq(s) \o x
    BY <2>1, <2>2, FlattenAppend
  <2>4. Count(FlattenSeq(s) \o x, G) = Count(FlattenSeq(s), G) + Count(x, G)
    BY <2>1, <2>2, CountConcat
  <2>5. Count(x, G) = IF x \in Single(G) THEN 1 ELSE 0
    <3>1. CASE x = <<>>
      <4>1. x \notin Single(G)
        BY <3>1 DEF Single
      <4> QED BY <3>1, <4>1, CountEmpty
    <3>2. ASSUME NEW c \in S, x = <<c>> PROVE Count(x, G) = IF x \in Single(G) THEN 1 ELSE 0
      <4>1. x = Append(<<>>, c) /\ <<>> \in Seq(S)
        BY <3>2
      <4>2. Count(x, G) = Count(<<>>, G) + IF c \in G THEN 1 ELSE 0
        BY <4>1, CountAppend
      <4>3. c \in G <=> x \in Single(G)
        BY <3>2 DEF Single
      <4> QED BY <4>2, <4>3, CountEmpty
    <3> QED BY <3>1, <3>2 DEF Short
  <2>6. Count(Append(s, x), Single(G)) = Count(s, Single(G)) + IF x \in Single(G) THEN 1 ELSE 0
    BY CountAppend
  <2>7. Count(FlattenSeq(Append(s, x)), G) = Count(Append(s, x), Single(G))
    BY <1>2, <2>3, <2>4, <2>5, <2>6
  <2> QED BY <2>7, AppendProperties
<1>3. Seq(Short(S)) \subseteq T
  <2> HIDE DEF T
  <2> QED BY <1>1, <1>2, SeqInduct
<1> QED BY <1>3

-----------------------------------------------------------------------------
(* Bytes, and the pieces that string_to_wstring puts together.             *)
Full(byte)  == byte[2] = Size(byte[1])
Pieces(str) == [i \in DOMAIN str |-> Converted(str, i)]

LEMMA SizeType == \A c \in Symbol : Size(c) \in 1..4
BY CharAssumption DEF Symbol, Size

LEMMA ByteType ==
  /\ \A b \in Byte : /\ b[1] \in Symbol /\ b[2] \in 1..4 /\ Size(b[1]) \in 1..4
                     /\ b[2] <= Size(b[1])
  /\ \A c \in Symbol, k \in 1..4 : k <= Size(c) => <<c, k>> \in Byte
<1>1. ASSUME NEW b \in Byte
      PROVE  /\ b[1] \in Symbol /\ b[2] \in 1..4 /\ Size(b[1]) \in 1..4
             /\ b[2] <= Size(b[1])
  <2>1. b \in Symbol \X (1..4) /\ b[2] <= Size(b[1])
    BY DEF Byte
  <2>2. b[1] \in Symbol /\ b[2] \in 1..4
    BY <2>1
  <2> QED BY <2>1, <2>2, SizeType
<1>2. ASSUME NEW c \in Symbol, NEW k \in 1..4, k <= Size(c) PROVE <<c, k>> \in Byte
  BY <1>2 DEF Byte
<1> QED BY <1>1, <1>2

(* A byte that is not its character's last gives nothing, or Bad.          *)
LEMMA PieceType ==
  ASSUME NEW str \in Seq(Byte)
  PROVE  /\ Pieces(str) \in Seq(Short(Symbol)) /\ Pieces(str) \in Seq(Seq(Symbol))
         /\ Len(Pieces(str)) = Len(str)
         /\ \A i \in 1..Len(str) :
              /\ Pieces(str)[i] = Converted(str, i)
              /\ Pieces(str)[i] \in {<<>>, <<Bad>>, <<str[i][1]>>}
              /\ ~Full(str[i]) => Pieces(str)[i] \in {<<>>, <<Bad>>}
<1> DEFINE n == Len(str)
<1>1. n \in Nat /\ DOMAIN str = 1..n /\ \A i \in 1..n : str[i] \in Byte
  BY LenProperties, ElementOfSeq
<1>2. \A i \in 1..n : Pieces(str)[i] = Converted(str, i)
  BY <1>1 DEF Pieces
<1>3. ASSUME NEW i \in 1..n
      PROVE  /\ Pieces(str)[i] \in {<<>>, <<Bad>>, <<str[i][1]>>}
             /\ ~Full(str[i]) => Pieces(str)[i] \in {<<>>, <<Bad>>}
  BY <1>2 DEF Converted, Full
<1>4. Bad \in Symbol /\ \A i \in 1..n : str[i][1] \in Symbol
  BY <1>1, ByteType DEF Symbol
<1>5. \A i \in 1..n : Pieces(str)[i] \in Short(Symbol)
  BY <1>3, <1>4 DEF Short
<1>6. Pieces(str) \in [1..n -> Short(Symbol)]
  BY <1>1, <1>2, <1>5 DEF Pieces
<1>7. Pieces(str) \in Seq(Short(Symbol)) /\ Len(Pieces(str)) = n
  BY <1>1, <1>6
<1>8. Short(Symbol) \subseteq Seq(Symbol)
  <2>1. <<>> \in Seq(Symbol) /\ \A c \in Symbol : <<c>> \in Seq(Symbol)
    OBVIOUS
  <2>2. \A y \in Short(Symbol) : y \in Seq(Symbol)
    BY <2>1, Zenon DEF Short
  <2> QED BY <2>2
<1>9. Pieces(str) \in Seq(Seq(Symbol))
  BY <1>7, <1>8, SeqMonotonic
<1> QED BY <1>2, <1>3, <1>7, <1>9

LEMMA ConvType ==
  ASSUME NEW str \in Seq(Byte)
  PROVE  string_to_wstring(str) \in Seq(Symbol) /\ string_to_wstring(str) = FlattenSeq(Pieces(str))
<1>1. string_to_wstring(str) = FlattenSeq(Pieces(str))
  BY DEF string_to_wstring, Pieces
<1> QED BY <1>1, PieceType, FlattenType

(* What a byte gives depends on the bytes around it only where a character *)
(* is cut.                                                                 *)
LEMMA PiecesConcat ==
  ASSUME NEW a \in Seq(Byte), NEW b \in Seq(Byte)
  PROVE  /\ a \o b \in Seq(Byte) /\ Len(a \o b) = Len(a) + Len(b)
         /\ Len(a) \in Nat /\ Len(b) \in Nat
         /\ \A i \in 1..Len(a) :
              /\ (a \o b)[i] = a[i]
              /\ (i # Len(a) \/ Full(a[i])) => Pieces(a \o b)[i] = Pieces(a)[i]
         /\ \A j \in 1..Len(b) :
              /\ (a \o b)[Len(a) + j] = b[j]
              /\ b[j][2] <= j => Pieces(a \o b)[Len(a) + j] = Pieces(b)[j]
<1> DEFINE w == a \o b
           m == Len(a)
           n == Len(b)
<1>1. m \in Nat /\ n \in Nat
  BY LenProperties
<1>2. /\ w \in Seq(Byte) /\ Len(w) = m + n
      /\ \A i \in 1..m + n : w[i] = IF i <= m THEN a[i] ELSE b[i - m]
  BY ConcatProperties
<1>3. /\ \A i \in 1..m : Pieces(a)[i] = Converted(a, i)
      /\ \A i \in 1..n : Pieces(b)[i] = Converted(b, i)
      /\ \A i \in 1..m + n : Pieces(w)[i] = Converted(w, i)
  BY <1>2, PieceType
<1> HIDE DEF w
<1>4. ASSUME NEW i \in 1..m
      PROVE  w[i] = a[i] /\ (i # m \/ Full(a[i]) => Pieces(w)[i] = Pieces(a)[i])
  <2>1. i \in 1..m + n /\ i <= m
    BY <1>1
  <2>2. w[i] = a[i]
    BY <1>2, <2>1, Zenon
  <2>3. ASSUME i # m \/ Full(a[i]) PROVE Converted(w, i) = Converted(a, i)
    <3> DEFINE c == a[i][1]
               k == a[i][2]
    <3>1. k \in 1..4 /\ Size(c) \in 1..4
      BY ByteType, ElementOfSeq
    <3>2. (i = Len(w) /\ k < Size(c)) <=> (i = m /\ k < Size(c))
      <4>1. i # m => i # Len(w)
        BY <1>1, <1>2
      <4>2. i = m => ~(k < Size(c))
        BY <2>3, <3>1 DEF Full
      <4> QED BY <4>1, <4>2
    <3> QED BY <2>2, <3>2 DEF Converted
  <2> QED BY <1>3, <2>1, <2>2, <2>3
<1>5. ASSUME NEW j \in 1..n
      PROVE  w[m + j] = b[j] /\ (b[j][2] <= j => Pieces(w)[m + j] = Pieces(b)[j])
  <2> DEFINE i == m + j
  <2>1. i \in 1..m + n /\ ~(i <= m) /\ i - m = j /\ (i = m + n <=> j = n)
    BY <1>1
  <2> HIDE DEF i
  <2>2. w[i] = b[j]
    BY <1>2, <2>1
  <2>3. ASSUME b[j][2] <= j PROVE Converted(w, i) = Converted(b, j)
    <3>1. b[j][2] \in 1..4
      BY ByteType, ElementOfSeq
    <3>2. ~(b[j][2] > j) /\ ~(b[j][2] > i)
      BY <1>1, <2>3, <3>1 DEF i
    <3> QED BY <1>2, <2>1, <2>2, <3>2 DEF Converted
  <2> QED BY <1>3, <2>1, <2>2, <2>3 DEF i
<1> QED BY <1>1, <1>2, <1>4, <1>5 DEF w

-----------------------------------------------------------------------------
(* The bytes of whole characters.  A byte that is not a character's first  *)
(* has the bytes of that character before it, as far as they are still on  *)
(* the wire; nothing ends within a character; and, where nothing was read, *)
(* nothing begins within one.                                              *)
InOrder(str) ==
  \A i \in DOMAIN str : \A d \in 0..i - 1 :
    d < str[i][2] => str[i - d] = <<str[i][1], str[i][2] - d>>

EndsWhole(str)   == str # <<>> => Full(str[Len(str)])
BeginsWhole(str) == \A i \in DOMAIN str : str[i][2] <= i

LEMMA InOrderConcat ==
  ASSUME NEW a \in Seq(Byte), NEW b \in Seq(Byte),
         InOrder(a), EndsWhole(a), InOrder(b), EndsWhole(b), BeginsWhole(b)
  PROVE  /\ InOrder(a \o b) /\ EndsWhole(a \o b)
         /\ BeginsWhole(a) => BeginsWhole(a \o b)
<1> DEFINE w == a \o b
           m == Len(a)
           n == Len(b)
<1>1. /\ w \in Seq(Byte) /\ Len(w) = m + n /\ m \in Nat /\ n \in Nat
      /\ \A i \in 1..m : w[i] = a[i]
      /\ \A j \in 1..n : w[m + j] = b[j]
  BY PiecesConcat
<1>2. DOMAIN w = 1..m + n /\ DOMAIN a = 1..m /\ DOMAIN b = 1..n
  BY <1>1, LenProperties
<1>3. \A j \in 1..n : b[j][2] \in 1..4 /\ b[j][2] <= j
  BY <1>2, ByteType, ElementOfSeq DEF BeginsWhole
<1>4. (a = <<>> <=> m = 0) /\ (b = <<>> <=> n = 0) /\ (w = <<>> <=> m + n = 0)
  BY <1>1, EmptySeq
<1> HIDE DEF w, m, n
<1>5. ASSUME NEW i \in 1..m + n, NEW d \in 0..i - 1, d < w[i][2]
      PROVE  w[i - d] = <<w[i][1], w[i][2] - d>>
  <2>1. CASE i <= m
    <3>1. i \in 1..m /\ i - d \in 1..m
      BY <1>1, <1>5, <2>1
    <3>2. w[i] = a[i] /\ w[i - d] = a[i - d]
      BY <1>1, <3>1
    <3> QED BY <1>2, <1>5, <3>1, <3>2 DEF InOrder
  <2>2. CASE ~(i <= m)
    <3> DEFINE j == i - m
    <3>1. j \in 1..n /\ i = m + j
      BY <1>1, <2>2
    <3>2. w[i] = b[j] /\ b[j][2] \in 1..4 /\ b[j][2] <= j
      BY <1>1, <1>3, <3>1
    <3>3. d \in 0..j - 1 /\ j - d \in 1..n /\ i - d = m + (j - d)
      BY <1>1, <1>5, <3>1, <3>2
    <3>4. w[i - d] = b[j - d]
      BY <1>1, <3>3
    <3> QED BY <1>2, <1>5, <3>1, <3>2, <3>3, <3>4 DEF InOrder
  <2> QED BY <2>1, <2>2
<1>6. InOrder(w)
  BY <1>2, <1>5 DEF InOrder
<1>7. EndsWhole(w)
  <2>1. CASE n = 0
    <3>1. Len(w) = m
      BY <1>1, <2>1
    <3>2. w # <<>> => m \in 1..m /\ a # <<>>
      BY <1>1, <1>4, <2>1
    <3>3. w # <<>> => w[Len(w)] = a[Len(a)]
      BY <1>1, <3>1, <3>2 DEF m
    <3> QED BY <3>2, <3>3 DEF EndsWhole
  <2>2. CASE n # 0
    <3>1. n \in 1..n /\ b # <<>>
      BY <1>1, <1>4, <2>2
    <3>2. w[Len(w)] = b[Len(b)]
      BY <1>1, <3>1 DEF n
    <3> QED BY <3>1, <3>2 DEF EndsWhole
  <2> QED BY <2>1, <2>2
<1>8. ASSUME BeginsWhole(a) PROVE BeginsWhole(w)
  <2> SUFFICES ASSUME NEW i \in 1..m + n PROVE w[i][2] <= i
    BY <1>2 DEF BeginsWhole
  <2>1. CASE i <= m
    <3>1. i \in 1..m
      BY <1>1, <2>1
    <3> QED BY <1>1, <1>2, <1>8, <3>1 DEF BeginsWhole
  <2>2. CASE ~(i <= m)
    <3> DEFINE j == i - m
    <3>1. j \in 1..n /\ i = m + j
      BY <1>1, <2>2
    <3>2. w[i] = b[j] /\ b[j][2] \in 1..4 /\ b[j][2] <= j
      BY <1>1, <1>3, <3>1
    <3> QED BY <1>1, <3>1, <3>2
  <2> QED BY <2>1, <2>2
<1> QED BY <1>6, <1>7, <1>8 DEF w

(* Bytes with whole characters before them are read as such.               *)
LEMMA ConvConcat ==
  ASSUME NEW a \in Seq(Byte), NEW b \in Seq(Byte), EndsWhole(a), BeginsWhole(b)
  PROVE  string_to_wstring(a \o b) = string_to_wstring(a) \o string_to_wstring(b)
<1> DEFINE m == Len(a)
           n == Len(b)
           p == Pieces(a)
           q == Pieces(b)
           r == Pieces(a \o b)
<1>1. /\ m \in Nat /\ n \in Nat /\ a \o b \in Seq(Byte) /\ Len(a \o b) = m + n
      /\ \A i \in 1..m : i # m \/ Full(a[i]) => r[i] = p[i]
      /\ \A j \in 1..n : b[j][2] <= j => r[m + j] = q[j]
  BY PiecesConcat
<1>2. /\ p \in Seq(Seq(Symbol)) /\ q \in Seq(Seq(Symbol)) /\ r \in Seq(Seq(Symbol))
      /\ Len(p) = m /\ Len(q) = n /\ Len(r) = m + n
  BY <1>1, PieceType
<1>3. m # 0 => Full(a[m])
  BY EmptySeq DEF EndsWhole
<1>4. \A j \in 1..n : b[j][2] <= j
  BY LenProperties DEF BeginsWhole
<1> HIDE DEF p, q, r
<1>5. r = p \o q
  <2>1. /\ p \o q \in Seq(Seq(Symbol)) /\ Len(p \o q) = m + n
        /\ \A i \in 1..m + n : (p \o q)[i] = IF i <= m THEN p[i] ELSE q[i - m]
    <3> HIDE DEF m, n
    <3> QED BY <1>2, ConcatProperties
  <2> HIDE DEF m, n
  <2>2. ASSUME NEW i \in 1..m + n PROVE r[i] = (p \o q)[i]
    <3>1. CASE i <= m
      <4>1. i \in 1..m /\ m # 0
        BY <1>1, <3>1
      <4>2. i # m \/ Full(a[i])
        BY <1>3, <4>1
      <4> QED BY <1>1, <2>1, <3>1, <4>1, <4>2
    <3>2. CASE ~(i <= m)
      <4> DEFINE j == i - m
      <4>1. j \in 1..n /\ i = m + j
        BY <1>1, <3>2
      <4>2. r[i] = q[j]
        BY <1>1, <1>4, <4>1
      <4> QED BY <2>1, <3>2, <4>2
    <3> QED BY <3>1, <3>2
  <2>3. Len(r) = Len(p \o q) /\ \A i \in 1..Len(r) : r[i] = (p \o q)[i]
    BY <1>2, <2>1, <2>2
  <2> QED BY <1>2, <2>1, <2>3, SeqEqual
<1>6. FlattenSeq(p \o q) = FlattenSeq(p) \o FlattenSeq(q)
  BY <1>2, FlattenConcat
<1> QED BY <1>1, <1>5, <1>6, ConvType DEF p, q, r

-----------------------------------------------------------------------------
(* What Utf8 gives is whole characters, and reads as the text it is of.    *)
LEMMA FlattenNothing ==
  ASSUME NEW n \in Nat
  PROVE  /\ [i \in 1..n |-> <<>>] \in Seq(Seq(Symbol)) /\ Len([i \in 1..n |-> <<>>]) = n
         /\ FlattenSeq([i \in 1..n |-> <<>>]) = <<>>
<1> DEFINE none(k) == [i \in 1..k |-> <<>>]
           T == {k \in Nat : FlattenSeq(none(k)) = <<>>}
<1>0. <<>> \in Seq(Symbol)
  OBVIOUS
<1>1. \A k \in Nat : none(k) \in Seq(Seq(Symbol)) /\ Len(none(k)) = k
  BY <1>0
<1>2. 0 \in T
  <2>1. none(0) = <<>>
    OBVIOUS
  <2> QED BY <2>1, FlattenEmpty
<1>3. ASSUME NEW k \in Nat, k \in T PROVE k + 1 \in T
  <2>1. k + 1 \in Nat
    OBVIOUS
  <2>2. none(k + 1) = Append(none(k), <<>>)
    <3> DEFINE s == none(k)
               t == Append(s, <<>>)
               u == none(k + 1)
    <3>1. /\ t \in Seq(Seq(Symbol)) /\ Len(t) = k + 1 /\ Len(s) = k
          /\ \A i \in 1..k : t[i] = s[i]
          /\ t[k + 1] = <<>>
      BY <1>0, <1>1, AppendProperties
    <3>2. u \in Seq(Seq(Symbol)) /\ Len(u) = k + 1
      BY <1>1, <2>1
    <3>3. \A i \in 1..k : s[i] = <<>>
      OBVIOUS
    <3>4. \A i \in 1..k + 1 : u[i] = <<>>
      OBVIOUS
    <3> HIDE DEF s, t, u
    <3>5. \A i \in 1..k + 1 : u[i] = t[i]
      BY <3>1, <3>3, <3>4
    <3>6. u = t
      BY <3>1, <3>2, <3>5, SeqEqual
    <3> QED BY <3>6 DEF s, t, u
  <2>3. FlattenSeq(Append(none(k), <<>>)) = FlattenSeq(none(k)) \o <<>>
    <3>1. none(k) \in Seq(Seq(Symbol))
      BY <1>1
    <3> HIDE DEF none
    <3> QED BY <1>0, <3>1, FlattenAppend
  <2>4. FlattenSeq(none(k)) = <<>> /\ <<>> \o <<>> = <<>>
    BY <1>0, <1>3, ConcatEmptySeq
  <2>5. FlattenSeq(none(k + 1)) = <<>>
    BY <2>2, <2>3, <2>4
  <2> QED BY <2>1, <2>5
<1>4. Nat \subseteq T
  <2> HIDE DEF T
  <2> QED BY <1>2, <1>3, NatInduct
<1> QED BY <1>1, <1>4

LEMMA CodedIsWhole ==
  ASSUME NEW c \in Symbol
  PROVE  /\ Coded(c) \in Seq(Byte)
         /\ InOrder(Coded(c)) /\ EndsWhole(Coded(c)) /\ BeginsWhole(Coded(c))
         /\ string_to_wstring(Coded(c)) = <<c>>
<1> DEFINE n == Size(c)
           s == Coded(c)
<1>1. n \in 1..4 /\ n \in Nat /\ n - 1 \in Nat /\ n \in 1..n
  BY SizeType
<1>2. \A k \in 1..n : <<c, k>> \in Byte
  <2> TAKE k \in 1..n
  <2>1. k \in 1..4 /\ k <= Size(c)
    BY <1>1
  <2> QED BY <2>1, ByteType, Zenon
<1>3. /\ s \in Seq(Byte) /\ Len(s) = n /\ DOMAIN s = 1..n
      /\ \A k \in 1..n : s[k] = <<c, k>>
  BY <1>1, <1>2 DEF Coded
<1> HIDE DEF s
<1>4. InOrder(s) /\ EndsWhole(s) /\ BeginsWhole(s)
  <2>1. \A k \in 1..n : s[k][1] = c /\ s[k][2] = k
    BY <1>3
  <2>2. ASSUME NEW i \in 1..n, NEW d \in 0..i - 1 PROVE s[i - d] = <<s[i][1], s[i][2] - d>>
    <3>1. i - d \in 1..n
      BY <1>1
    <3> QED BY <1>3, <2>1, <3>1
  <2>3. s[Len(s)][2] = Size(s[Len(s)][1])
    BY <1>1, <1>3, <2>1
  <2>4. InOrder(s)
    BY <1>3, <2>2 DEF InOrder
  <2>5. BeginsWhole(s)
    BY <1>1, <1>3, <2>1 DEF BeginsWhole
  <2> QED BY <2>3, <2>4, <2>5 DEF EndsWhole, Full
<1>5. string_to_wstring(s) = <<c>>
  <2> DEFINE p == Pieces(s)
             e == [i \in 1..n - 1 |-> <<>>]
             t == Append(e, <<c>>)
  <2>1. <<c>> \in Seq(Symbol)
    OBVIOUS
  <2>2. e \in Seq(Seq(Symbol)) /\ Len(e) = n - 1 /\ FlattenSeq(e) = <<>>
    BY <1>1, FlattenNothing
  <2>3. \A i \in 1..n - 1 : e[i] = <<>>
    OBVIOUS
  <2> HIDE DEF e
  <2>4. /\ t \in Seq(Seq(Symbol)) /\ Len(t) = (n - 1) + 1
        /\ \A i \in 1..n - 1 : t[i] = e[i]
        /\ t[(n - 1) + 1] = <<c>>
    BY <2>1, <2>2, AppendProperties
  <2>5. FlattenSeq(t) = <<>> \o <<c>>
    BY <2>1, <2>2, FlattenAppend
  <2>6. /\ p \in Seq(Seq(Symbol)) /\ Len(p) = n
        /\ \A i \in 1..n : p[i] = Converted(s, i)
    BY <1>3, PieceType
  <2>7. ASSUME NEW i \in 1..n PROVE Converted(s, i) = IF i = n THEN <<c>> ELSE <<>>
    <3>1. s[i][1] = c /\ s[i][2] = i /\ Len(s) = n
      BY <1>3
    <3> QED BY <1>1, <3>1 DEF Converted
  <2> HIDE DEF p, t, n
  <2>8. \A i \in 1..n : p[i] = t[i]
    <3> TAKE i \in 1..n
    <3>1. CASE i = n
      <4>1. (n - 1) + 1 = n
        BY <1>1
      <4> QED BY <2>4, <2>6, <2>7, <3>1, <4>1
    <3>2. CASE i # n
      <4>1. i \in 1..n - 1
        BY <1>1, <3>2
      <4> QED BY <2>3, <2>4, <2>6, <2>7, <3>2, <4>1
    <3> QED BY <3>1, <3>2
  <2>9. Len(t) = Len(p)
    BY <1>1, <2>4, <2>6
  <2>10. p = t
    BY <2>4, <2>6, <2>8, <2>9, SeqEqual
  <2>11. <<>> \o <<c>> = <<c>>
    BY <2>1, ConcatEmptySeq
  <2>12. string_to_wstring(s) = FlattenSeq(p)
    BY <1>3, ConvType DEF p
  <2> QED BY <2>5, <2>10, <2>11, <2>12
<1> QED BY <1>3, <1>4, <1>5 DEF s

LEMMA Utf8Append ==
  ASSUME NEW text \in Seq(Symbol), NEW c \in Symbol
  PROVE  Utf8(Append(text, c)) = Utf8(text) \o Coded(c)
<1> DEFINE t == Append(text, c)
           n == Len(text)
           p == [i \in DOMAIN text |-> Coded(text[i])]
           q == [i \in DOMAIN t |-> Coded(t[i])]
           r == Append(p, Coded(c))
<1>1. /\ t \in Seq(Symbol) /\ Len(t) = n + 1 /\ n \in Nat
      /\ DOMAIN text = 1..n /\ DOMAIN t = 1..n + 1
      /\ \A i \in 1..n : t[i] = text[i]
      /\ t[n + 1] = c
  BY AppendProperties, LenProperties
<1>2. \A i \in 1..n : text[i] \in Symbol
  BY ElementOfSeq
<1>3. \A i \in 1..n + 1 : t[i] \in Symbol
  BY <1>1, ElementOfSeq
<1>4. \A d \in Symbol : Coded(d) \in Seq(Byte)
  BY CodedIsWhole
<1>5. p \in Seq(Seq(Byte)) /\ Len(p) = n /\ \A i \in 1..n : p[i] = Coded(text[i])
  BY <1>1, <1>2, <1>4
<1> HIDE DEF t
<1>6. q \in Seq(Seq(Byte)) /\ Len(q) = n + 1 /\ \A i \in 1..n + 1 : q[i] = Coded(t[i])
  BY <1>1, <1>3, <1>4
<1> HIDE DEF p, q
<1>7. /\ r \in Seq(Seq(Byte)) /\ Len(r) = n + 1
      /\ \A i \in 1..n : r[i] = p[i]
      /\ r[n + 1] = Coded(c)
  BY <1>4, <1>5, AppendProperties
<1> HIDE DEF r
<1>8. \A i \in 1..n + 1 : q[i] = r[i]
  <2> TAKE i \in 1..n + 1
  <2>1. CASE i \in 1..n
    <3>1. q[i] = Coded(t[i]) /\ r[i] = p[i] /\ p[i] = Coded(text[i]) /\ t[i] = text[i]
      BY <1>1, <1>5, <1>6, <1>7, <2>1
    <3> QED BY <3>1
  <2>2. CASE i = n + 1
    <3>1. q[i] = Coded(t[i])
      BY <1>6
    <3> QED BY <1>1, <1>7, <2>2, <3>1
  <2> QED BY <1>1, <2>1, <2>2
<1>9. q = r
  BY <1>6, <1>7, <1>8, SeqEqual
<1>10. FlattenSeq(r) = FlattenSeq(p) \o Coded(c)
  BY <1>4, <1>5, FlattenAppend DEF r
<1> QED BY <1>9, <1>10 DEF Utf8, p, q, t

LEMMA Utf8IsWhole ==
  \A text \in Seq(Symbol) :
    /\ Utf8(text) \in Seq(Byte)
    /\ InOrder(Utf8(text)) /\ EndsWhole(Utf8(text)) /\ BeginsWhole(Utf8(text))
    /\ string_to_wstring(Utf8(text)) = text
<1> DEFINE Good(text) ==
             /\ Utf8(text) \in Seq(Byte)
             /\ InOrder(Utf8(text)) /\ EndsWhole(Utf8(text)) /\ BeginsWhole(Utf8(text))
             /\ string_to_wstring(Utf8(text)) = text
           T == {text \in Seq(Symbol) : Good(text)}
<1>1. <<>> \in T
  <2>1. [i \in DOMAIN <<>> |-> Coded(<<>>[i])] = <<>>
    OBVIOUS
  <2>2. Utf8(<<>>) = <<>>
    BY <2>1, FlattenEmpty DEF Utf8
  <2>3. <<>> \in Seq(Byte) /\ <<>> \in Seq(Symbol) /\ DOMAIN <<>> = {}
    OBVIOUS
  <2>4. InOrder(<<>>) /\ EndsWhole(<<>>) /\ BeginsWhole(<<>>)
    BY <2>3 DEF InOrder, EndsWhole, BeginsWhole
  <2>5. string_to_wstring(<<>>) = <<>>
    <3>1. Pieces(<<>>) = <<>>
      BY DEF Pieces
    <3> QED BY <2>3, <3>1, FlattenEmpty, ConvType
  <2> QED BY <2>2, <2>3, <2>4, <2>5
<1>2. ASSUME NEW text \in Seq(Symbol), NEW c \in Symbol, text \in T PROVE Append(text, c) \in T
  <2> DEFINE u == Utf8(text)
             b == Coded(c)
  <2>1. Utf8(Append(text, c)) = u \o b
    BY Utf8Append
  <2>2. /\ b \in Seq(Byte) /\ InOrder(b) /\ EndsWhole(b) /\ BeginsWhole(b)
        /\ string_to_wstring(b) = <<c>>
    BY CodedIsWhole
  <2>3. /\ u \in Seq(Byte) /\ InOrder(u) /\ EndsWhole(u) /\ BeginsWhole(u)
        /\ string_to_wstring(u) = text
    BY <1>2
  <2> HIDE DEF u, b
  <2>4. u \o b \in Seq(Byte)
    BY <2>2, <2>3, PiecesConcat
  <2>5. InOrder(u \o b) /\ EndsWhole(u \o b) /\ BeginsWhole(u \o b)
    BY <2>2, <2>3, InOrderConcat
  <2>6. string_to_wstring(u \o b) = Append(text, c)
    <3>1. string_to_wstring(u \o b) = text \o <<c>>
      BY <2>2, <2>3, ConvConcat
    <3> QED BY <3>1, AppendIsConcat
  <2> QED BY <2>1, <2>4, <2>5, <2>6, AppendProperties
<1>3. Seq(Symbol) \subseteq T
  <2> HIDE DEF T
  <2> QED BY <1>1, <1>2, SeqInduct
<1> QED BY <1>3

-----------------------------------------------------------------------------
(* Cutting the wire.                                                       *)
LEMMA RestInOrder ==
  ASSUME NEW a \in Seq(Byte), NEW b \in Seq(Byte), a # <<>>,
         InOrder(a \o b), EndsWhole(a \o b)
  PROVE  /\ InOrder(b) /\ EndsWhole(b)
         /\ Full(a[Len(a)]) => BeginsWhole(b)
         /\ \A j \in 1..Len(b) :
              b[j][2] > j => a[Len(a)] = <<b[j][1], b[j][2] - j>>
<1> DEFINE w == a \o b
           m == Len(a)
           n == Len(b)
<1>1. /\ w \in Seq(Byte) /\ Len(w) = m + n /\ m \in Nat /\ n \in Nat
      /\ \A i \in 1..m : w[i] = a[i]
      /\ \A j \in 1..n : w[m + j] = b[j]
  BY PiecesConcat
<1>2. /\ DOMAIN w = 1..m + n /\ DOMAIN b = 1..n /\ m \in 1..m
      /\ (b = <<>> <=> n = 0) /\ (w = <<>> <=> m + n = 0)
  BY <1>1, LenProperties, EmptySeq
<1>3. \A j \in 1..n : b[j][2] \in 1..4
  BY ByteType, ElementOfSeq
<1>4. Full(a[m]) <=> a[m][2] = Size(a[m][1])
  BY DEF Full
<1> HIDE DEF w, m, n
<1>5. \A i \in 1..m + n : \A d \in 0..i - 1 :
        d < w[i][2] => w[i - d] = <<w[i][1], w[i][2] - d>>
  BY <1>2 DEF InOrder, w
<1>6. InOrder(b)
  <2> SUFFICES ASSUME NEW j \in 1..n, NEW d \in 0..j - 1, d < b[j][2]
               PROVE  b[j - d] = <<b[j][1], b[j][2] - d>>
    BY <1>2 DEF InOrder
  <2>1. /\ m + j \in 1..m + n /\ d \in 0..(m + j) - 1 /\ j - d \in 1..n
        /\ (m + j) - d = m + (j - d)
    BY <1>1
  <2>2. w[m + j] = b[j] /\ w[m + (j - d)] = b[j - d]
    BY <1>1, <2>1
  <2> QED BY <1>5, <2>1, <2>2
<1>7. EndsWhole(b)
  <2> SUFFICES ASSUME n # 0 PROVE Full(b[n])
    BY <1>2 DEF EndsWhole, n
  <2>1. n \in 1..n /\ w # <<>> /\ Len(w) = m + n
    BY <1>1, <1>2
  <2>2. w[Len(w)] = b[n]
    BY <1>1, <2>1
  <2> QED BY <2>1, <2>2 DEF EndsWhole, w
<1>8. ASSUME NEW j \in 1..n, b[j][2] > j PROVE a[m] = <<b[j][1], b[j][2] - j>>
  <2>1. m + j \in 1..m + n /\ j \in 0..(m + j) - 1 /\ (m + j) - j = m
    BY <1>1, <1>2
  <2>2. w[m + j] = b[j] /\ w[m] = a[m] /\ j < b[j][2]
    BY <1>1, <1>2, <1>3, <1>8
  <2> QED BY <1>5, <2>1, <2>2
<1>9. ASSUME Full(a[m]) PROVE BeginsWhole(b)
  <2> SUFFICES ASSUME NEW j \in 1..n, b[j][2] > j PROVE FALSE
    BY <1>2, <1>3 DEF BeginsWhole
  <2>1. a[m][1] = b[j][1] /\ a[m][2] = b[j][2] - j
    BY <1>8
  <2>2. b[j] \in Byte
    BY ElementOfSeq DEF n
  <2>3. b[j][2] <= Size(b[j][1]) /\ Size(b[j][1]) \in 1..4
    BY <2>2, ByteType
  <2> QED BY <1>3, <1>4, <1>9, <2>1, <2>3
<1> QED BY <1>6, <1>7, <1>8, <1>9 DEF m, n

(* The byte of a NUL, and no other, gives a NUL, wherever it stands.       *)
LEMMA NulPiece ==
  ASSUME NEW str \in Seq(Byte), NEW i \in 1..Len(str)
  PROVE  Pieces(str)[i] \in Single({NUL}) <=> str[i] = <<NUL, 1>>
<1> DEFINE b == str[i]
<1>1. Size(NUL) = 1 /\ NUL # Bad
  BY CharAssumption DEF Size, NUL, Bad
<1>2. b \in Byte
  BY ElementOfSeq
<1>3. /\ b[1] \in Symbol /\ b[2] \in 1..4 /\ b[2] <= Size(b[1]) /\ Size(b[1]) \in 1..4
      /\ b = <<b[1], b[2]>>
  BY <1>2, ByteType DEF Byte
<1>4. i \in Nat /\ i >= 1
  BY LenProperties
<1>5. Pieces(str)[i] = Converted(str, i) /\ Pieces(str)[i] \in {<<>>, <<Bad>>, <<b[1]>>}
  BY PieceType
<1> HIDE DEF b
<1>6. ASSUME Pieces(str)[i] \in Single({NUL}) PROVE b = <<NUL, 1>>
  <2>1. Pieces(str)[i] = <<NUL>>
    BY <1>6 DEF Single
  <2>2. b[1] = NUL
    BY <1>1, <1>5, <2>1
  <2>3. b[2] = 1
    BY <1>1, <1>3, <2>2
  <2> QED BY <1>3, <2>2, <2>3
<1>7. ASSUME b = <<NUL, 1>> PROVE Pieces(str)[i] \in Single({NUL})
  <2>1. b[1] = NUL /\ b[2] = 1
    BY <1>7
  <2>2. Converted(str, i) = <<NUL>>
    BY <1>1, <1>4, <2>1 DEF Converted, b
  <2> QED BY <1>5, <2>2 DEF Single
<1> QED BY <1>6, <1>7 DEF b

WholeSymbols == Symbol \ {Bad}

(* A cut costs no NUL, and no more than one whole character, that one only *)
(* whose bytes it parts.                                                   *)
LEMMA CutLoss ==
  ASSUME NEW a \in Seq(Byte), NEW b \in Seq(Byte), a # <<>>,
         InOrder(a \o b), EndsWhole(a \o b)
  PROVE  LET conv(str) == string_to_wstring(str)
         IN  /\ Count(conv(a \o b), {NUL}) = Count(conv(a), {NUL}) + Count(conv(b), {NUL})
             /\ Count(conv(a \o b), WholeSymbols)
                  <= Count(conv(a), WholeSymbols) + Count(conv(b), WholeSymbols) + 1
<1> DEFINE w == a \o b
           m == Len(a)
           n == Len(b)
           p == Pieces(a)
           q == Pieces(b)
           r == Pieces(w)
           t == p \o q
           G == Single({NUL})
           H == Single(WholeSymbols)
<1>1. /\ w \in Seq(Byte) /\ Len(w) = m + n /\ m \in Nat /\ n \in Nat
      /\ \A i \in 1..m : w[i] = a[i] /\ (i # m \/ Full(a[i]) => r[i] = p[i])
      /\ \A j \in 1..n : w[m + j] = b[j] /\ (b[j][2] <= j => r[m + j] = q[j])
  BY PiecesConcat
<1>2. /\ p \in Seq(Short(Symbol)) /\ Len(p) = m
      /\ q \in Seq(Short(Symbol)) /\ Len(q) = n
      /\ r \in Seq(Short(Symbol)) /\ Len(r) = m + n
      /\ \A i \in 1..m + n : ~Full(w[i]) => r[i] \in {<<>>, <<Bad>>}
  BY <1>1, PieceType
<1>3. /\ \A i \in 1..m : p[i] \in G <=> a[i] = <<NUL, 1>>
      /\ \A j \in 1..n : q[j] \in G <=> b[j] = <<NUL, 1>>
      /\ \A i \in 1..m + n : r[i] \in G <=> w[i] = <<NUL, 1>>
  BY <1>1, NulPiece
<1>4. /\ m # 0
      /\ \A j \in 1..n : b[j][2] > j => a[m] = <<b[j][1], b[j][2] - j>>
      /\ \A j \in 1..n : b[j] \in Byte
  BY EmptySeq, RestInOrder, ElementOfSeq
<1>5. /\ Count(string_to_wstring(a), {NUL}) = Count(p, G)
      /\ Count(string_to_wstring(b), {NUL}) = Count(q, G)
      /\ Count(string_to_wstring(w), {NUL}) = Count(r, G)
      /\ Count(string_to_wstring(a), WholeSymbols) = Count(p, H)
      /\ Count(string_to_wstring(b), WholeSymbols) = Count(q, H)
      /\ Count(string_to_wstring(w), WholeSymbols) = Count(r, H)
  <2>1. /\ string_to_wstring(a) = FlattenSeq(p)
        /\ string_to_wstring(b) = FlattenSeq(q)
        /\ string_to_wstring(w) = FlattenSeq(r)
    BY <1>1, ConvType
  <2> HIDE DEF p, q, r, w
  <2> QED BY <1>2, <2>1, CountFlatten
<1>6. <<>> \notin H /\ <<Bad>> \notin H
  BY DEF Single, WholeSymbols
<1> HIDE DEF w, p, q, r, G, H
<1>7. /\ t \in Seq(Short(Symbol)) /\ Len(t) = m + n
      /\ \A i \in 1..m + n : t[i] = IF i <= m THEN p[i] ELSE q[i - m]
  <2> HIDE DEF m, n
  <2> QED BY <1>2, ConcatProperties
<1>8. Count(t, G) = Count(p, G) + Count(q, G) /\ Count(t, H) = Count(p, H) + Count(q, H)
  BY <1>2, CountConcat
<1>9. DOMAIN t = 1..m + n /\ DOMAIN r = 1..m + n
  BY <1>2, <1>7, LenProperties
<1> HIDE DEF t, m, n
<1>10. \A i \in 1..m + n : r[i] \in G <=> t[i] \in G
  <2> TAKE i \in 1..m + n
  <2>1. CASE i <= m
    <3>1. i \in 1..m
      BY <1>1, <2>1
    <3> QED BY <1>1, <1>3, <1>7, <2>1, <3>1
  <2>2. CASE ~(i <= m)
    <3>1. i - m \in 1..n /\ m + (i - m) = i
      BY <1>1, <2>2
    <3>2. w[i] = b[i - m] /\ t[i] = q[i - m]
      BY <1>1, <1>7, <2>2, <3>1
    <3> QED BY <1>3, <3>1, <3>2
  <2> QED BY <2>1, <2>2
<1>11. Count(r, G) = Count(t, G)
  <2>1. Hits(r, G) = Hits(t, G)
    BY <1>9, <1>10 DEF Hits
  <2>2. Count(r, G) = Cardinality(Hits(r, G)) /\ Count(t, G) = Cardinality(Hits(t, G))
    BY <1>2, <1>7, CountType
  <2> QED BY <2>1, <2>2
<1> DEFINE c == a[m][1]
           x == m + (Size(c) - a[m][2])
<1>12. ASSUME NEW i \in 1..m + n, r[i] \in H PROVE t[i] \in H \/ i = x
  <2>0. Full(w[i])
    BY <1>2, <1>6, <1>12
  <2>1. CASE i <= m
    <3>1. i \in 1..m
      BY <1>1, <2>1
    <3>2. r[i] = p[i] /\ t[i] = p[i]
      BY <1>1, <1>7, <2>0, <2>1, <3>1
    <3> QED BY <1>12, <3>2
  <2>2. CASE ~(i <= m)
    <3> DEFINE j == i - m
    <3>1. j \in 1..n /\ m + j = i
      BY <1>1, <2>2
    <3>2. w[i] = b[j] /\ t[i] = q[j] /\ (b[j][2] <= j => r[i] = q[j])
      BY <1>1, <1>7, <2>2, <3>1
    <3>3. b[j][2] \in 1..4 /\ Size(b[j][1]) \in 1..4 /\ b[j][2] = Size(b[j][1])
      BY <1>4, <2>0, <3>1, <3>2, ByteType DEF Full
    <3>4. CASE b[j][2] <= j
      BY <1>12, <3>2, <3>4
    <3>5. CASE ~(b[j][2] <= j)
      <4>1. a[m] = <<b[j][1], b[j][2] - j>>
        <5>1. b[j][2] > j
          BY <1>1, <3>1, <3>3, <3>5
        <5> HIDE DEF j
        <5> QED BY <1>4, <3>1, <5>1, Zenon
      <4>2. c = b[j][1] /\ a[m][2] = b[j][2] - j
        BY <4>1
      <4>3. x = m + (b[j][2] - (b[j][2] - j))
        BY <3>3, <4>2
      <4> QED BY <1>1, <3>1, <3>3, <4>3
    <3> QED BY <3>4, <3>5
  <2> QED BY <2>1, <2>2
<1>13. Count(r, H) <= Count(t, H) + 1
  <2> HIDE DEF x
  <2>1. Hits(r, H) \subseteq Hits(t, H) \cup {x}
    BY <1>9, <1>12 DEF Hits
  <2> QED BY <1>2, <1>7, <2>1, CountWithin
<1> QED BY <1>5, <1>8, <1>11, <1>13 DEF w

-----------------------------------------------------------------------------
(* What ProcessInput takes from the field and what it sends.               *)
LEMMA MaxIs ==
  ASSUME NEW n \in Nat, NEW T \in SUBSET (0..n), T # {}
  PROVE  Max(T) \in T /\ \A x \in T : Max(T) >= x
<1> DEFINE U == {k \in Nat : k <= n /\ n - k \in T}
<1>1. PICK y \in T : TRUE
  OBVIOUS
<1>2. n - y \in U
  <2>1. n - y \in Nat /\ n - y <= n /\ n - (n - y) = y
    BY <1>1
  <2> QED BY <2>1
<1>3. PICK k \in U : \A j \in U : k <= j
  <2>1. U \in SUBSET Nat /\ U # {}
    BY <1>2
  <2> HIDE DEF U
  <2> QED BY <2>1, LeastNumber
<1>4. n - k \in T
  BY <1>3
<1>5. \A x \in T : n - k >= x
  <2> TAKE x \in T
  <2>1. n - x \in U
    <3>1. n - x \in Nat /\ n - x <= n /\ n - (n - x) = x
      OBVIOUS
    <3> QED BY <3>1
  <2>2. k <= n - x /\ k \in Nat
    BY <1>3, <2>1
  <2> QED BY <2>2
<1>6. \E x \in T : \A z \in T : x >= z
  BY <1>4, <1>5, Zenon
<1> QED BY <1>6, Zenon DEF Max

LEMMA UnitsType ==
  ASSUME NEW text \in Seq(Char)
  PROVE  UnitsOf(text) \in Nat
<1>1. Len(text) \in Nat /\ Count(text, {c \in Char : Units[c] = 2}) \in Nat
  BY LenProperties, CountType
<1> QED BY <1>1 DEF UnitsOf

LEMMA WindowText ==
  ASSUME NEW text \in Seq(Char)
  PROVE  /\ GetWindowText(text) \in Seq(Char \cup {Bad})
         /\ UnitsOf(text) < InputSize => GetWindowText(text) = text
<1> DEFINE n == Len(text)
           fits == {k \in 0..n : UnitsOf(SubSeq(text, 1, k)) <= Room}
           max == Max(fits)
           whole == SubSeq(text, 1, max)
<1>1. n \in Nat /\ Room \in Nat /\ InputSize \in Nat /\ Room = InputSize - 1
  BY LenProperties, SizeAssumption DEF Room
<1>2. 0 \in fits
  <2>1. SubSeq(text, 1, 0) = <<>>
    OBVIOUS
  <2>2. UnitsOf(<<>>) = 0
    BY CountEmpty, EmptySeq DEF UnitsOf
  <2>3. UnitsOf(SubSeq(text, 1, 0)) = 0
    BY <2>1, <2>2, Zenon
  <2>4. 0 \in 0..n /\ 0 <= Room
    BY <1>1
  <2>5. UnitsOf(SubSeq(text, 1, 0)) <= Room
    BY <2>3, <2>4, Zenon
  <2> QED BY <2>4, <2>5, Zenon
<1>3. max \in fits /\ \A k \in fits : max >= k
  <2>1. fits \in SUBSET (0..n) /\ fits # {}
    BY <1>2
  <2> HIDE DEF fits
  <2> QED BY <1>1, <2>1, MaxIs
<1>4. max \in 0..n
  BY <1>3
<1>5. GetWindowText(text) =
        IF whole # text /\ UnitsOf(whole) < Room THEN Append(whole, Bad) ELSE whole
  BY Zenon DEF GetWindowText
<1>6. SubSeq(text, 1, n) = text
  BY SubSeqFull
<1>7. ASSUME UnitsOf(text) < InputSize PROVE whole = text
  <2>1. UnitsOf(text) <= Room
    BY <1>1, <1>7, UnitsType
  <2>2. n \in fits
    <3>1. UnitsOf(SubSeq(text, 1, n)) <= Room
      BY <1>6, <2>1, Zenon
    <3>2. n \in 0..n
      BY <1>1
    <3> QED BY <3>1, <3>2, Zenon
  <2>3. max = n
    <3>1. max >= n
      BY <1>3, <2>2, Zenon
    <3> HIDE DEF max
    <3> QED BY <1>1, <1>4, <3>1
  <2> QED BY <1>6, <2>3, Zenon
<1> HIDE DEF max, fits
<1>8. whole \in Seq(Char)
  <2>1. \A i \in 1..max : text[i] \in Char
    <3> TAKE i \in 1..max
    <3>1. i \in 1..n
      BY <1>1, <1>4
    <3> QED BY <3>1, ElementOfSeq
  <2>2. 1 \in Int /\ max \in Int
    BY <1>4
  <2> QED BY <2>1, <2>2, SubSeqProperties
<1>9. whole \in Seq(Char \cup {Bad}) /\ Append(whole, Bad) \in Seq(Char \cup {Bad})
  <2>1. whole \in Seq(Char \cup {Bad})
    BY <1>8, SeqMonotonic
  <2> HIDE DEF whole
  <2> QED BY <2>1, AppendProperties
<1> HIDE DEF whole
<1> QED BY <1>5, <1>7, <1>9

LEMMA CountNone ==
  ASSUME NEW S, NEW s \in Seq(S), NEW G, S \cap G = {}
  PROVE  Count(s, G) = 0
<1>1. Hits(s, G) = {}
  <2>1. \A i \in DOMAIN s : s[i] \in S
    BY LenProperties, ElementOfSeq
  <2> QED BY <2>1 DEF Hits
<1> QED BY <1>1, CountType, FS_EmptySet

(* wstring_to_utf8 sends the text with a NUL for its last character.       *)
LEMMA SentBytes ==
  ASSUME NEW text \in Seq(Symbol)
  PROVE  /\ Append(text, NUL) \in Seq(Symbol)
         /\ wstring_to_utf8(text) = Utf8(Append(text, NUL))
<1>1. NUL \in Symbol
  BY DEF Symbol
<1>2. Size(NUL) = 1
  BY CharAssumption DEF Size
<1>3. Coded(NUL) = <<<<NUL, 1>>>>
  <2>1. Coded(NUL) = [k \in 1..1 |-> <<NUL, k>>]
    BY <1>2 DEF Coded
  <2>2. \A x : <<x>> = [k \in 1..1 |-> x]
    OBVIOUS
  <2>3. \A k \in 1..1 : k = 1
    OBVIOUS
  <2> QED BY <2>1, <2>3
<1>4. Utf8(Append(text, NUL)) = Utf8(text) \o Coded(NUL)
  BY <1>1, Utf8Append
<1> QED BY <1>1, <1>3, <1>4, AppendProperties DEF wstring_to_utf8

-----------------------------------------------------------------------------
(* What the properties rest on: the wire holds the bytes of characters, in *)
(* order, of which only the first may lack some of its bytes.              *)
TextInv ==
  /\ TypeOK
  /\ InOrder(wire)
  /\ EndsWhole(wire)
  /\ TypedIsSent
  /\ ArrivesWhole
  /\ LossIsBounded
  /\ OneNulEach

LEMMA ProcessInputStep ==
  ASSUME TextInv, ProcessInput
  PROVE  TextInv'
<1> DEFINE conv(str) == string_to_wstring(str)
<1>1. /\ typed \in Seq(Seq(Char)) /\ sent \in Seq(Symbol) /\ wire \in Seq(Byte)
      /\ received \in Seq(Symbol) /\ splits \in Nat /\ swallowed \in Nat
      /\ InOrder(wire) /\ EndsWhole(wire) /\ failed \subseteq DOMAIN typed
  BY DEF TextInv, TypeOK
<1>2. PICK text \in BoundedSeq(Char, MaxTyped) :
        /\ typed' = Append(typed, text)
        /\ \/ /\ sent' = sent \o GetWindowText(text) \o <<NUL>>
              /\ wire' = wire \o wstring_to_utf8(GetWindowText(text))
              /\ failed' = failed
           \/ /\ failed' = failed \cup {Len(typed')}
              /\ sent' = sent /\ wire' = wire
        /\ received' = received /\ splits' = splits /\ swallowed' = swallowed
  BY DEF ProcessInput
<1>3. text \in Seq(Char)
  BY <1>2, BoundAssumption DEF BoundedSeq, SeqOf
<1>20. /\ typed' \in Seq(Seq(Char)) /\ Len(typed') = Len(typed) + 1
       /\ \A i \in 1..Len(typed) : typed'[i] = typed[i]
       /\ typed'[Len(typed) + 1] = text
       /\ Len(typed) \in Nat /\ DOMAIN typed = 1..Len(typed)
       /\ DOMAIN typed' = 1..Len(typed) + 1
  BY <1>1, <1>2, <1>3, AppendProperties, LenProperties
<1> DEFINE ok == failed' = failed
           input == GetWindowText(text)
           t == IF ok THEN Append(input, NUL) ELSE <<>>
           v == Utf8(t)
<1>21. /\ ok => sent' = (sent \o input) \o <<NUL>> /\ wire' = wire \o wstring_to_utf8(input)
       /\ ~ok => /\ failed' = failed \cup {Len(typed) + 1}
                 /\ sent' = sent /\ wire' = wire
       /\ Len(typed) + 1 \notin failed
  BY <1>1, <1>2, <1>20
<1>22. \A i \in 1..Len(typed) : i \in failed' <=> i \in failed
  BY <1>20, <1>21
<1>23. Len(typed) + 1 \in failed' <=> ~ok
  BY <1>21
<1>4. /\ input \in Seq(Symbol) /\ input \in Seq(Char \cup {Bad})
      /\ UnitsOf(text) < InputSize => input = text
  <2>1. input \in Seq(Char \cup {Bad}) /\ (UnitsOf(text) < InputSize => input = text)
    BY <1>3, WindowText
  <2>2. Char \cup {Bad} \subseteq Symbol
    BY DEF Symbol
  <2> HIDE DEF input
  <2> QED BY <2>1, <2>2, SeqMonotonic
<1>5. NUL \in Symbol /\ <<NUL>> \in Seq(Symbol)
  BY DEF Symbol
<1> HIDE DEF input, ok
<1>6. t \in Seq(Symbol) /\ (ok => wstring_to_utf8(input) = v)
  BY <1>4, SentBytes, EmptySeq
<1>7. /\ v \in Seq(Byte) /\ InOrder(v) /\ EndsWhole(v) /\ BeginsWhole(v)
      /\ conv(v) = t
  BY <1>6, Utf8IsWhole
<1>24. ~ok => t = <<>> /\ v = <<>>
  <2>1. [i \in DOMAIN <<>> |-> Coded(<<>>[i])] = <<>>
    OBVIOUS
  <2>2. Utf8(<<>>) = <<>>
    BY <2>1, FlattenEmpty DEF Utf8
  <2> QED BY <2>2
<1>8. sent' = sent \o t
  <2>1. (sent \o input) \o <<NUL>> = sent \o (input \o <<NUL>>)
    BY <1>1, <1>4, <1>5, ConcatAssociative
  <2>2. ok => t = input \o <<NUL>>
    BY <1>4, <1>5, AppendIsConcat
  <2>3. ~ok => sent \o t = sent
    BY <1>1, <1>24, ConcatEmptySeq
  <2> HIDE DEF t
  <2> QED BY <1>21, <2>1, <2>2, <2>3
<1>9. Count(t, {NUL}) = IF ok THEN 1 ELSE 0
  <2>1. (Char \cup {Bad}) \cap {NUL} = {}
    BY CharAssumption DEF NUL, Bad
  <2>2. Count(input, {NUL}) = 0
    BY <1>4, <2>1, CountNone
  <2>3. Count(Append(input, NUL), {NUL}) = Count(input, {NUL}) + 1
    BY <1>4, <1>5, CountAppend
  <2>4. ok => Count(t, {NUL}) = 1
    BY <2>2, <2>3
  <2>5. ~ok => Count(t, {NUL}) = 0
    BY <1>24, CountEmpty
  <2> HIDE DEF t
  <2> QED BY <2>4, <2>5
<1>10. wire' = wire \o v
  <2>1. ~ok => wire \o v = wire
    BY <1>1, <1>24, ConcatEmptySeq
  <2> HIDE DEF v
  <2> QED BY <1>6, <1>21, <2>1
<1> HIDE DEF v, t
<1>11. wire' \in Seq(Byte) /\ InOrder(wire') /\ EndsWhole(wire') /\ sent' \in Seq(Symbol)
  BY <1>1, <1>6, <1>7, <1>8, <1>10, InOrderConcat, ConcatProperties
<1>12. conv(wire') = conv(wire) \o t /\ conv(wire) \in Seq(Symbol)
  BY <1>1, <1>7, <1>10, ConvConcat, ConvType
<1> HIDE DEF conv
<1>14. TypeOK'
  <2>1. failed' \subseteq DOMAIN typed'
    BY <1>1, <1>20, <1>21 DEF ok
  <2> QED BY <1>1, <1>2, <1>11, <1>20, <2>1 DEF TypeOK
<1>15. TypedIsSent'
  <2> DEFINE n == Len(typed)
             p == [i \in DOMAIN typed |->
                     IF i \in failed THEN <<>> ELSE Append(typed[i], NUL)]
             q == [i \in DOMAIN typed' |->
                     IF i \in failed' THEN <<>> ELSE Append(typed'[i], NUL)]
             r == Append(p, t)
  <2> SUFFICES ASSUME \A i \in DOMAIN typed' : UnitsOf(typed'[i]) < InputSize
               PROVE  sent' = FlattenSeq(q)
    BY DEF TypedIsSent, Outgoing
  <2>2. t = IF ok THEN Append(text, NUL) ELSE <<>>
    <3>1. UnitsOf(text) < InputSize
      BY <1>20
    <3> QED BY <1>4, <3>1 DEF t
  <2>3. sent = FlattenSeq(p)
    <3>1. \A i \in DOMAIN typed : UnitsOf(typed[i]) < InputSize
      <4> TAKE i \in DOMAIN typed
      <4>1. i \in DOMAIN typed' /\ typed'[i] = typed[i]
        BY <1>20
      <4> QED BY <4>1
    <3> QED BY <3>1 DEF TextInv, TypedIsSent, Outgoing
  <2>4. <<>> \in Seq(Symbol) /\ \A x \in Seq(Char) : Append(x, NUL) \in Seq(Symbol)
    <3>1. ASSUME NEW x \in Seq(Char) PROVE Append(x, NUL) \in Seq(Symbol)
      <4>1. Char \subseteq Symbol
        BY DEF Symbol
      <4>2. x \in Seq(Symbol)
        BY <4>1, SeqMonotonic
      <4> QED BY <1>5, <4>2, AppendProperties
    <3> QED BY <3>1, EmptySeq
  <2>5. /\ p \in Seq(Seq(Symbol)) /\ Len(p) = n
        /\ \A i \in 1..n : p[i] = IF i \in failed THEN <<>> ELSE Append(typed[i], NUL)
    <3>1. \A i \in 1..n : typed[i] \in Seq(Char)
      BY <1>1, ElementOfSeq
    <3> QED BY <1>20, <2>4, <3>1
  <2>6. /\ q \in Seq(Seq(Symbol)) /\ Len(q) = n + 1
        /\ \A i \in 1..n + 1 :
             q[i] = IF i \in failed' THEN <<>> ELSE Append(typed'[i], NUL)
    <3>1. \A i \in 1..n + 1 : typed'[i] \in Seq(Char)
      BY <1>20, ElementOfSeq
    <3> QED BY <1>20, <2>4, <3>1
  <2> HIDE DEF p, q
  <2>8. /\ r \in Seq(Seq(Symbol)) /\ Len(r) = n + 1
        /\ \A i \in 1..n : r[i] = p[i]
        /\ r[n + 1] = t
    BY <1>6, <2>5, AppendProperties
  <2> HIDE DEF r
  <2>9. \A i \in 1..n + 1 : q[i] = r[i]
    <3> TAKE i \in 1..n + 1
    <3>1. CASE i \in 1..n
      <4>1. q[i] = p[i]
        BY <1>20, <1>22, <2>5, <2>6, <3>1
      <4> QED BY <2>8, <3>1, <4>1
    <3>2. CASE i = n + 1
      <4>1. q[i] = IF ok THEN Append(text, NUL) ELSE <<>>
        BY <1>20, <1>23, <2>6, <3>2
      <4> QED BY <2>2, <2>8, <3>2, <4>1
    <3> QED BY <1>20, <3>1, <3>2
  <2>10. q = r
    BY <2>6, <2>8, <2>9, SeqEqual
  <2>11. FlattenSeq(r) = FlattenSeq(p) \o t
    BY <1>6, <2>5, FlattenAppend DEF r
  <2> QED BY <1>8, <2>3, <2>10, <2>11
<1>16. ArrivesWhole'
  <2> SUFFICES ASSUME splits' = 0, swallowed' = 0 PROVE received' \o conv(wire') = sent'
    BY DEF ArrivesWhole, conv
  <2>1. received \o conv(wire) = sent
    BY <1>2 DEF TextInv, ArrivesWhole, conv
  <2>2. (received \o conv(wire)) \o t = received \o (conv(wire) \o t)
    BY <1>1, <1>6, <1>12, ConcatAssociative
  <2> QED BY <1>2, <1>8, <1>12, <2>1, <2>2
<1>17. /\ Count(sent', WholeSymbols) = Count(sent, WholeSymbols) + Count(t, WholeSymbols)
       /\ \A G : Count(conv(wire'), G) = Count(conv(wire), G) + Count(t, G)
       /\ \A G : Count(t, G) \in Nat /\ Count(conv(wire), G) \in Nat /\ Count(received, G) \in Nat
       /\ Count(sent, WholeSymbols) \in Nat
  BY <1>1, <1>6, <1>8, <1>12, CountConcat, CountType
<1>18. LossIsBounded'
  <2>1. Count(received, WholeSymbols) + Count(conv(wire), WholeSymbols) + splits
            + swallowed >= Count(sent, WholeSymbols)
    BY DEF TextInv, LossIsBounded, WholeSymbols, conv
  <2>2. Count(received, WholeSymbols) + Count(conv(wire'), WholeSymbols) + splits
            + swallowed >= Count(sent', WholeSymbols)
    BY <1>1, <1>17, <2>1
  <2>3. Count(received', WholeSymbols) + Count(conv(wire'), WholeSymbols) + splits'
            + swallowed' >= Count(sent', WholeSymbols)
    BY <1>2, <2>2
  <2> QED BY <2>3 DEF LossIsBounded, WholeSymbols, conv
<1>19. OneNulEach'
  <2> DEFINE c == Cardinality(failed)
  <2>1. IsFiniteSet(failed) /\ c \in Nat
    <3>1. IsFiniteSet(1..Len(typed))
      BY <1>20, FS_Interval
    <3>2. failed \in SUBSET (1..Len(typed))
      BY <1>1, <1>20
    <3>3. IsFiniteSet(failed)
      BY <3>1, <3>2, FS_Subset
    <3> QED BY <3>3, FS_CardinalityType
  <2>2. Cardinality(failed') = IF ok THEN c ELSE c + 1
    <3>1. CASE ok
      BY <3>1 DEF ok
    <3>2. CASE ~ok
      BY <1>21, <2>1, <3>2, FS_AddElement
    <3> QED BY <3>1, <3>2
  <2>3. Count(received, {NUL}) + Count(conv(wire), {NUL}) = Len(typed) - c
    BY DEF TextInv, OneNulEach, conv
  <2> HIDE DEF c
  <2>4. Count(received, {NUL}) + Count(conv(wire'), {NUL}) = Len(typed') - Cardinality(failed')
    <3> DEFINE R == Count(received, {NUL})
               B == Count(conv(wire), {NUL})
               B2 == Count(conv(wire'), {NUL})
               T == Count(t, {NUL})
    <3>1. B2 = B + T /\ R \in Nat /\ B \in Nat /\ T \in Nat
      BY <1>17
    <3>2. T = IF ok THEN 1 ELSE 0
      BY <1>9
    <3>3. R + B = Len(typed) - c
      BY <2>3
    <3> HIDE DEF R, B, B2, T, ok
    <3>4. R + B2 = Len(typed') - Cardinality(failed')
      BY <1>20, <2>1, <2>2, <3>1, <3>2, <3>3
    <3> QED BY <3>4 DEF R, B2
  <2> QED BY <1>2, <2>4 DEF OneNulEach, conv
<1> QED BY <1>11, <1>14, <1>15, <1>16, <1>18, <1>19 DEF TextInv

(* The wire is cut in two where a read ends.                               *)
LEMMA CutWire ==
  ASSUME TextInv, NEW n \in 1..Len(wire)
  PROVE  LET conv(str) == string_to_wstring(str)
             a == SubSeq(wire, 1, n)
             b == SubSeq(wire, n + 1, Len(wire))
         IN  /\ a \in Seq(Byte) /\ Len(a) = n /\ a # <<>> /\ b \in Seq(Byte)
             /\ InOrder(b) /\ EndsWhole(b)
             /\ a[n][2] < Size(a[n][1]) <=> ~Full(a[n])
             /\ conv(a) \in Seq(Symbol) /\ conv(b) \in Seq(Symbol)
             /\ conv(wire) \in Seq(Symbol)
             /\ Full(a[n]) => conv(wire) = conv(a) \o conv(b)
             /\ Count(conv(wire), {NUL}) = Count(conv(a), {NUL}) + Count(conv(b), {NUL})
             /\ Count(conv(wire), WholeSymbols)
                  <= Count(conv(a), WholeSymbols) + Count(conv(b), WholeSymbols) + 1
<1> DEFINE conv(str) == string_to_wstring(str)
           a == SubSeq(wire, 1, n)
           b == SubSeq(wire, n + 1, Len(wire))
<1>1. wire \in Seq(Byte) /\ InOrder(wire) /\ EndsWhole(wire)
  BY DEF TextInv, TypeOK
<1>4. Len(wire) \in Nat /\ n \in Nat /\ n >= 1 /\ n <= Len(wire)
  BY <1>1, LenProperties
<1>5. /\ a \in Seq(Byte) /\ Len(a) = n /\ b \in Seq(Byte) /\ a \o b = wire
  <2> DEFINE k == Len(wire)
  <2>1. \A i \in 1..k : wire[i] \in Byte
    BY <1>1, ElementOfSeq
  <2>2. a \in Seq(Byte) /\ Len(a) = n
    <3>1. \A i \in 1..n : wire[i] \in Byte
      BY <1>4, <2>1
    <3>2. a \in Seq(Byte) /\ Len(a) = IF 1 <= n THEN n - 1 + 1 ELSE 0
      BY <1>4, <3>1, SubSeqProperties
    <3> HIDE DEF a
    <3> QED BY <1>4, <3>2
  <2>3. b \in Seq(Byte)
    <3>1. \A i \in n + 1..k : wire[i] \in Byte
      BY <1>4, <2>1
    <3>2. n + 1 \in Int /\ k \in Int
      BY <1>4
    <3> QED BY <3>1, <3>2, SubSeqProperties
  <2>4. a \o b = SubSeq(wire, 1, k)
    <3>1. 1 \in 1..k + 1 /\ n \in 1 - 1..k /\ k \in n..k
      BY <1>4
    <3> QED BY <1>1, <3>1, ConcatAdjacentSubSeq
  <2>5. SubSeq(wire, 1, k) = wire
    BY <1>1, SubSeqFull
  <2> QED BY <2>2, <2>3, <2>4, <2>5
<1> HIDE DEF a, b
<1>6. a # <<>> /\ a[n] \in Byte
  <2>1. n \in 1..n /\ n # 0
    BY <1>4
  <2> QED BY <1>5, <2>1, ElementOfSeq, EmptySeq
<1>7. a[n][2] \in 1..4 /\ Size(a[n][1]) \in 1..4 /\ a[n][2] <= Size(a[n][1])
  BY <1>6, ByteType
<1>8. /\ InOrder(b) /\ EndsWhole(b)
      /\ Full(a[n]) => BeginsWhole(b)
  BY <1>1, <1>5, <1>6, RestInOrder
<1>9. a[n][2] < Size(a[n][1]) <=> ~Full(a[n])
  BY <1>7 DEF Full
<1>10. conv(a) \in Seq(Symbol) /\ conv(b) \in Seq(Symbol) /\ conv(wire) \in Seq(Symbol)
  BY <1>1, <1>5, ConvType
<1>11. Full(a[n]) => conv(wire) = conv(a) \o conv(b)
  <2>1. Full(a[n]) => EndsWhole(a)
    BY <1>5 DEF EndsWhole
  <2> QED BY <1>5, <1>8, <2>1, ConvConcat
<1>12. /\ Count(conv(wire), {NUL}) = Count(conv(a), {NUL}) + Count(conv(b), {NUL})
       /\ Count(conv(wire), WholeSymbols)
            <= Count(conv(a), WholeSymbols) + Count(conv(b), WholeSymbols) + 1
  BY <1>1, <1>5, <1>6, CutLoss
<1> QED BY <1>5, <1>6, <1>8, <1>9, <1>10, <1>11, <1>12 DEF a, b

(* A read that is no heartbeat is shown.                                   *)
LEMMA LineStep ==
  ASSUME TextInv, NEW n \in 1..Len(wire),
         received' = received \o string_to_wstring(SubSeq(wire, 1, n)),
         splits' = IF SubSeq(wire, 1, n)[n][2] < Size(SubSeq(wire, 1, n)[n][1])
                   THEN splits + 1 ELSE splits,
         wire' = SubSeq(wire, n + 1, Len(wire)),
         UNCHANGED <<typed, failed, sent, swallowed>>
  PROVE  TextInv'
<1> DEFINE conv(str) == string_to_wstring(str)
           a == SubSeq(wire, 1, n)
           b == SubSeq(wire, n + 1, Len(wire))
<1>1. /\ wire \in Seq(Byte) /\ received \in Seq(Symbol)
      /\ splits \in Nat /\ swallowed \in Nat /\ sent \in Seq(Symbol)
  BY DEF TextInv, TypeOK
<1>3. /\ received' = received \o conv(a) /\ wire' = b
      /\ splits' = IF a[n][2] < Size(a[n][1]) THEN splits + 1 ELSE splits
      /\ typed' = typed /\ failed' = failed /\ sent' = sent /\ swallowed' = swallowed
  OBVIOUS
<1>4. b \in Seq(Byte) /\ InOrder(b) /\ EndsWhole(b)
  BY CutWire
<1>9. splits' = IF Full(a[n]) THEN splits ELSE splits + 1
  BY <1>3, CutWire
<1>10. conv(a) \in Seq(Symbol) /\ conv(b) \in Seq(Symbol) /\ conv(wire) \in Seq(Symbol)
  BY CutWire
<1>11. Full(a[n]) => conv(wire) = conv(a) \o conv(b)
  BY CutWire
<1>12. /\ Count(conv(wire), {NUL}) = Count(conv(a), {NUL}) + Count(conv(b), {NUL})
       /\ Count(conv(wire), WholeSymbols)
            <= Count(conv(a), WholeSymbols) + Count(conv(b), WholeSymbols) + 1
  BY CutWire
<1> HIDE DEF a, b, conv
<1>13. received' \in Seq(Symbol)
  BY <1>1, <1>3, <1>10, ConcatProperties
<1>14. TypeOK'
  BY <1>1, <1>3, <1>4, <1>9, <1>13 DEF TextInv, TypeOK
<1>15. TypedIsSent'
  BY <1>3 DEF TextInv, TypedIsSent, Outgoing
<1>16. ArrivesWhole'
  <2> SUFFICES ASSUME splits' = 0, swallowed' = 0 PROVE received' \o conv(wire') = sent'
    BY DEF ArrivesWhole, conv
  <2>1. Full(a[n]) /\ splits = 0 /\ swallowed = 0
    BY <1>1, <1>3, <1>9
  <2>2. received \o conv(wire) = sent
    BY <2>1 DEF TextInv, ArrivesWhole, conv
  <2>3. (received \o conv(a)) \o conv(b) = received \o (conv(a) \o conv(b))
    <3> DEFINE A == conv(a)
               B == conv(b)
    <3>1. A \in Seq(Symbol) /\ B \in Seq(Symbol)
      BY <1>10
    <3> HIDE DEF A, B
    <3>2. received \in Seq(Symbol)
      BY <1>1
    <3>3. \A s, t, u \in Seq(Symbol) : (s \o t) \o u = s \o (t \o u)
      BY Associative
    <3>4. (received \o A) \o B = received \o (A \o B)
      BY ONLY <3>1, <3>2, <3>3, Zenon
    <3> QED BY <3>4 DEF A, B
  <2> QED BY <1>3, <1>11, <2>1, <2>2, <2>3
<1>17. /\ \A G : Count(received', G) = Count(received, G) + Count(conv(a), G)
       /\ \A G : /\ Count(conv(a), G) \in Nat /\ Count(conv(b), G) \in Nat
                 /\ Count(conv(wire), G) \in Nat /\ Count(received, G) \in Nat
       /\ Count(sent, WholeSymbols) \in Nat
  BY <1>1, <1>3, <1>10, CountConcat, CountType
<1>18. LossIsBounded'
  <2>1. Count(received, WholeSymbols) + Count(conv(wire), WholeSymbols) + splits
            + swallowed >= Count(sent, WholeSymbols)
    BY DEF TextInv, LossIsBounded, WholeSymbols, conv
  <2>2. Count(received', WholeSymbols) + Count(conv(b), WholeSymbols) + splits'
            + swallowed' >= Count(sent, WholeSymbols)
    <3>1. CASE Full(a[n])
      <4>1. Count(conv(wire), WholeSymbols)
              = Count(conv(a), WholeSymbols) + Count(conv(b), WholeSymbols)
        BY <1>10, <1>11, <3>1, CountConcat
      <4> QED BY <1>1, <1>3, <1>9, <1>17, <2>1, <3>1, <4>1
    <3>2. CASE ~Full(a[n])
      <4> DEFINE A == Count(conv(a), WholeSymbols)
                 B == Count(conv(b), WholeSymbols)
                 W == Count(conv(wire), WholeSymbols)
                 R == Count(received, WholeSymbols)
                 Q == Count(received', WholeSymbols)
                 S == Count(sent, WholeSymbols)
      <4>1. /\ A \in Nat /\ B \in Nat /\ W \in Nat /\ R \in Nat /\ S \in Nat
            /\ Q = R + A
        BY <1>17, Zenon
      <4>2. W <= A + B + 1 /\ R + W + splits + swallowed >= S
            /\ splits' = splits + 1 /\ swallowed' = swallowed
            /\ splits \in Nat /\ swallowed \in Nat
        BY <1>1, <1>3, <1>9, <1>12, <2>1, <3>2
      <4> HIDE DEF A, B, W, R, Q, S
      <4>3. Q + B + splits' + swallowed' >= S
        BY <4>1, <4>2
      <4> QED BY <4>3 DEF B, Q, S
    <3> QED BY <3>1, <3>2
  <2>3. Count(received', WholeSymbols) + Count(conv(wire'), WholeSymbols) + splits'
            + swallowed' >= Count(sent', WholeSymbols)
    BY <1>3, <2>2
  <2> QED BY <2>3 DEF LossIsBounded, WholeSymbols, conv
<1>19. OneNulEach'
  <2>1. Count(received, {NUL}) + Count(conv(wire), {NUL}) = Len(typed) - Cardinality(failed)
    BY DEF TextInv, OneNulEach, conv
  <2>2. Count(received', {NUL}) + Count(conv(b), {NUL}) = Len(typed) - Cardinality(failed)
    BY <1>12, <1>17, <2>1
  <2>3. Count(received', {NUL}) + Count(conv(wire'), {NUL}) = Len(typed') - Cardinality(failed')
    BY <1>3, <2>2
  <2> QED BY <2>3 DEF OneNulEach, conv
<1>20. InOrder(wire') /\ EndsWhole(wire')
  BY <1>3, <1>4
<1> QED BY <1>14, <1>15, <1>16, <1>18, <1>19, <1>20 DEF TextInv

(* A read that is "PONG" is not shown: its characters are swallowed.       *)
LEMMA SwallowStep ==
  ASSUME TextInv, NEW n \in 1..Len(wire), SubSeq(wire, 1, n) = Utf8(Pong),
         swallowed' = swallowed + Len(Pong),
         wire' = SubSeq(wire, n + 1, Len(wire)),
         UNCHANGED <<typed, failed, sent, received, splits>>
  PROVE  TextInv'
<1> DEFINE conv(str) == string_to_wstring(str)
           a == SubSeq(wire, 1, n)
           b == SubSeq(wire, n + 1, Len(wire))
           m == Len(Pong)
<1>1. /\ received \in Seq(Symbol) /\ sent \in Seq(Symbol)
      /\ splits \in Nat /\ swallowed \in Nat /\ m \in Nat
  BY PongAssumption, LenProperties DEF TextInv, TypeOK
<1>2. Pong \in Seq(Symbol)
  <2>1. Char \subseteq Symbol
    BY DEF Symbol
  <2> QED BY <2>1, PongAssumption, SeqMonotonic
<1>3. b \in Seq(Byte) /\ InOrder(b) /\ EndsWhole(b) /\ conv(b) \in Seq(Symbol)
  BY CutWire
<1>4. conv(wire) = Pong \o conv(b)
  <2>1. a \in Seq(Byte) /\ Len(a) = n /\ a # <<>> /\ (Full(a[n]) => conv(wire) = conv(a) \o conv(b))
    BY CutWire
  <2>2. EndsWhole(a) /\ conv(a) = Pong
    BY <1>2, Utf8IsWhole
  <2> HIDE DEF a, b, conv
  <2>3. Full(a[n])
    BY <2>1, <2>2 DEF EndsWhole
  <2> QED BY <2>1, <2>2, <2>3
<1> HIDE DEF conv, b
<1>5. wire' = b
  BY DEF b
<1>6. /\ \A G : Count(conv(wire), G) = Count(Pong, G) + Count(conv(wire'), G)
      /\ \A G : /\ Count(Pong, G) \in Nat /\ Count(conv(wire'), G) \in Nat
                /\ Count(received, G) \in Nat
      /\ Count(sent, WholeSymbols) \in Nat
  <2>1. conv(wire') \in Seq(Symbol)
    BY <1>3, <1>5
  <2>2. \A G : Count(Pong \o conv(wire'), G) = Count(Pong, G) + Count(conv(wire'), G)
    BY <1>2, <2>1, CountConcat
  <2>3. conv(wire) = Pong \o conv(wire')
    BY <1>4, <1>5
  <2>4. /\ \A G : Count(Pong, G) \in Nat
        /\ \A G : Count(conv(wire'), G) \in Nat
        /\ \A G : Count(received, G) \in Nat
        /\ Count(sent, WholeSymbols) \in Nat
    BY <1>1, <1>2, <2>1, CountType
  <2> QED BY <2>2, <2>3, <2>4
<1>7. Count(Pong, WholeSymbols) <= m
  <2>1. Hits(Pong, WholeSymbols) \in SUBSET (1..m)
    BY <1>2, LenProperties DEF Hits
  <2>2. IsFiniteSet(1..m) /\ Cardinality(1..m) = m
    <3>1. m \in Nat
      BY <1>1
    <3> HIDE DEF m
    <3>2. /\ IsFiniteSet(1..m)
          /\ Cardinality(1..m) = IF 1 > m THEN 0 ELSE m - 1 + 1
      BY ONLY <3>1, 1 \in Int, m \in Int, FS_Interval
    <3> QED BY <3>1, <3>2
  <2>3. Cardinality(Hits(Pong, WholeSymbols)) <= Cardinality(1..m)
    BY <2>1, <2>2, FS_Subset
  <2> QED BY <1>2, <2>2, <2>3, CountType
<1>8. Count(Pong, {NUL}) = 0
  <2>1. Char \cap {NUL} = {}
    BY CharAssumption DEF NUL
  <2> QED BY <2>1, PongAssumption, CountNone
<1>9. TypeOK'
  BY <1>1, <1>3, <1>5 DEF TextInv, TypeOK
<1>10. TypedIsSent'
  BY DEF TextInv, TypedIsSent, Outgoing
<1>11. ArrivesWhole'
  <2> SUFFICES ASSUME splits' = 0, swallowed' = 0 PROVE received' \o conv(wire') = sent'
    BY DEF ArrivesWhole, conv
  <2>1. splits = 0 /\ swallowed = 0 /\ m = 0
    BY <1>1
  <2>2. received \o conv(wire) = sent
    BY <2>1 DEF TextInv, ArrivesWhole, conv
  <2>3. Pong = <<>>
    BY <1>2, <2>1, EmptySeq
  <2>4. conv(wire) = conv(wire')
    BY <1>3, <1>4, <1>5, <2>3, ConcatEmptySeq
  <2> QED BY <2>2, <2>4
<1>12. LossIsBounded'
  <2> DEFINE A == Count(Pong, WholeSymbols)
             B == Count(conv(wire'), WholeSymbols)
             R == Count(received, WholeSymbols)
             S == Count(sent, WholeSymbols)
  <2>1. R + (A + B) + splits + swallowed >= S
    BY <1>6 DEF TextInv, LossIsBounded, WholeSymbols, conv
  <2>2. A \in Nat /\ B \in Nat /\ R \in Nat /\ S \in Nat /\ A <= m
    BY <1>6, <1>7
  <2> HIDE DEF A, B, R, S
  <2>3. R + B + splits' + swallowed' >= S
    BY <1>1, <2>1, <2>2
  <2> QED BY <2>3 DEF B, R, S, LossIsBounded, WholeSymbols, conv
<1>13. OneNulEach'
  <2>1. Count(received, {NUL}) + Count(conv(wire), {NUL}) = Len(typed) - Cardinality(failed)
    BY DEF TextInv, OneNulEach, conv
  <2>2. Count(received, {NUL}) + Count(conv(wire'), {NUL}) = Len(typed) - Cardinality(failed)
    BY <1>6, <1>8, <2>1
  <2> QED BY <2>2 DEF OneNulEach, conv
<1> QED BY <1>3, <1>5, <1>9, <1>10, <1>11, <1>12, <1>13 DEF TextInv

LEMMA OnReceiveMessageStep ==
  ASSUME TextInv, OnReceiveMessage
  PROVE  TextInv'
<1>1. PICK n \in 1..Len(wire) :
        LET str == SubSeq(wire, 1, n)
        IN  /\ wire' = SubSeq(wire, n + 1, Len(wire))
            /\ \/ /\ str = Utf8(Pong)
                  /\ swallowed' = swallowed + Len(Pong)
                  /\ UNCHANGED <<received, splits>>
               \/ /\ str # Utf8(Pong)
                  /\ received' = received \o string_to_wstring(str)
                  /\ splits' = IF str[n][2] < Size(str[n][1]) THEN splits + 1 ELSE splits
                  /\ UNCHANGED swallowed
            /\ UNCHANGED <<typed, failed, sent>>
  BY DEF OnReceiveMessage
<1>2. CASE SubSeq(wire, 1, n) = Utf8(Pong)
  BY <1>1, <1>2, SwallowStep
<1>3. CASE SubSeq(wire, 1, n) # Utf8(Pong)
  BY <1>1, <1>3, LineStep
<1> QED BY <1>2, <1>3

LEMMA TextInduction ==
  /\ Init => TextInv
  /\ TextInv /\ [Next]_vars => TextInv'
<1>1. ASSUME Init PROVE TextInv
  <2>1. /\ typed = <<>> /\ sent = <<>> /\ wire = <<>> /\ received = <<>>
        /\ splits = 0 /\ swallowed = 0 /\ failed = {}
        /\ <<>> \in Seq(Byte) /\ DOMAIN <<>> = {}
    BY <1>1 DEF Init
  <2>2. TypeOK
    BY <2>1, EmptySeq DEF TypeOK
  <2>3. InOrder(wire) /\ EndsWhole(wire)
    BY <2>1 DEF InOrder, EndsWhole
  <2>4. string_to_wstring(wire) = <<>>
    <3>1. Pieces(<<>>) = <<>>
      BY DEF Pieces
    <3> QED BY <2>1, <3>1, ConvType, FlattenEmpty
  <2>5. TypedIsSent
    <3>1. Outgoing = <<>>
      BY <2>1 DEF Outgoing
    <3> QED BY <2>1, <3>1, FlattenEmpty DEF TypedIsSent
  <2>6. ArrivesWhole
    <3>1. <<>> \o <<>> = <<>>
      BY <2>1, ConcatEmptySeq
    <3> QED BY <2>1, <2>4, <3>1 DEF ArrivesWhole
  <2>7. LossIsBounded /\ OneNulEach
    BY <2>1, <2>4, CountEmpty, EmptySeq, FS_EmptySet DEF LossIsBounded, OneNulEach
  <2> QED BY <2>2, <2>3, <2>5, <2>6, <2>7 DEF TextInv
<1>2. ASSUME TextInv, [Next]_vars PROVE TextInv'
  <2>1. CASE ProcessInput
    BY <1>2, <2>1, ProcessInputStep
  <2>2. CASE OnReceiveMessage
    BY <1>2, <2>2, OnReceiveMessageStep
  <2>3. CASE UNCHANGED vars
    BY <1>2, <2>3 DEF vars, TextInv, TypeOK, TypedIsSent, Outgoing,
                      ArrivesWhole, LossIsBounded, OneNulEach
  <2> QED BY <1>2, <2>1, <2>2, <2>3 DEF Next
<1> QED BY <1>1, <1>2

-----------------------------------------------------------------------------
(* However the wire is cut, it holds the bytes of characters in order, and *)
(* what was typed, sent and received agree as the properties say.          *)
THEOREM TextInvariance == Spec => []TextInv
BY TextInduction, PTL DEF Spec

(* Nothing but characters is sent, and nothing but the bytes of characters *)
(* is on the wire, for texts that were cut to the size of the buffer too.  *)
THEOREM TextTypeCorrect == Spec => []TypeOK
<1>1. TextInv => TypeOK
  BY DEF TextInv
<1> QED BY <1>1, TextInvariance, PTL

(* ProcessInput sends what was typed, each text with one NUL, if it fits   *)
(* into the buffer, whatever the buffer's size, and is lost only where     *)
(* SendMessageData fails.                                                  *)
THEOREM WhatIsTypedIsSent == Spec => []TypedIsSent
<1>1. TextInv => TypedIsSent
  BY DEF TextInv
<1> QED BY <1>1, TextInvariance, PTL

(* If no read ends inside a character or is taken for a heartbeat,         *)
(* OnReceiveMessage gives back what was sent, whatever the reads' sizes.   *)
THEOREM WhatIsSentArrives == Spec => []ArrivesWhole
<1>1. TextInv => ArrivesWhole
  BY DEF TextInv
<1> QED BY <1>1, TextInvariance, PTL

(* A read that ends inside a character costs that one character, and one   *)
(* taken for a heartbeat no more than the characters of "PONG".            *)
THEOREM LossesAreBounded == Spec => []LossIsBounded
<1>1. TextInv => LossIsBounded
  BY DEF TextInv
<1> QED BY <1>1, TextInvariance, PTL

(* No read makes, loses or doubles a NUL.                                  *)
THEOREM OneNulWithEach == Spec => []OneNulEach
<1>1. TextInv => OneNulEach
  BY DEF TextInv
<1> QED BY <1>1, TextInvariance, PTL

=============================================================================
