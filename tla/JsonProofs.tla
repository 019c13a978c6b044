----------------------------- MODULE JsonProofs -----------------------------
(***************************************************************************)
(* Values of any number, shared in any way by objects, arrays, results of  *)
(* matches and the parser, and decodes that fail anywhere: every count of  *)
(* references is exact, and so is the number of string blocks.             *)
(*                                                                         *)
(* The references are cardinalities of sets of places; each operation      *)
(* moves, adds or removes some.  The first two parts say what that does to *)
(* the number of places in a sequence and in a family of sets.             *)
(***************************************************************************)
EXTENDS JsonText, FiniteSetTheorems, SequenceTheorems, TLAPS

-----------------------------------------------------------------------------
(* The places of a sequence where a member of T is. *)

Spots(s, T) == {i \in DOMAIN s : s[i] \in T}
Hits(s, T) == Cardinality(Spots(s, T))
One(b) == IF b THEN 1 ELSE 0
Same(x, y) == IF x = y THEN 1 ELSE 0

LEMMA HitsType ==
  ASSUME NEW X, NEW s \in Seq(X), NEW T
  PROVE  IsFiniteSet(Spots(s, T)) /\ Hits(s, T) \in Nat
<1>1. Len(s) \in Nat /\ DOMAIN s = 1 .. Len(s)
  OBVIOUS
<1>2. IsFiniteSet(1 .. Len(s))
  BY <1>1, FS_Interval
<1>3. Spots(s, T) \in SUBSET (1 .. Len(s))
  BY <1>1 DEF Spots
<1>4. IsFiniteSet(Spots(s, T))
  BY <1>2, <1>3, FS_Subset
<1> QED
  BY <1>4, FS_CardinalityType DEF Hits

LEMMA HitsEmpty ==
  ASSUME NEW T
  PROVE  Hits(<<>>, T) = 0
<1>1. Spots(<<>>, T) = {}
  BY DEF Spots
<1> QED
  BY <1>1, FS_EmptySet DEF Hits

LEMMA HitsOne ==
  ASSUME NEW x, NEW T
  PROVE  Hits(<<x>>, T) = One(x \in T)
<1>1. Spots(<<x>>, T) = IF x \in T THEN {1} ELSE {}
  BY DEF Spots
<1>2. Cardinality({1}) = 1 /\ Cardinality({}) = 0
  BY FS_Singleton, FS_EmptySet
<1> QED
  BY <1>1, <1>2 DEF Hits, One, Same

\* The same places, whatever the sequences hold.
LEMMA HitsSame ==
  ASSUME NEW s, NEW t, NEW S, NEW T, DOMAIN s = DOMAIN t,
         \A i \in DOMAIN s : s[i] \in S <=> t[i] \in T
  PROVE  Hits(s, S) = Hits(t, T)
<1>1. Spots(s, S) = Spots(t, T)
  BY DEF Spots
<1> QED
  BY <1>1 DEF Hits

LEMMA HitsConcat ==
  ASSUME NEW X, NEW s \in Seq(X), NEW t \in Seq(X), NEW T
  PROVE  Hits(s \o t, T) = Hits(s, T) + Hits(t, T)
<1> DEFINE n == Len(s)
           moved == {n + i : i \in Spots(t, T)}
           F == [i \in Spots(t, T) |-> n + i]
<1>1. n \in Nat /\ DOMAIN s = 1 .. n /\ Len(t) \in Nat /\ DOMAIN t = 1 .. Len(t)
  OBVIOUS
<1>2. Spots(t, T) \subseteq 1 .. Len(t)
  BY <1>1 DEF Spots
<1>3. F \in Bijection(Spots(t, T), moved)
  <2>1. F \in [Spots(t, T) -> moved]
    OBVIOUS
  <2>2. \A x, y \in Spots(t, T) : F[x] = F[y] => x = y
    BY <1>1, <1>2
  <2>3. \A y \in moved : \E x \in Spots(t, T) : F[x] = y
    OBVIOUS
  <2> HIDE DEF moved, F
  <2> QED
    BY <2>1, <2>2, <2>3, Zenon DEF Bijection, Injection, Surjection, IsInjective
<1>4. ExistsBijection(Spots(t, T), moved)
  BY <1>3 DEF ExistsBijection
<1> HIDE DEF F
<1>5. IsFiniteSet(Spots(s, T)) /\ IsFiniteSet(Spots(t, T)) /\ Hits(s, T) \in Nat /\ Hits(t, T) \in Nat
  BY HitsType
<1>6. IsFiniteSet(moved) /\ Cardinality(moved) = Hits(t, T)
  BY <1>4, <1>5, FS_Bijection DEF Hits
<1>7. Spots(s \o t, T) = Spots(s, T) \cup moved
  <2>1. DOMAIN (s \o t) = 1 .. n + Len(t)
    BY <1>1
  <2>2. \A i \in 1 .. n + Len(t) : (s \o t)[i] = IF i <= n THEN s[i] ELSE t[i - n]
    BY ConcatProperties
  <2>3. \A i \in moved : i \in 1 .. n + Len(t) /\ i - n \in Spots(t, T) /\ i > n
    BY <1>1, <1>2
  <2>4. \A i \in Spots(t, T) : n + i \in moved
    OBVIOUS
  <2> HIDE DEF moved, n
  <2>5. ASSUME NEW i \in Spots(s \o t, T)
        PROVE  i \in Spots(s, T) \cup moved
    <3>1. i \in 1 .. n + Len(t) /\ (s \o t)[i] \in T
      BY <2>1 DEF Spots
    <3>2. ASSUME i <= n
          PROVE  i \in Spots(s, T)
      BY <1>1, <2>2, <3>1, <3>2 DEF Spots
    <3>3. ASSUME i > n
          PROVE  i \in moved
      <4>1. i - n \in 1 .. Len(t) /\ t[i - n] \in T
        BY <1>1, <2>2, <3>1, <3>3
      <4>2. i - n \in Spots(t, T)
        BY <1>1, <4>1 DEF Spots
      <4>3. n + (i - n) = i
        BY <1>1, <3>1
      <4> QED
        BY <2>4, <4>2, <4>3
    <3> QED
      BY <1>1, <3>1, <3>2, <3>3
  <2>6. ASSUME NEW i \in Spots(s, T)
        PROVE  i \in Spots(s \o t, T)
    BY <1>1, <2>1, <2>2 DEF Spots
  <2>7. ASSUME NEW i \in moved
        PROVE  i \in Spots(s \o t, T)
    BY <1>1, <2>1, <2>2, <2>3 DEF Spots
  <2> QED
    BY <2>5, <2>6, <2>7
<1>8. Spots(s, T) \cap moved = {}
  BY <1>1, <1>2 DEF Spots
<1>9. Cardinality(Spots(s, T) \cap moved) = 0
  BY <1>8, FS_EmptySet
<1> HIDE DEF moved
<1>10. Cardinality(Spots(s, T) \cup moved) = Cardinality(Spots(s, T)) + Cardinality(moved) - 0
  BY <1>5, <1>6, <1>9, FS_Union
<1> QED
  BY <1>5, <1>6, <1>7, <1>10 DEF Hits

LEMMA OneSymbol ==
  ASSUME NEW X, NEW x \in X
  PROVE  <<x>> \in Seq(X)
OBVIOUS

LEMMA HitsAppend ==
  ASSUME NEW X, NEW s \in Seq(X), NEW e \in X, NEW T
  PROVE  Hits(Append(s, e), T) = Hits(s, T) + One(e \in T)
<1>1. Append(s, e) = s \o <<e>>
  BY AppendIsConcat
<1>2. <<e>> \in Seq(X)
  BY OneSymbol
<1>3. Hits(s \o <<e>>, T) = Hits(s, T) + Hits(<<e>>, T)
  BY ONLY <1>2, HitsConcat, s \in Seq(X)
<1> QED
  BY <1>1, <1>3, HitsOne

LEMMA HitsTail ==
  ASSUME NEW X, NEW s \in Seq(X), s # <<>>, NEW T
  PROVE  Hits(s, T) = Hits(Tail(s), T) + One(Head(s) \in T)
<1>1. Head(s) \in X /\ Tail(s) \in Seq(X)
  BY HeadTailProperties
<1>2. <<Head(s)>> \in Seq(X)
  BY <1>1, OneSymbol
<1>3. s = <<Head(s)>> \o Tail(s)
  OBVIOUS
<1>4. Hits(<<Head(s)>> \o Tail(s), T) = Hits(<<Head(s)>>, T) + Hits(Tail(s), T)
  BY ONLY <1>1, <1>2, HitsConcat
<1>5. Hits(<<Head(s)>>, T) = One(Head(s) \in T)
  BY HitsOne
<1>6. Hits(Tail(s), T) \in Nat /\ One(Head(s) \in T) \in Nat
  BY <1>1, HitsType DEF One, Same
<1>7. Hits(s, T) = Hits(<<Head(s)>> \o Tail(s), T)
  BY ONLY <1>3
<1> QED
  BY <1>4, <1>5, <1>6, <1>7

LEMMA FrontType ==
  ASSUME NEW X, NEW s \in Seq(X), s # <<>>
  PROVE  /\ Front(s) \in Seq(X) /\ Last(s) \in X
         /\ Len(Front(s)) = Len(s) - 1
         /\ \A i \in 1 .. Len(s) - 1 : Front(s)[i] = s[i]
         /\ Front(s) \o <<Last(s)>> = s
<1>1. Len(s) \in Nat /\ Len(s) # 0
  OBVIOUS
<1>2. Front(s) \in Seq(X) /\ Len(Front(s)) = Len(s) - 1
      /\ \A i \in 1 .. Len(s) - 1 : Front(s)[i] = s[i]
  <2> DEFINE n == Len(s) - 1
  <2>1. n \in Nat /\ \A i \in 1 .. n : s[i] \in X
    BY <1>1
  <2>2. /\ SubSeq(s, 1, n) \in Seq(X)
        /\ Len(SubSeq(s, 1, n)) = IF 1 <= n THEN n - 1 + 1 ELSE 0
        /\ \A i \in 1 .. n - 1 + 1 : SubSeq(s, 1, n)[i] = s[1 + i - 1]
    BY <2>1, SubSeqProperties
  <2>3. Front(s) = SubSeq(s, 1, n)
    BY DEF Front
  <2> HIDE DEF n
  <2>4. Front(s) \in Seq(X) /\ Len(Front(s)) = n /\ \A i \in 1 .. n : Front(s)[i] = s[i]
    BY <2>1, <2>2, <2>3
  <2> QED
    BY <2>4 DEF n
<1>3. Last(s) \in X
  BY <1>1 DEF Last
<1>4. <<Last(s)>> \in Seq(X) /\ Len(<<Last(s)>>) = 1 /\ <<Last(s)>>[1] = Last(s)
  BY <1>3, OneSymbol
<1> DEFINE t == Front(s) \o <<Last(s)>>
<1>5. t \in Seq(X) /\ Len(t) = Len(s)
  BY <1>1, <1>2, <1>4, ConcatProperties
<1>6. ASSUME NEW i \in 1 .. Len(t)
      PROVE  t[i] = s[i]
  <2>1. t[i] = IF i <= Len(Front(s)) THEN Front(s)[i] ELSE <<Last(s)>>[i - Len(Front(s))]
    BY <1>2, <1>4, <1>5, ConcatProperties
  <2> HIDE DEF t
  <2>2. CASE i <= Len(s) - 1
    BY <1>2, <1>5, <2>1, <2>2
  <2>3. CASE i = Len(s)
    <3>1. i - Len(Front(s)) = 1 /\ ~ (i <= Len(Front(s)))
      BY <1>1, <1>2, <2>3
    <3> QED
      BY <1>4, <2>1, <2>3, <3>1 DEF Last
  <2> QED
    BY <1>1, <1>5, <2>2, <2>3
<1> HIDE DEF t
<1>7. t = s
  BY <1>5, <1>6, SeqEqual
<1> QED
  BY <1>2, <1>3, <1>7 DEF t

LEMMA HitsFront ==
  ASSUME NEW X, NEW s \in Seq(X), s # <<>>, NEW T
  PROVE  Hits(s, T) = Hits(Front(s), T) + One(Last(s) \in T)
<1>1. Front(s) \in Seq(X) /\ Last(s) \in X /\ Front(s) \o <<Last(s)>> = s
  BY FrontType
<1>2. PICK f, e : f = Front(s) /\ e = <<Last(s)>>
  OBVIOUS
<1>3. f \in Seq(X) /\ e \in Seq(X)
  BY <1>1, <1>2, OneSymbol
<1>4. Hits(s, T) = Hits(Front(s), T) + Hits(<<Last(s)>>, T)
  <2>1. Hits(f \o e, T) = Hits(f, T) + Hits(e, T)
    BY ONLY <1>3, HitsConcat
  <2> QED
    BY ONLY <1>1, <1>2, <2>1
<1>5. Hits(<<Last(s)>>, T) = One(Last(s) \in T)
  BY ONLY HitsOne
<1> QED
  BY ONLY <1>4, <1>5

LEMMA RemovedAt ==
  ASSUME NEW X, NEW s \in Seq(X), NEW i \in DOMAIN s
  PROVE  /\ RemoveAt(s, i) \in Seq(X)
         /\ Len(RemoveAt(s, i)) = Len(s) - 1
         /\ SubSeq(s, 1, i - 1) \in Seq(X) /\ SubSeq(s, i + 1, Len(s)) \in Seq(X)
         /\ SubSeq(s, 1, i - 1) \o (<<s[i]>> \o SubSeq(s, i + 1, Len(s))) = s
<1> DEFINE a == SubSeq(s, 1, i - 1)
           b == SubSeq(s, i + 1, Len(s))
<1>1. Len(s) \in Nat /\ i \in 1 .. Len(s) /\ s[i] \in X
  OBVIOUS
<1>2. a \in Seq(X) /\ Len(a) = i - 1 /\ \A j \in 1 .. i - 1 : a[j] = s[j]
  BY <1>1, SubSeqProperties
<1>3. b \in Seq(X) /\ Len(b) = Len(s) - i /\ \A j \in 1 .. Len(s) - i : b[j] = s[j + i]
  <2>1. \A j \in i + 1 .. Len(s) : s[j] \in X
    BY <1>1
  <2>2. /\ b \in Seq(X)
        /\ Len(b) = IF i + 1 <= Len(s) THEN Len(s) - (i + 1) + 1 ELSE 0
        /\ \A j \in 1 .. Len(s) - (i + 1) + 1 : b[j] = s[i + 1 + j - 1]
    BY <1>1, <2>1, SubSeqProperties
  <2> HIDE DEF b
  <2>3. Len(b) = Len(s) - i
    BY ONLY <1>1, <2>2
  <2>4. \A j \in 1 .. Len(s) - i : b[j] = s[j + i]
    BY ONLY <1>1, <2>2
  <2> QED
    BY ONLY <2>2, <2>3, <2>4
<1> HIDE DEF a, b
<1>4. a \o b \in Seq(X) /\ Len(a \o b) = Len(s) - 1
  BY <1>1, <1>2, <1>3, ConcatProperties
<1>5. <<s[i]>> \in Seq(X) /\ Len(<<s[i]>>) = 1 /\ <<s[i]>>[1] = s[i]
  BY <1>1, OneSymbol
<1> DEFINE c == <<s[i]>> \o b
           t == a \o c
<1>6. c \in Seq(X) /\ Len(c) = Len(s) - i + 1
      /\ \A j \in 1 .. Len(s) - i + 1 : c[j] = IF j <= 1 THEN <<s[i]>>[j] ELSE b[j - 1]
  BY <1>1, <1>3, <1>5, ConcatProperties
<1>7. \A j \in 1 .. Len(s) - i + 1 : c[j] = s[j + i - 1]
  <2> HIDE DEF c
  <2> TAKE j \in 1 .. Len(s) - i + 1
  <2>1. CASE j = 1
    BY <1>1, <1>5, <1>6, <2>1
  <2>2. CASE j > 1
    <3>1. j - 1 \in 1 .. Len(s) - i /\ (j - 1) + i = j + i - 1
      BY <1>1, <2>2
    <3> QED
      BY <1>3, <1>6, <2>2, <3>1
  <2> QED
    BY <1>1, <2>1, <2>2
<1> HIDE DEF c
<1>8. t \in Seq(X) /\ Len(t) = Len(s)
      /\ \A j \in 1 .. Len(s) : t[j] = IF j <= i - 1 THEN a[j] ELSE c[j - (i - 1)]
  <2>1. a \in Seq(X) /\ c \in Seq(X)
    BY <1>2, <1>6
  <2>2. /\ a \o c \in Seq(X) /\ Len(a \o c) = Len(a) + Len(c)
        /\ \A j \in 1 .. Len(a) + Len(c) : (a \o c)[j] = IF j <= Len(a) THEN a[j] ELSE c[j - Len(a)]
    BY ONLY <2>1, ConcatProperties
  <2>3. Len(a) = i - 1
    BY ONLY <1>2
  <2>4. Len(c) = Len(s) - i + 1
    BY ONLY <1>6
  <2>5. Len(a) + Len(c) = Len(s)
    <3>1. PICK n, k : n = Len(s) /\ k = i
      OBVIOUS
    <3>2. n \in Nat /\ k \in 1 .. n
      BY ONLY <1>1, <3>1
    <3>3. (k - 1) + (n - k + 1) = n
      BY ONLY <3>2
    <3> QED
      BY ONLY <2>3, <2>4, <3>1, <3>3
  <2> QED
    BY ONLY <2>2, <2>3, <2>5
<1> HIDE DEF t
<1>9. ASSUME NEW j \in 1 .. Len(t)
      PROVE  t[j] = s[j]
  <2>1. CASE j <= i - 1
    <3>1. j \in 1 .. i - 1 /\ j \in 1 .. Len(s)
      BY <1>1, <1>8, <2>1
    <3>2. t[j] = a[j]
      BY <1>8, <2>1, <3>1
    <3> QED
      BY <1>2, <3>1, <3>2
  <2>2. CASE j > i - 1
    <3>1. PICK k \in Int : k = j - (i - 1)
      BY <1>1, <1>8
    <3>2. k \in 1 .. Len(s) - i + 1 /\ k + i - 1 = j /\ j \in 1 .. Len(s) /\ ~ (j <= i - 1)
      BY <1>1, <1>8, <2>2, <3>1
    <3>3. t[j] = c[k]
      BY <1>8, <3>1, <3>2
    <3>4. c[k] = s[k + i - 1]
      BY ONLY <1>7, <3>2
    <3> QED
      BY <3>2, <3>3, <3>4
  <2> QED
    BY <1>1, <1>8, <2>1, <2>2
<1>10. t = s
  BY <1>8, <1>9, SeqEqual
<1> QED
  BY <1>2, <1>3, <1>4, <1>10 DEF RemoveAt, a, b, c, t

LEMMA HitsRemoveAt ==
  ASSUME NEW X, NEW s \in Seq(X), NEW i \in DOMAIN s, NEW T
  PROVE  Hits(s, T) = Hits(RemoveAt(s, i), T) + One(s[i] \in T)
<1> DEFINE a == SubSeq(s, 1, i - 1)
           b == SubSeq(s, i + 1, Len(s))
           c == <<s[i]>>
<1>1. a \in Seq(X) /\ b \in Seq(X) /\ a \o (c \o b) = s
  BY RemovedAt
<1>2. c \in Seq(X)
  BY OneSymbol
<1>3. RemoveAt(s, i) = a \o b
  BY DEF RemoveAt
<1>4. Hits(c, T) = One(s[i] \in T)
  BY HitsOne
<1> HIDE DEF a, b, c
<1>5. c \o b \in Seq(X)
  BY <1>1, <1>2, ConcatProperties
<1>6. Hits(c \o b, T) = Hits(c, T) + Hits(b, T)
  BY ONLY <1>1, <1>2, HitsConcat
<1>7. Hits(a \o (c \o b), T) = Hits(a, T) + Hits(c \o b, T)
  <2>1. PICK d : d = c \o b
    OBVIOUS
  <2>2. Hits(a \o d, T) = Hits(a, T) + Hits(d, T)
    BY ONLY <1>1, <1>5, <2>1, HitsConcat
  <2> QED
    BY ONLY <2>1, <2>2
<1>8. Hits(a \o b, T) = Hits(a, T) + Hits(b, T)
  BY ONLY <1>1, HitsConcat
<1>9. Hits(a, T) \in Nat /\ Hits(b, T) \in Nat /\ Hits(c, T) \in Nat
  BY <1>1, <1>2, HitsType
<1> QED
  BY ONLY <1>1, <1>3, <1>4, <1>6, <1>7, <1>8, <1>9

\* Some place, or none.
LEMMA HitsSome ==
  ASSUME NEW X, NEW s \in Seq(X), NEW T
  PROVE  Hits(s, T) = 0 <=> \A i \in DOMAIN s : s[i] \notin T
<1>1. IsFiniteSet(Spots(s, T))
  BY HitsType
<1>2. Hits(s, T) = 0 <=> Spots(s, T) = {}
  BY <1>1, FS_EmptySet DEF Hits
<1> QED
  BY <1>2 DEF Spots

-----------------------------------------------------------------------------
(* The members of a family of sets. *)

Family(S) == IsFiniteSet(DOMAIN S) /\ \A w \in DOMAIN S : IsFiniteSet(S[w])
Members(S) == UNION {{w} \X S[w] : w \in DOMAIN S}
Without(S, o) == [w \in DOMAIN S \ {o} |-> S[w]]

LEMMA MembersFinite ==
  ASSUME NEW S, Family(S)
  PROVE  IsFiniteSet(Members(S)) /\ Total(S) \in Nat /\ Total(S) = Cardinality(Members(S))
<1> DEFINE F == [w \in DOMAIN S |-> {w} \X S[w]]
           C == {{w} \X S[w] : w \in DOMAIN S}
<1>1. IsFiniteSet(DOMAIN S) /\ \A w \in DOMAIN S : IsFiniteSet(S[w])
  BY DEF Family
<1>2. F \in Surjection(DOMAIN S, C)
  BY DEF Surjection
<1>3. IsFiniteSet(C)
  <2> HIDE DEF F, C
  <2> QED
    BY <1>1, <1>2, FS_Surjection
<1>4. ASSUME NEW T \in C
      PROVE  IsFiniteSet(T)
  <2>1. PICK w \in DOMAIN S : T = {w} \X S[w]
    OBVIOUS
  <2>2. IsFiniteSet({w})
    BY FS_Singleton
  <2> QED
    BY <1>1, <2>1, <2>2, FS_Product
<1>5. Members(S) = UNION C
  BY DEF Members
<1> HIDE DEF C
<1>6. IsFiniteSet(UNION C)
  BY <1>3, <1>4, FS_UNION
<1> QED
  BY <1>5, <1>6, FS_CardinalityType DEF Total, Members

\* One set more.
LEMMA MembersOf ==
  ASSUME NEW S, Family(S), NEW o \in DOMAIN S
  PROVE  /\ Family(Without(S, o)) /\ IsFiniteSet(S[o]) /\ Cardinality(S[o]) \in Nat
         /\ Total(S) = Total(Without(S, o)) + Cardinality(S[o])
<1>1. IsFiniteSet(DOMAIN S) /\ \A w \in DOMAIN S : IsFiniteSet(S[w])
  BY DEF Family
<1>2. DOMAIN Without(S, o) = DOMAIN S \ {o} /\ \A w \in DOMAIN S \ {o} : Without(S, o)[w] = S[w]
  BY DEF Without
<1>3. IsFiniteSet(DOMAIN S \ {o})
  BY <1>1, FS_Subset
<1>4. Family(Without(S, o))
  BY <1>1, <1>2, <1>3 DEF Family
<1> DEFINE P == {o} \X S[o]
<1>5. Members(S) = Members(Without(S, o)) \cup P
  <2>1. \A x : x \in Members(S) <=> \E w \in DOMAIN S : x \in {w} \X S[w]
    BY DEF Members
  <2>2. \A x : x \in Members(Without(S, o)) <=> \E w \in DOMAIN S \ {o} : x \in {w} \X S[w]
    BY <1>2 DEF Members
  <2>3. \A x : x \in Members(S) <=> x \in Members(Without(S, o)) \/ x \in P
    BY <2>1, <2>2, Zenon
  <2> QED
    BY <2>3
<1>6. Members(Without(S, o)) \cap P = {}
  <2>1. \A x \in Members(Without(S, o)) : x[1] # o
    BY <1>2 DEF Members
  <2> QED
    BY <2>1
<1>7. IsFiniteSet({o}) /\ Cardinality({o}) = 1
  BY FS_Singleton
<1>8. IsFiniteSet(S[o]) /\ Cardinality(S[o]) \in Nat
  BY <1>1, FS_CardinalityType
<1>9. IsFiniteSet(P) /\ Cardinality(P) = 1 * Cardinality(S[o])
  BY <1>7, <1>8, FS_Product
<1> HIDE DEF P
<1>10. Cardinality(P) = Cardinality(S[o])
  BY <1>8, <1>9
<1>11. IsFiniteSet(Members(Without(S, o))) /\ Total(Without(S, o)) = Cardinality(Members(Without(S, o)))
      /\ Total(Without(S, o)) \in Nat
  BY <1>4, MembersFinite
<1>12. Cardinality(Members(Without(S, o)) \cap P) = 0
  BY <1>6, FS_EmptySet
<1>13. Cardinality(Members(Without(S, o)) \cup P)
       = Cardinality(Members(Without(S, o))) + Cardinality(P) - 0
  BY <1>9, <1>11, <1>12, FS_Union
<1>14. Total(S) = Cardinality(Members(S))
  BY MembersFinite
<1> QED
  BY <1>4, <1>5, <1>8, <1>10, <1>11, <1>13, <1>14

-----------------------------------------------------------------------------
(* The invariant. *)

AnyValue == Addr \cup Singleton
Kid == [key : Name \cup {Nothing}, val : AnyValue]
Block == [type : Types, nrefs : Nat, kids : Seq(Kid)]
Frame == [val : Addr, key : Name \cup {Nothing}]
SomePath == Seq(UNION {Range(p) : p \in Paths})
Walks == [op : {"visit"}, val : AnyValue \cup {Nothing}, path : SomePath]
         \cup {w \in [op : {"slice"}, val : AnyValue, path : SomePath, at : Int] :
                 w.path # <<>> /\ Head(w.path).type = "slice"}
Frees == [op : {"release"}, val : AnyValue] \cup [op : {"free"}, val : Addr]

\* The values of a heap; those of null, true and false never change.
IsHeap(h) ==
  /\ Singleton \subseteq DOMAIN h /\ DOMAIN h \subseteq AnyValue
  /\ h \in [DOMAIN h -> Block]
  /\ \A s \in Singleton : h[s] = [type |-> s, nrefs |-> 0, kids |-> <<>>]

ValuesTyped ==
  /\ IsHeap(values)
  /\ own \in [Addr -> Nat]
  /\ results \in Seq(AnyValue) \cup {Nothing}

\* A match walks, or frees are under way: never both.  What a match visits is
\* there.
There(h) == {w \in Walks : w.val \in DOMAIN h \/ (w.op = "visit" /\ w.val = Nothing)}
TodoInv ==
  \/ todo \in Seq(Frees)
  \/ todo \in Seq(There(values)) /\ results \in Seq(AnyValue)

\* The count of v is exact; it is zero from the last release of v, which frees
\* its elements, to the free of its block.
Counted(v) ==
  IF v \in Value
  THEN /\ values[v].nrefs = References(v)
       /\ Pending("free", v) = Same(values[v].nrefs, 0)
       /\ values[v].nrefs = 0 => values[v].kids = <<>>
  ELSE References(v) = 0 /\ Pending("free", v) = 0
AllCounted == \A v \in Addr : Counted(v)

\* The unfinished arrays and objects of the parser: an object that is waiting
\* for a value holds its key.
Waits(frame) == values[frame.val].type = "object" => frame.key # Nothing
DecShape == dec = [phase |-> dec.phase, stack |-> dec.stack, input |-> dec.input,
                   val |-> dec.val, source |-> dec.source]
StackInv ==
  /\ DecShape /\ dec.stack \in Seq(Frame) /\ dec.val \in AnyValue \cup {Nothing}
  /\ \A i \in DOMAIN dec.stack :
       \/ values[dec.stack[i].val].type = "object"
       \/ values[dec.stack[i].val].type = "array" /\ dec.stack[i].key = Nothing
KeysInv ==
  /\ dec.phase # "failing" => \A i \in 1 .. Len(dec.stack) - 1 : Waits(dec.stack[i])
  /\ dec.phase \in {"value", "deliver"} /\ dec.stack # <<>> => Waits(Top)
  /\ dec.phase \in {"key", "after"} => dec.stack # <<>> /\ Top.key = Nothing
  /\ dec.phase = "key" => values[Top.val].type = "object"
  /\ dec.phase = "deliver" <=> dec.val # Nothing

JsonInv == ValuesTyped /\ TodoInv /\ AllCounted /\ StackInv /\ KeysInv /\ StringsExact

-----------------------------------------------------------------------------
(* What the counts are made of. *)

Of(v) == {e \in Kid : e.val = v}
FramesOf(v) == {f \in Frame : f.val = v}
WithKey == {f \in Frame : f.key # Nothing}
Item(op, v) == [op |-> op, val |-> v]
FoundIn(r, v) == IF r = Nothing THEN 0 ELSE Hits(r, {v})
Refs(h, o, r, t, d, v) ==
  o[v] + Elements(h, v) + FoundIn(r, v) + Hits(t, {Item("release", v)})
  + Hits(d.stack, FramesOf(v)) + Same(d.val, v)

ElementSets(h, v) == [w \in DOMAIN h |-> {i \in DOMAIN h[w].kids : h[w].kids[i].val = v}]
StringSets(h) == [w \in DOMAIN h |-> StringsAt(h[w])]
StringsIn(h) == Total(StringSets(h))
StringCount(value) == Cardinality(StringsAt(value))

LEMMA OccursHits ==
  ASSUME NEW X, NEW s \in Seq(X), NEW v
  PROVE  Occurs(v, s) = Hits(s, {v})
<1>1. {i \in 1 .. Len(s) : s[i] = v} = Spots(s, {v})
  BY DEF Spots
<1> QED
  BY <1>1 DEF Occurs, Hits

LEMMA FrameHits ==
  ASSUME NEW s \in Seq(Frame), NEW v
  PROVE  /\ Cardinality({i \in DOMAIN s : s[i].val = v}) = Hits(s, FramesOf(v))
         /\ Cardinality({i \in DOMAIN s : s[i].key # Nothing}) = Hits(s, WithKey)
<1>1. \A i \in DOMAIN s : s[i] \in Frame
  OBVIOUS
<1>2. {i \in DOMAIN s : s[i].val = v} = Spots(s, FramesOf(v))
  BY <1>1 DEF Spots, FramesOf
<1>3. {i \in DOMAIN s : s[i].key # Nothing} = Spots(s, WithKey)
  BY <1>1 DEF Spots, WithKey
<1> QED
  BY <1>2, <1>3 DEF Hits

Todos == Seq(Frees \cup Walks)

LEMMA ThereType ==
  ASSUME NEW h, NEW s \in Seq(There(h))
  PROVE  s \in Seq(Walks)
<1>1. There(h) \subseteq Walks
  BY DEF There
<1> QED
  BY <1>1

LEMMA TodoType == TodoInv => todo \in Todos
BY ThereType DEF TodoInv, Todos

LEMMA References1 ==
  ASSUME results \in Seq(AnyValue) \cup {Nothing}, todo \in Todos, dec.stack \in Seq(Frame), NEW v
  PROVE  /\ References(v) = Refs(values, own, results, todo, dec, v)
         /\ \A op : Pending(op, v) = Hits(todo, {Item(op, v)})
<1>1. \A op : Pending(op, v) = Hits(todo, {Item(op, v)})
  BY OccursHits DEF Pending, Item, Todos
<1>2. results # Nothing => Occurs(v, results) = Hits(results, {v})
  BY OccursHits
<1>3. (IF results = Nothing THEN 0 ELSE Occurs(v, results)) = FoundIn(results, v)
  BY <1>2 DEF FoundIn
<1>4. Cardinality({i \in DOMAIN dec.stack : dec.stack[i].val = v}) = Hits(dec.stack, FramesOf(v))
  BY FrameHits
<1>5. (IF dec.val = v THEN 1 ELSE 0) = Same(dec.val, v)
  BY DEF One, Same
<1> QED
  BY <1>1, <1>3, <1>4, <1>5 DEF References, Refs

LEMMA References2 ==
  ASSUME results' \in Seq(AnyValue) \cup {Nothing}, todo' \in Todos, dec'.stack \in Seq(Frame), NEW v
  PROVE  /\ References(v)' = Refs(values', own', results', todo', dec', v)
         /\ \A op : Pending(op, v)' = Hits(todo', {Item(op, v)})
<1>1. \A op : Pending(op, v)' = Hits(todo', {Item(op, v)})
  <2> TAKE op
  <2>1. Pending(op, v)' = Occurs([op |-> op, val |-> v], todo')
    BY DEF Pending, Occurs
  <2> QED
    BY <2>1, OccursHits DEF Item, Todos
<1>2. results' # Nothing => Occurs(v, results') = Hits(results', {v})
  BY OccursHits
<1>3. (IF results' = Nothing THEN 0 ELSE Occurs(v, results')) = FoundIn(results', v)
  BY <1>2 DEF FoundIn
<1>4. Cardinality({i \in DOMAIN dec'.stack : dec'.stack[i].val = v}) = Hits(dec'.stack, FramesOf(v))
  BY FrameHits
<1>5. (IF dec'.val = v THEN 1 ELSE 0) = Same(dec'.val, v)
  BY DEF One, Same
<1>6. References(v)' = own'[v] + Elements(values', v) + (IF results' = Nothing THEN 0 ELSE Occurs(v, results'))
        + Pending("release", v)'
        + Cardinality({i \in DOMAIN dec'.stack : dec'.stack[i].val = v})
        + (IF dec'.val = v THEN 1 ELSE 0)
  BY DEF References, Elements, Occurs, Total
<1> QED
  BY <1>1, <1>3, <1>4, <1>5, <1>6 DEF Refs

LEMMA Strings1 ==
  ASSUME dec.stack \in Seq(Frame)
  PROVE  StringsExact <=> strings = StringsIn(values) + Hits(dec.stack, WithKey)
<1>1. Cardinality({i \in DOMAIN dec.stack : dec.stack[i].key # Nothing}) = Hits(dec.stack, WithKey)
  BY FrameHits
<1> QED
  BY <1>1 DEF StringsExact, StringsIn, StringSets, Value

LEMMA Strings2 ==
  ASSUME dec'.stack \in Seq(Frame)
  PROVE  StringsExact' <=> strings' = StringsIn(values') + Hits(dec'.stack, WithKey)
<1>1. Cardinality({i \in DOMAIN dec'.stack : dec'.stack[i].key # Nothing}) = Hits(dec'.stack, WithKey)
  BY FrameHits
<1>2. StringsExact' <=> strings' = Total([w \in Value' |-> StringsAt(values'[w])])
                        + Cardinality({i \in DOMAIN dec'.stack : dec'.stack[i].key # Nothing})
  BY DEF StringsExact, Total, StringsAt
<1> QED
  BY <1>1, <1>2 DEF StringsIn, StringSets, Value

-----------------------------------------------------------------------------
(* One value of a heap changes, is added or is removed. *)

LEMMA KidSpots ==
  ASSUME NEW s \in Seq(Kid), NEW v
  PROVE  {i \in DOMAIN s : s[i].val = v} = Spots(s, Of(v))
<1>1. \A i \in DOMAIN s : s[i] \in Kid
  OBVIOUS
<1> QED
  BY <1>1 DEF Spots, Of

LEMMA HeapFamilies ==
  ASSUME NEW h, IsHeap(h), ValuesOK, NEW v
  PROVE  /\ Family(ElementSets(h, v)) /\ Family(StringSets(h))
         /\ DOMAIN ElementSets(h, v) = DOMAIN h /\ DOMAIN StringSets(h) = DOMAIN h
         /\ \A w \in DOMAIN h : ElementSets(h, v)[w] = Spots(h[w].kids, Of(v))
         /\ \A w \in DOMAIN h : StringSets(h)[w] = StringsAt(h[w])
<1>1. IsFiniteSet(Singleton)
  <2>1. IsFiniteSet({"null"}) /\ IsFiniteSet({"true"}) /\ IsFiniteSet({"false"})
    BY FS_Singleton
  <2>2. IsFiniteSet({"null"} \cup {"true"})
    BY <2>1, FS_Union
  <2>3. IsFiniteSet({"null"} \cup {"true"} \cup {"false"})
    BY <2>1, <2>2, FS_Union
  <2>4. Singleton = {"null"} \cup {"true"} \cup {"false"}
    BY DEF Singleton
  <2> QED
    BY <2>3, <2>4
<1>2. IsFiniteSet(AnyValue)
  BY <1>1, FS_Union DEF ValuesOK, AnyValue
<1>3. IsFiniteSet(DOMAIN h)
  BY <1>2, FS_Subset DEF IsHeap
<1>4. \A w \in DOMAIN h : h[w].kids \in Seq(Kid)
  BY DEF IsHeap, Block
<1>5. \A w \in DOMAIN h : {i \in DOMAIN h[w].kids : h[w].kids[i].val = v} = Spots(h[w].kids, Of(v))
  BY <1>4, KidSpots
<1>6. \A w \in DOMAIN h : IsFiniteSet(Spots(h[w].kids, Of(v)))
  BY <1>4, HitsType
<1>7. ASSUME NEW w \in DOMAIN h
      PROVE  IsFiniteSet(StringsAt(h[w]))
  <2>1. h[w].kids \in Seq(Kid)
    BY <1>4
  <2>2. IsFiniteSet(DOMAIN h[w].kids)
    <3>1. PICK n \in Nat : DOMAIN h[w].kids = 1 .. n
      BY <2>1
    <3>2. IsFiniteSet(1 .. n)
      BY FS_Interval
    <3> QED
      BY <3>1, <3>2
  <2> QED
    BY <2>2, FS_Singleton, FS_EmptySet DEF StringsAt
<1> QED
  BY <1>3, <1>5, <1>6, <1>7 DEF Family, ElementSets, StringSets

Elsewhere(h, o, v) == Total(Without(ElementSets(h, v), o))
StringsElsewhere(h, o) == Total(Without(StringSets(h), o))

LEMMA CountsType ==
  ASSUME NEW h, IsHeap(h), ValuesOK, NEW v
  PROVE  Elements(h, v) \in Nat /\ StringsIn(h) \in Nat
<1>1. Family(ElementSets(h, v)) /\ Family(StringSets(h))
  BY HeapFamilies
<1> QED
  BY <1>1, MembersFinite DEF Elements, ElementSets, StringsIn

LEMMA CountsAt ==
  ASSUME NEW h, IsHeap(h), ValuesOK, NEW v, NEW o \in DOMAIN h
  PROVE  /\ Elements(h, v) = Elsewhere(h, o, v) + Hits(h[o].kids, Of(v))
         /\ StringsIn(h) = StringsElsewhere(h, o) + StringCount(h[o])
         /\ Elsewhere(h, o, v) \in Nat /\ StringsElsewhere(h, o) \in Nat
         /\ Hits(h[o].kids, Of(v)) \in Nat /\ StringCount(h[o]) \in Nat
<1>1. /\ Family(ElementSets(h, v)) /\ Family(StringSets(h))
      /\ o \in DOMAIN ElementSets(h, v) /\ o \in DOMAIN StringSets(h)
      /\ ElementSets(h, v)[o] = Spots(h[o].kids, Of(v))
      /\ StringSets(h)[o] = StringsAt(h[o])
  BY HeapFamilies
<1>2. /\ Family(Without(ElementSets(h, v), o)) /\ Cardinality(ElementSets(h, v)[o]) \in Nat
      /\ Total(ElementSets(h, v)) = Total(Without(ElementSets(h, v), o)) + Cardinality(ElementSets(h, v)[o])
  BY <1>1, MembersOf
<1>3. /\ Family(Without(StringSets(h), o)) /\ Cardinality(StringSets(h)[o]) \in Nat
      /\ Total(StringSets(h)) = Total(Without(StringSets(h), o)) + Cardinality(StringSets(h)[o])
  BY <1>1, MembersOf
<1>4. Total(Without(ElementSets(h, v), o)) \in Nat /\ Total(Without(StringSets(h), o)) \in Nat
  BY <1>2, <1>3, MembersFinite
<1>5. Elements(h, v) = Total(ElementSets(h, v)) /\ StringsIn(h) = Total(StringSets(h))
  BY DEF Elements, ElementSets, StringsIn
<1> QED
  BY <1>1, <1>2, <1>3, <1>4, <1>5 DEF Elsewhere, StringsElsewhere, Hits, StringCount

LEMMA ElsewhereSame ==
  ASSUME NEW h, NEW g, NEW o, NEW v, DOMAIN h \ {o} = DOMAIN g \ {o},
         \A w \in DOMAIN h \ {o} : g[w] = h[w]
  PROVE  Elsewhere(g, o, v) = Elsewhere(h, o, v) /\ StringsElsewhere(g, o) = StringsElsewhere(h, o)
<1>1. DOMAIN ElementSets(h, v) = DOMAIN h /\ DOMAIN ElementSets(g, v) = DOMAIN g
      /\ DOMAIN StringSets(h) = DOMAIN h /\ DOMAIN StringSets(g) = DOMAIN g
  BY DEF ElementSets, StringSets
<1>2. \A w \in DOMAIN h \ {o} : ElementSets(h, v)[w] = ElementSets(g, v)[w]
  BY DEF ElementSets
<1>3. \A w \in DOMAIN h \ {o} : StringSets(h)[w] = StringSets(g)[w]
  BY DEF StringSets
<1>4. Without(ElementSets(g, v), o) = Without(ElementSets(h, v), o)
  BY <1>1, <1>2 DEF Without
<1>5. Without(StringSets(g), o) = Without(StringSets(h), o)
  BY <1>1, <1>3 DEF Without
<1> QED
  BY <1>4, <1>5 DEF Elsewhere, StringsElsewhere

LEMMA AllElsewhere ==
  ASSUME NEW h, NEW o, NEW v, o \notin DOMAIN h
  PROVE  Elsewhere(h, o, v) = Elements(h, v) /\ StringsElsewhere(h, o) = StringsIn(h)
<1>1. Without(ElementSets(h, v), o) = ElementSets(h, v)
  BY DEF Without, ElementSets
<1>2. Without(StringSets(h), o) = StringSets(h)
  BY DEF Without, StringSets
<1> QED
  BY <1>1, <1>2 DEF Elsewhere, StringsElsewhere, Elements, ElementSets, StringsIn

Others(h, g, o) == DOMAIN h \ {o} = DOMAIN g \ {o} /\ \A w \in DOMAIN h \ {o} : g[w] = h[w]

LEMMA HeapChanges ==
  ASSUME NEW h, NEW g, IsHeap(h), IsHeap(g), ValuesOK, NEW o \in DOMAIN h, o \in DOMAIN g,
         Others(h, g, o), NEW v
  PROVE  /\ Elements(g, v) + Hits(h[o].kids, Of(v)) = Elements(h, v) + Hits(g[o].kids, Of(v))
         /\ StringsIn(g) + StringCount(h[o]) = StringsIn(h) + StringCount(g[o])
<1>1. Elsewhere(g, o, v) = Elsewhere(h, o, v) /\ StringsElsewhere(g, o) = StringsElsewhere(h, o)
  BY ElsewhereSame DEF Others
<1>2. /\ Elements(h, v) = Elsewhere(h, o, v) + Hits(h[o].kids, Of(v))
      /\ StringsIn(h) = StringsElsewhere(h, o) + StringCount(h[o])
      /\ Elsewhere(h, o, v) \in Nat /\ StringsElsewhere(h, o) \in Nat
      /\ Hits(h[o].kids, Of(v)) \in Nat /\ StringCount(h[o]) \in Nat
  BY CountsAt
<1>3. /\ Elements(g, v) = Elsewhere(g, o, v) + Hits(g[o].kids, Of(v))
      /\ StringsIn(g) = StringsElsewhere(g, o) + StringCount(g[o])
      /\ Hits(g[o].kids, Of(v)) \in Nat /\ StringCount(g[o]) \in Nat
  BY CountsAt
<1> QED
  BY <1>1, <1>2, <1>3

LEMMA HeapGrows ==
  ASSUME NEW h, NEW g, IsHeap(g), ValuesOK, NEW o \in DOMAIN g, o \notin DOMAIN h,
         Others(h, g, o), NEW v
  PROVE  /\ Elements(g, v) = Elements(h, v) + Hits(g[o].kids, Of(v))
         /\ StringsIn(g) = StringsIn(h) + StringCount(g[o])
<1>1. Elsewhere(g, o, v) = Elsewhere(h, o, v) /\ StringsElsewhere(g, o) = StringsElsewhere(h, o)
  BY ElsewhereSame DEF Others
<1>2. Elsewhere(h, o, v) = Elements(h, v) /\ StringsElsewhere(h, o) = StringsIn(h)
  BY AllElsewhere
<1>3. /\ Elements(g, v) = Elsewhere(g, o, v) + Hits(g[o].kids, Of(v))
      /\ StringsIn(g) = StringsElsewhere(g, o) + StringCount(g[o])
  BY CountsAt
<1> QED
  BY <1>1, <1>2, <1>3

LEMMA StringCounts ==
  ASSUME NEW b \in Block
  PROVE  StringCount(b) = IF b.type = "string" /\ b.nrefs > 0 THEN 1
                          ELSE IF b.type = "object" THEN Len(b.kids) ELSE 0
<1>1. b.kids \in Seq(Kid)
  BY DEF Block
<1>2. PICK n \in Nat : n = Len(b.kids) /\ DOMAIN b.kids = 1 .. n
  BY <1>1
<1>3. Cardinality(1 .. n) = n
  <2>1. Cardinality(1 .. n) = IF 1 > n THEN 0 ELSE n - 1 + 1
    BY FS_Interval
  <2> QED
    BY <2>1
<1>4. Cardinality({1}) = 1 /\ Cardinality({}) = 0
  BY FS_Singleton, FS_EmptySet
<1> QED
  BY <1>2, <1>3, <1>4 DEF StringCount, StringsAt

-----------------------------------------------------------------------------
(* The changes of the heap that the operations make. *)

TypesKept(h, g) == \A w \in DOMAIN h \cap DOMAIN g : g[w].type = h[w].type

Updated(h, o, b) == [h EXCEPT ![o] = b]

LEMMA HeapSet ==
  ASSUME NEW h, IsHeap(h), ValuesOK, NEW o \in DOMAIN h, o \notin Singleton,
         NEW b \in Block, b.type = h[o].type, NEW g, g = Updated(h, o, b)
  PROVE  /\ IsHeap(g) /\ DOMAIN g = DOMAIN h /\ g[o] = b
         /\ \A w \in DOMAIN h \ {o} : g[w] = h[w]
         /\ TypesKept(h, g)
         /\ \A v : Elements(g, v) + Hits(h[o].kids, Of(v)) = Elements(h, v) + Hits(b.kids, Of(v))
         /\ StringsIn(g) + StringCount(h[o]) = StringsIn(h) + StringCount(b)
<1>1. h \in [DOMAIN h -> Block]
  BY DEF IsHeap
<1>2. DOMAIN g = DOMAIN h /\ g[o] = b /\ \A w \in DOMAIN h \ {o} : g[w] = h[w]
  BY <1>1 DEF Updated
<1>3. IsHeap(g)
  <2>1. g \in [DOMAIN g -> Block]
    BY <1>1, <1>2 DEF Updated
  <2>2. \A s \in Singleton : g[s] = h[s]
    BY <1>2 DEF IsHeap
  <2> QED
    BY <1>2, <2>1, <2>2 DEF IsHeap
<1>4. TypesKept(h, g)
  <2>1. \A w \in DOMAIN h : g[w].type = h[w].type
    BY <1>2
  <2> QED
    BY <2>1 DEF TypesKept
<1>5. Others(h, g, o)
  BY <1>2 DEF Others
<1>6. o \in DOMAIN g
  BY <1>2
<1>7. \A v : /\ Elements(g, v) + Hits(h[o].kids, Of(v)) = Elements(h, v) + Hits(g[o].kids, Of(v))
             /\ StringsIn(g) + StringCount(h[o]) = StringsIn(h) + StringCount(g[o])
  BY ONLY <1>3, <1>5, <1>6, IsHeap(h), ValuesOK, o \in DOMAIN h, HeapChanges
<1> QED
  BY <1>2, <1>3, <1>4, <1>7

\* A value of the type with one reference, and no elements, is made.
Grown(h, g, a, type) ==
  /\ IsHeap(g) /\ a \notin DOMAIN h /\ a \in Addr
  /\ DOMAIN g = DOMAIN h \cup {a} /\ g[a] = Made(type)
  /\ \A w \in DOMAIN h : g[w] = h[w]
  /\ TypesKept(h, g)
  /\ \A v : Elements(g, v) = Elements(h, v)
  /\ StringsIn(g) = StringsIn(h) + Same(type, "string")

LEMMA FreshUnused ==
  ASSUME HasRoom
  PROVE  Fresh \in Addr \ Blocks
BY DEF HasRoom, Fresh

LEMMA WithGrows ==
  ASSUME IsHeap(values), ValuesOK, HasRoom, NEW type \in Types
  PROVE  Grown(values, With(Fresh, Made(type)), Fresh, type)
<1> DEFINE a == Fresh
           g == With(Fresh, Made(type))
<1>1. a \in Addr /\ a \notin DOMAIN values
  BY FreshUnused DEF Blocks, Value, ValuesOK
<1> HIDE DEF a
<1>2. g = [w \in DOMAIN values \cup {a} |-> IF w = a THEN Made(type) ELSE values[w]]
  BY DEF With, Value, a
<1> HIDE DEF g
<1>3. DOMAIN g = DOMAIN values \cup {a} /\ g[a] = Made(type) /\ \A w \in DOMAIN values : g[w] = values[w]
  BY <1>1, <1>2
<1>4. Made(type) \in Block /\ Made(type).kids = <<>> /\ Made(type).nrefs = 1 /\ Made(type).type = type
  BY DEF Made, Block
<1>5. IsHeap(g)
  <2>1. g \in [DOMAIN g -> Block]
    <3>1. values \in [DOMAIN values -> Block]
      BY DEF IsHeap
    <3>2. \A w \in DOMAIN values \cup {a} : g[w] \in Block
      BY <1>3, <1>4, <3>1
    <3> QED
      BY <1>2, <1>3, <3>2
  <2>2. \A s \in Singleton : g[s] = values[s]
    BY <1>3 DEF IsHeap
  <2> QED
    BY <1>1, <1>3, <2>1, <2>2 DEF IsHeap, AnyValue
<1>6. TypesKept(values, g)
  <2>1. \A w \in DOMAIN values : g[w].type = values[w].type
    BY <1>3
  <2> QED
    BY <2>1 DEF TypesKept
<1>7. Others(values, g, a)
  BY <1>1, <1>3 DEF Others
<1>8. a \in DOMAIN g
  BY <1>3
<1>9. \A v : /\ Elements(g, v) = Elements(values, v) + Hits(g[a].kids, Of(v))
             /\ StringsIn(g) = StringsIn(values) + StringCount(g[a])
  BY ONLY <1>1, <1>5, <1>7, <1>8, ValuesOK, HeapGrows
<1>10. \A v : Hits(g[a].kids, Of(v)) = 0
  BY <1>3, <1>4, HitsEmpty
<1>11. StringCount(g[a]) = Same(type, "string")
  <2>1. g[a].type = type /\ g[a].nrefs = 1 /\ g[a].kids = <<>> /\ g[a] \in Block
    BY <1>3, <1>4
  <2>2. StringCount(g[a]) = IF g[a].type = "string" /\ g[a].nrefs > 0 THEN 1
                            ELSE IF g[a].type = "object" THEN Len(g[a].kids) ELSE 0
    BY <2>1, StringCounts
  <2>3. Len(g[a].kids) = 0
    BY <2>1
  <2> QED
    BY <2>1, <2>2, <2>3 DEF One, Same
<1>12. \A v : Elements(values, v) \in Nat
  BY CountsType
<1>13. \A v : Elements(g, v) = Elements(values, v)
  BY <1>9, <1>10, <1>12
<1>14. StringsIn(g) = StringsIn(values) + Same(type, "string")
  BY <1>9, <1>11
<1> QED
  BY <1>1, <1>3, <1>5, <1>6, <1>13, <1>14 DEF Grown, a, g

\* One more reference to v.
RefTo(h, g, v) ==
  /\ IsHeap(g) /\ DOMAIN g = DOMAIN h
  /\ \A w \in DOMAIN h : /\ g[w].kids = h[w].kids
                         /\ g[w].nrefs = h[w].nrefs + (IF w \in Addr THEN Same(w, v) ELSE 0)
  /\ TypesKept(h, g)
  /\ \A w : Elements(g, w) = Elements(h, w)
  /\ StringsIn(g) = StringsIn(h)

LEMMA OccursOne ==
  ASSUME NEW v, NEW w
  PROVE  Occurs(w, <<v>>) = Same(v, w)
<1>1. <<v>> \in Seq({v})
  BY OneSymbol
<1>2. Occurs(w, <<v>>) = Hits(<<v>>, {w})
  BY <1>1, OccursHits
<1>3. Hits(<<v>>, {w}) = One(v \in {w})
  BY HitsOne
<1> QED
  BY <1>2, <1>3 DEF One, Same

LEMMA RefAdds ==
  ASSUME IsHeap(values), ValuesOK, NEW v \in DOMAIN values, v \in Singleton \/ values[v].nrefs > 0
  PROVE  RefTo(values, Ref(values, <<v>>), v)
<1>1. values \in [DOMAIN values -> Block] /\ DOMAIN values \subseteq Addr \cup Singleton
  BY DEF IsHeap, AnyValue
<1>2. Ref(values, <<v>>) = [w \in DOMAIN values |->
        IF w \in Singleton THEN values[w] ELSE [values[w] EXCEPT !.nrefs = @ + Same(v, w)]]
  BY OccursOne DEF Ref, IsSingleton
<1>3. \A w \in DOMAIN values : /\ values[w].nrefs \in Nat /\ values[w].kids \in Seq(Kid) /\ values[w].type \in Types
                               /\ values[w] = [type |-> values[w].type, nrefs |-> values[w].nrefs, kids |-> values[w].kids]
  BY <1>1 DEF Block
<1>4. CASE v \in Singleton
  <2>1. \A w \in DOMAIN values : w \notin Singleton => [values[w] EXCEPT !.nrefs = @ + Same(v, w)] = values[w]
    BY <1>3, <1>4 DEF One, Same
  <2>2. Ref(values, <<v>>) = values
    <3> DEFINE R == Ref(values, <<v>>)
    <3>1. DOMAIN R = DOMAIN values /\ \A w \in DOMAIN values : R[w] = values[w]
      BY <1>2, <2>1
    <3>2. R = [w \in DOMAIN R |-> R[w]] /\ values = [w \in DOMAIN values |-> values[w]]
      BY <1>1, <1>2
    <3> HIDE DEF R
    <3>3. R = values
      BY <3>1, <3>2
    <3> QED
      BY <3>3 DEF R
  <2>3. v \notin Addr
    BY <1>4 DEF ValuesOK
  <2> QED
    BY <1>3, <2>2, <2>3 DEF RefTo, TypesKept, One, Same
<1>5. CASE v \notin Singleton
  <2> DEFINE b == [type |-> values[v].type, nrefs |-> values[v].nrefs + 1, kids |-> values[v].kids]
  <2>1. Ref(values, <<v>>) = [values EXCEPT ![v] = b]
    <3>1. \A w \in DOMAIN values :
            (IF w \in Singleton THEN values[w] ELSE [values[w] EXCEPT !.nrefs = @ + Same(v, w)])
            = IF w = v THEN b ELSE values[w]
      BY <1>3, <1>5 DEF One, Same
    <3>2. [values EXCEPT ![v] = b] = [w \in DOMAIN values |-> IF w = v THEN b ELSE values[w]]
      BY <1>1
    <3> HIDE DEF b
    <3> QED
      BY <1>2, <3>1, <3>2
  <2>2. b \in Block /\ b.type = values[v].type /\ b.kids = values[v].kids /\ b.nrefs = values[v].nrefs + 1
    BY <1>3 DEF Block
  <2> HIDE DEF b
  <2>3. PICK g : g = Updated(values, v, b)
    OBVIOUS
  <2>4. /\ IsHeap(g) /\ DOMAIN g = DOMAIN values /\ g[v] = b
        /\ \A w \in DOMAIN values \ {v} : g[w] = values[w]
        /\ TypesKept(values, g)
        /\ \A w : Elements(g, w) + Hits(values[v].kids, Of(w)) = Elements(values, w) + Hits(b.kids, Of(w))
        /\ StringsIn(g) + StringCount(values[v]) = StringsIn(values) + StringCount(b)
    BY ONLY <1>5, <2>2, <2>3, IsHeap(values), ValuesOK, v \in DOMAIN values, HeapSet
  <2>5. \A w : Elements(g, w) \in Nat /\ Elements(values, w) \in Nat /\ Hits(values[v].kids, Of(w)) \in Nat
    BY <1>3, <2>4, CountsType, HitsType
  <2>6. \A w : Elements(g, w) = Elements(values, w)
    BY <2>2, <2>4, <2>5
  <2>7. values[v] \in Block /\ values[v].nrefs > 0
    BY <1>1, <1>5
  <2>8. StringCount(values[v]) = StringCount(b) /\ StringCount(b) \in Nat
    <3>1. StringCount(b) = IF b.type = "string" /\ b.nrefs > 0 THEN 1
                           ELSE IF b.type = "object" THEN Len(b.kids) ELSE 0
      BY <2>2, StringCounts
    <3>2. StringCount(values[v]) = IF values[v].type = "string" /\ values[v].nrefs > 0 THEN 1
                             ELSE IF values[v].type = "object" THEN Len(values[v].kids) ELSE 0
      BY <2>7, StringCounts
    <3>3. b.nrefs > 0 /\ Len(b.kids) \in Nat
      BY <1>3, <2>2, <2>7
    <3> QED
      BY <2>2, <2>7, <3>1, <3>2, <3>3
  <2>9. StringsIn(g) = StringsIn(values)
    <3>1. StringsIn(g) \in Nat /\ StringsIn(values) \in Nat
      BY <2>4, CountsType
    <3> QED
      BY <2>4, <2>8, <3>1
  <2>10. v \in Addr
    BY <1>1, <1>5
  <2>11. \A w \in DOMAIN values : /\ g[w].kids = values[w].kids
                         /\ g[w].nrefs = values[w].nrefs + (IF w \in Addr THEN Same(w, v) ELSE 0)
    BY <1>3, <2>2, <2>4, <2>10 DEF One, Same
  <2> QED
    BY <2>1, <2>3, <2>4, <2>6, <2>9, <2>11 DEF RefTo, Updated
<1> QED
  BY <1>4, <1>5

\* The elements of o change, and nothing else does.
KidsChange(h, g, o) ==
  /\ IsHeap(g) /\ DOMAIN g = DOMAIN h
  /\ \A w \in DOMAIN h : g[w].nrefs = h[w].nrefs /\ (w # o => g[w].kids = h[w].kids)
  /\ TypesKept(h, g)

LEMMA BlockParts ==
  ASSUME NEW h, IsHeap(h), NEW o \in DOMAIN h
  PROVE  /\ h[o] \in Block /\ h[o].type \in Types /\ h[o].nrefs \in Nat /\ h[o].kids \in Seq(Kid)
         /\ h[o] = [type |-> h[o].type, nrefs |-> h[o].nrefs, kids |-> h[o].kids]
         /\ o \in Addr \/ o \in Singleton
BY DEF IsHeap, Block, AnyValue

LEMMA KidAdded ==
  ASSUME NEW h, IsHeap(h), ValuesOK, NEW o \in DOMAIN h, o \notin Singleton,
         h[o].type \in {"object", "array"}, NEW k \in Name \cup {Nothing}, NEW v \in AnyValue,
         NEW g, g = AddKid(h, o, k, v)
  PROVE  /\ KidsChange(h, g, o)
         /\ \A w : Elements(g, w) = Elements(h, w) + Same(v, w)
         /\ StringsIn(g) = StringsIn(h) + Same(h[o].type, "object")
<1> DEFINE e == [key |-> k, val |-> v]
           b == [type |-> h[o].type, nrefs |-> h[o].nrefs, kids |-> Append(h[o].kids, e)]
<1>1. /\ h[o] \in Block /\ h[o].type \in Types /\ h[o].nrefs \in Nat /\ h[o].kids \in Seq(Kid)
      /\ h[o] = [type |-> h[o].type, nrefs |-> h[o].nrefs, kids |-> h[o].kids]
  BY BlockParts
<1>2. e \in Kid /\ e.val = v
  BY DEF Kid
<1>3. g = Updated(h, o, b)
  <2>1. [h[o] EXCEPT !.kids = Append(@, e)] = b
    <3>1. PICK s : s = Append(h[o].kids, e)
      OBVIOUS
    <3>2. PICK r : r = h[o]
      OBVIOUS
    <3>3. r = [type |-> h[o].type, nrefs |-> h[o].nrefs, kids |-> h[o].kids]
      BY <1>1, <3>2
    <3>4. [r EXCEPT !.kids = s] = [type |-> h[o].type, nrefs |-> h[o].nrefs, kids |-> s]
      BY ONLY <3>3
    <3> QED
      BY ONLY <3>1, <3>2, <3>4 DEF b
  <2>2. AddKid(h, o, k, v) = [h EXCEPT ![o] = [h[o] EXCEPT !.kids = Append(@, e)]]
    BY DEF AddKid
  <2> QED
    BY <2>1, <2>2 DEF Updated
<1>4. Append(h[o].kids, e) \in Seq(Kid) /\ Len(Append(h[o].kids, e)) = Len(h[o].kids) + 1
  BY <1>1, <1>2, AppendProperties
<1>5. b \in Block /\ b.type = h[o].type /\ b.nrefs = h[o].nrefs /\ b.kids = Append(h[o].kids, e)
  BY <1>1, <1>4 DEF Block
<1> HIDE DEF b, e
<1>6. /\ IsHeap(g) /\ DOMAIN g = DOMAIN h /\ g[o] = b
      /\ \A w \in DOMAIN h \ {o} : g[w] = h[w]
      /\ TypesKept(h, g)
      /\ \A w : Elements(g, w) + Hits(h[o].kids, Of(w)) = Elements(h, w) + Hits(b.kids, Of(w))
      /\ StringsIn(g) + StringCount(h[o]) = StringsIn(h) + StringCount(b)
  <2>1. b \in Block /\ b.type = h[o].type
    BY <1>5
  <2> QED
    BY ONLY <1>3, <2>1, IsHeap(h), ValuesOK, o \in DOMAIN h, o \notin Singleton, HeapSet
<1>7. KidsChange(h, g, o)
  BY <1>5, <1>6 DEF KidsChange
<1>8. ASSUME NEW w
      PROVE  Elements(g, w) = Elements(h, w) + Same(v, w)
  <2>1. Hits(b.kids, Of(w)) = Hits(h[o].kids, Of(w)) + One(e \in Of(w))
    BY <1>1, <1>2, <1>5, HitsAppend
  <2>2. One(e \in Of(w)) = Same(v, w)
    BY <1>2 DEF Of, One, Same
  <2>3. Elements(g, w) \in Nat /\ Elements(h, w) \in Nat /\ Hits(h[o].kids, Of(w)) \in Nat
        /\ Same(v, w) \in Nat
    BY <1>1, <1>6, CountsType, HitsType DEF One, Same
  <2> QED
    BY <1>6, <2>1, <2>2, <2>3
<1>9. StringsIn(g) = StringsIn(h) + Same(h[o].type, "object")
  <2>1. StringCount(b) = IF b.type = "string" /\ b.nrefs > 0 THEN 1
                         ELSE IF b.type = "object" THEN Len(b.kids) ELSE 0
    BY <1>5, StringCounts
  <2>2. StringCount(h[o]) = IF h[o].type = "string" /\ h[o].nrefs > 0 THEN 1
                         ELSE IF h[o].type = "object" THEN Len(h[o].kids) ELSE 0
    BY <1>1, StringCounts
  <2>3. Len(h[o].kids) \in Nat /\ StringsIn(g) \in Nat /\ StringsIn(h) \in Nat
    BY <1>1, <1>6, CountsType
  <2>4. Len(b.kids) = Len(h[o].kids) + 1
    BY <1>4, <1>5
  <2>5. StringCount(b) = StringCount(h[o]) + Same(h[o].type, "object") /\ StringCount(h[o]) \in Nat
    <3>1. CASE h[o].type = "object"
      <4>1. Same(h[o].type, "object") = 1
        BY <3>1 DEF One, Same
      <4> QED
        BY ONLY <1>5, <2>1, <2>2, <2>3, <2>4, <3>1, <4>1
    <3>2. CASE h[o].type = "array"
      <4>1. Same(h[o].type, "object") = 0
        BY <3>2 DEF One, Same
      <4> QED
        BY ONLY <1>5, <2>1, <2>2, <2>3, <2>4, <3>2, <4>1
    <3> QED
      BY <3>1, <3>2
  <2>6. Same(h[o].type, "object") \in Nat
    BY DEF One, Same
  <2> QED
    BY <1>6, <2>3, <2>5, <2>6
<1> QED
  BY <1>7, <1>8, <1>9

LEMMA KidDropped ==
  ASSUME IsHeap(values), ValuesOK, NEW o \in DOMAIN values, values[o].type \in {"object", "array"},
         NEW i \in DOMAIN values[o].kids, NEW g, g = DropKid(o, i)
  PROVE  /\ KidsChange(values, g, o)
         /\ values[o].kids[i].val \in AnyValue
         /\ \A w : Elements(values, w) = Elements(g, w) + Same(values[o].kids[i].val, w)
         /\ StringsIn(values) = StringsIn(g) + Same(values[o].type, "object")
<1> DEFINE b == [type |-> values[o].type, nrefs |-> values[o].nrefs, kids |-> RemoveAt(values[o].kids, i)]
<1>1. /\ values[o] \in Block /\ values[o].type \in Types /\ values[o].nrefs \in Nat /\ values[o].kids \in Seq(Kid)
      /\ values[o] = [type |-> values[o].type, nrefs |-> values[o].nrefs, kids |-> values[o].kids]
  BY BlockParts
<1>2. o \notin Singleton
  BY DEF IsHeap, Singleton
<1>3. PICK s : s = values[o].kids
  OBVIOUS
<1>4. s \in Seq(Kid) /\ i \in DOMAIN s /\ s[i] \in Kid
  BY <1>1, <1>3
<1>5. s[i].val \in AnyValue
  BY <1>4 DEF Kid
<1>6. RemoveAt(s, i) \in Seq(Kid) /\ Len(RemoveAt(s, i)) = Len(s) - 1
  BY <1>4, RemovedAt
<1>7. g = Updated(values, o, b)
  <2>1. [values[o] EXCEPT !.kids = RemoveAt(@, i)] = b
    BY <1>1
  <2>2. DropKid(o, i) = [values EXCEPT ![o] = [values[o] EXCEPT !.kids = RemoveAt(@, i)]]
    BY DEF DropKid
  <2> QED
    BY <2>1, <2>2 DEF Updated
<1>8. b \in Block /\ b.type = values[o].type /\ b.nrefs = values[o].nrefs /\ b.kids = RemoveAt(s, i)
  BY <1>1, <1>3, <1>6 DEF Block
<1> HIDE DEF b
<1>9. /\ IsHeap(g) /\ DOMAIN g = DOMAIN values /\ g[o] = b
      /\ \A w \in DOMAIN values \ {o} : g[w] = values[w]
      /\ TypesKept(values, g)
      /\ \A w : Elements(g, w) + Hits(values[o].kids, Of(w)) = Elements(values, w) + Hits(b.kids, Of(w))
      /\ StringsIn(g) + StringCount(values[o]) = StringsIn(values) + StringCount(b)
  BY ONLY <1>2, <1>7, <1>8, IsHeap(values), ValuesOK, o \in DOMAIN values, HeapSet
<1>10. KidsChange(values, g, o)
  BY <1>8, <1>9 DEF KidsChange
<1>11. ASSUME NEW w
       PROVE  Elements(values, w) = Elements(g, w) + Same(s[i].val, w)
  <2>1. Hits(s, Of(w)) = Hits(RemoveAt(s, i), Of(w)) + One(s[i] \in Of(w))
    BY <1>4, HitsRemoveAt
  <2>2. One(s[i] \in Of(w)) = Same(s[i].val, w)
    BY <1>4 DEF Of, One, Same
  <2>3. Elements(g, w) \in Nat /\ Elements(values, w) \in Nat /\ Hits(RemoveAt(s, i), Of(w)) \in Nat
        /\ Same(s[i].val, w) \in Nat
    BY <1>6, <1>9, CountsType, HitsType DEF One, Same
  <2> QED
    BY <1>3, <1>8, <1>9, <2>1, <2>2, <2>3
<1>12. StringsIn(values) = StringsIn(g) + Same(values[o].type, "object")
  <2>1. StringCount(b) = IF b.type = "string" /\ b.nrefs > 0 THEN 1
                         ELSE IF b.type = "object" THEN Len(b.kids) ELSE 0
    BY <1>8, StringCounts
  <2>2. StringCount(values[o]) = IF values[o].type = "string" /\ values[o].nrefs > 0 THEN 1
                           ELSE IF values[o].type = "object" THEN Len(values[o].kids) ELSE 0
    BY <1>1, StringCounts
  <2>3. Len(s) \in Nat /\ StringsIn(g) \in Nat /\ StringsIn(values) \in Nat
    BY <1>4, <1>9, CountsType
  <2>4. Len(b.kids) = Len(s) - 1 /\ Len(b.kids) \in Nat
    BY <1>6, <1>8
  <2>5. StringCount(values[o]) = StringCount(b) + Same(values[o].type, "object") /\ StringCount(b) \in Nat
    <3>1. CASE values[o].type = "object"
      <4>1. Same(values[o].type, "object") = 1
        BY <3>1 DEF One, Same
      <4> QED
        BY ONLY <1>3, <1>8, <2>1, <2>2, <2>3, <2>4, <3>1, <4>1
    <3>2. CASE values[o].type = "array"
      <4>1. Same(values[o].type, "object") = 0
        BY <3>2 DEF One, Same
      <4> QED
        BY ONLY <1>3, <1>8, <2>1, <2>2, <2>3, <2>4, <3>2, <4>1
    <3> QED
      BY <3>1, <3>2
  <2>6. Same(values[o].type, "object") \in Nat
    BY DEF One, Same
  <2> QED
    BY <1>9, <2>3, <2>5, <2>6
<1> QED
  BY <1>3, <1>5, <1>10, <1>11, <1>12

\* A release that is not the last.
CountedDown(v) == [values EXCEPT ![v].nrefs = @ - 1]

LEMMA OneLess ==
  ASSUME IsHeap(values), ValuesOK, NEW v \in DOMAIN values, v \notin Singleton, values[v].nrefs > 1,
         NEW g, g = CountedDown(v)
  PROVE  /\ IsHeap(g) /\ DOMAIN g = DOMAIN values /\ TypesKept(values, g)
         /\ \A w \in DOMAIN values : /\ g[w].kids = values[w].kids
                                     /\ values[w].nrefs = g[w].nrefs + Same(w, v)
                                     /\ g[w].nrefs = 0 <=> values[w].nrefs = 0
         /\ \A w : Elements(g, w) = Elements(values, w)
         /\ StringsIn(g) = StringsIn(values)
<1> DEFINE b == [type |-> values[v].type, nrefs |-> values[v].nrefs - 1, kids |-> values[v].kids]
<1>1. /\ values[v] \in Block /\ values[v].type \in Types /\ values[v].nrefs \in Nat /\ values[v].kids \in Seq(Kid)
      /\ values[v] = [type |-> values[v].type, nrefs |-> values[v].nrefs, kids |-> values[v].kids]
  BY BlockParts
<1>2. g = Updated(values, v, b)
  <2>1. [values[v] EXCEPT !.nrefs = @ - 1] = b
    BY <1>1
  <2> QED
    BY <2>1 DEF Updated, CountedDown
<1>3. b \in Block /\ b.type = values[v].type /\ b.nrefs = values[v].nrefs - 1 /\ b.kids = values[v].kids
  BY <1>1 DEF Block
<1> HIDE DEF b
<1>4. /\ IsHeap(g) /\ DOMAIN g = DOMAIN values /\ g[v] = b
      /\ \A w \in DOMAIN values \ {v} : g[w] = values[w]
      /\ TypesKept(values, g)
      /\ \A w : Elements(g, w) + Hits(values[v].kids, Of(w)) = Elements(values, w) + Hits(b.kids, Of(w))
      /\ StringsIn(g) + StringCount(values[v]) = StringsIn(values) + StringCount(b)
  BY ONLY <1>2, <1>3, IsHeap(values), ValuesOK, v \in DOMAIN values, v \notin Singleton, HeapSet
<1>5. \A w : Elements(g, w) \in Nat /\ Elements(values, w) \in Nat /\ Hits(values[v].kids, Of(w)) \in Nat
  BY <1>1, <1>4, CountsType, HitsType
<1>6. \A w : Elements(g, w) = Elements(values, w)
  BY ONLY <1>3, <1>4, <1>5
<1>7. StringCount(values[v]) = StringCount(b) /\ StringCount(b) \in Nat
  <2>1. StringCount(b) = IF b.type = "string" /\ b.nrefs > 0 THEN 1
                         ELSE IF b.type = "object" THEN Len(b.kids) ELSE 0
    BY <1>3, StringCounts
  <2>2. StringCount(values[v]) = IF values[v].type = "string" /\ values[v].nrefs > 0 THEN 1
                           ELSE IF values[v].type = "object" THEN Len(values[v].kids) ELSE 0
    BY <1>1, StringCounts
  <2>3. Len(values[v].kids) \in Nat /\ b.nrefs > 0 /\ values[v].nrefs > 0
    BY <1>1, <1>3
  <2> QED
    BY ONLY <1>3, <2>1, <2>2, <2>3
<1>8. StringsIn(g) = StringsIn(values)
  <2>1. StringsIn(g) \in Nat /\ StringsIn(values) \in Nat
    BY <1>4, CountsType
  <2> QED
    BY <1>4, <1>7, <2>1
<1>9. ASSUME NEW w \in DOMAIN values
      PROVE  /\ g[w].kids = values[w].kids
             /\ values[w].nrefs = g[w].nrefs + Same(w, v)
             /\ g[w].nrefs = 0 <=> values[w].nrefs = 0
  <2>1. CASE w = v
    BY <1>1, <1>3, <1>4, <2>1 DEF One, Same
  <2>2. CASE w # v
    <3>1. g[w] = values[w] /\ values[w].nrefs \in Nat
      BY <1>4, <2>2, BlockParts
    <3> QED
      BY <2>2, <3>1 DEF One, Same
  <2> QED
    BY <2>1, <2>2
<1> QED
  BY <1>4, <1>6, <1>8, <1>9

\* The last release: the elements and the strings of the value go.
EmptiedHeap(v) == [values EXCEPT ![v].nrefs = @ - 1, ![v].kids = <<>>]

LEMMA Emptied ==
  ASSUME IsHeap(values), ValuesOK, NEW v \in DOMAIN values, v \notin Singleton, values[v].nrefs = 1,
         NEW g, g = EmptiedHeap(v)
  PROVE  /\ IsHeap(g) /\ DOMAIN g = DOMAIN values /\ TypesKept(values, g)
         /\ g[v].nrefs = 0 /\ g[v].kids = <<>>
         /\ \A w \in DOMAIN values : w # v => g[w] = values[w]
         /\ \A w : Elements(values, w) = Elements(g, w) + Hits(values[v].kids, Of(w))
         /\ StringsIn(values) = StringsIn(g) + StringsOf(v)
<1> DEFINE b == [type |-> values[v].type, nrefs |-> 0, kids |-> <<>>]
<1>1. /\ values[v] \in Block /\ values[v].type \in Types /\ values[v].nrefs \in Nat /\ values[v].kids \in Seq(Kid)
      /\ values[v] = [type |-> values[v].type, nrefs |-> values[v].nrefs, kids |-> values[v].kids]
  BY BlockParts
<1>2. g = Updated(values, v, b)
  <2>1. values \in [DOMAIN values -> Block]
    BY DEF IsHeap
  <2>2. [values[v] EXCEPT !.nrefs = @ - 1, !.kids = <<>>] = b
    <3>1. values[v].nrefs - 1 = 0
      OBVIOUS
    <3>2. PICK r : r = values[v]
      OBVIOUS
    <3>3. r = [type |-> values[v].type, nrefs |-> values[v].nrefs, kids |-> values[v].kids]
      BY <1>1, <3>2
    <3>4. PICK c : c = [type |-> values[v].type, nrefs |-> 0, kids |-> values[v].kids]
      OBVIOUS
    <3>5. [r EXCEPT !.nrefs = 0] = c
      BY ONLY <3>3, <3>4
    <3>6. [c EXCEPT !.kids = <<>>] = [type |-> values[v].type, nrefs |-> 0, kids |-> <<>>]
      BY ONLY <3>4
    <3>7. [r EXCEPT !.nrefs = 0, !.kids = <<>>] = [[r EXCEPT !.nrefs = 0] EXCEPT !.kids = <<>>]
      BY ONLY <3>3
    <3>8. [r EXCEPT !.nrefs = 0, !.kids = <<>>] = [type |-> values[v].type, nrefs |-> 0, kids |-> <<>>]
      BY ONLY <3>5, <3>6, <3>7
    <3> QED
      BY ONLY <3>1, <3>2, <3>8 DEF b
  <2>3. g = [values EXCEPT ![v] = [values[v] EXCEPT !.nrefs = @ - 1, !.kids = <<>>]]
    BY <1>1, <2>1 DEF EmptiedHeap
  <2> QED
    BY <2>2, <2>3 DEF Updated
<1>3. b \in Block /\ b.type = values[v].type /\ b.nrefs = 0 /\ b.kids = <<>>
  BY <1>1 DEF Block
<1> HIDE DEF b
<1>4. /\ IsHeap(g) /\ DOMAIN g = DOMAIN values /\ g[v] = b
      /\ \A w \in DOMAIN values \ {v} : g[w] = values[w]
      /\ TypesKept(values, g)
      /\ \A w : Elements(g, w) + Hits(values[v].kids, Of(w)) = Elements(values, w) + Hits(b.kids, Of(w))
      /\ StringsIn(g) + StringCount(values[v]) = StringsIn(values) + StringCount(b)
  BY ONLY <1>2, <1>3, IsHeap(values), ValuesOK, v \in DOMAIN values, v \notin Singleton, HeapSet
<1>5. \A w : /\ Elements(g, w) \in Nat /\ Elements(values, w) \in Nat /\ Hits(values[v].kids, Of(w)) \in Nat
             /\ Hits(b.kids, Of(w)) = 0
  BY <1>1, <1>3, <1>4, CountsType, HitsType, HitsEmpty
<1>6. \A w : Elements(values, w) = Elements(g, w) + Hits(values[v].kids, Of(w))
  BY ONLY <1>4, <1>5
<1>7. StringCount(values[v]) = StringsOf(v) /\ StringCount(b) = 0 /\ StringsOf(v) \in Nat
  <2>1. StringCount(b) = IF b.type = "string" /\ b.nrefs > 0 THEN 1
                         ELSE IF b.type = "object" THEN Len(b.kids) ELSE 0
    BY <1>3, StringCounts
  <2>2. StringCount(values[v]) = IF values[v].type = "string" /\ values[v].nrefs > 0 THEN 1
                           ELSE IF values[v].type = "object" THEN Len(values[v].kids) ELSE 0
    BY <1>1, StringCounts
  <2>3. Len(values[v].kids) \in Nat
    BY <1>1
  <2> QED
    BY <1>3, <2>1, <2>2, <2>3 DEF StringsOf
<1>8. StringsIn(values) = StringsIn(g) + StringsOf(v)
  <2>1. StringsIn(g) \in Nat /\ StringsIn(values) \in Nat
    BY <1>4, CountsType
  <2> QED
    BY <1>4, <1>7, <2>1
<1> QED
  BY <1>3, <1>4, <1>6, <1>8

\* The block of a value is freed after its last release.
LEMMA Removed ==
  ASSUME IsHeap(values), ValuesOK, NEW v \in DOMAIN values, v \notin Singleton,
         values[v].nrefs = 0, values[v].kids = <<>>,
         NEW g, g = [w \in DOMAIN values \ {v} |-> values[w]]
  PROVE  /\ IsHeap(g) /\ DOMAIN g = DOMAIN values \ {v} /\ TypesKept(values, g)
         /\ \A w \in DOMAIN values \ {v} : g[w] = values[w]
         /\ \A w : Elements(g, w) = Elements(values, w)
         /\ StringsIn(g) = StringsIn(values)
<1>1. DOMAIN g = DOMAIN values \ {v} /\ \A w \in DOMAIN values \ {v} : g[w] = values[w]
  OBVIOUS
<1>2. IsHeap(g)
  <2>1. values \in [DOMAIN values -> Block]
    BY DEF IsHeap
  <2>2. g \in [DOMAIN g -> Block]
    BY <1>1, <2>1
  <2>3. \A s \in Singleton : g[s] = values[s]
    BY <1>1 DEF IsHeap
  <2> QED
    BY <1>1, <2>2, <2>3 DEF IsHeap
<1>3. TypesKept(values, g)
  BY <1>1 DEF TypesKept
<1>4. Others(g, values, v) /\ v \notin DOMAIN g
  BY <1>1 DEF Others
<1>5. \A w : /\ Elements(values, w) = Elements(g, w) + Hits(values[v].kids, Of(w))
             /\ StringsIn(values) = StringsIn(g) + StringCount(values[v])
  BY ONLY <1>4, IsHeap(values), ValuesOK, v \in DOMAIN values, HeapGrows
<1>6. \A w : Hits(values[v].kids, Of(w)) = 0 /\ Elements(g, w) \in Nat /\ StringsIn(g) \in Nat
  BY <1>2, HitsEmpty, CountsType
<1>7. StringCount(values[v]) = 0
  <2>1. values[v] \in Block
    BY BlockParts
  <2>2. StringCount(values[v]) = IF values[v].type = "string" /\ values[v].nrefs > 0 THEN 1
                           ELSE IF values[v].type = "object" THEN Len(values[v].kids) ELSE 0
    BY <2>1, StringCounts
  <2>3. Len(values[v].kids) = 0
    OBVIOUS
  <2> QED
    BY <2>2, <2>3
<1>8. \A w : Elements(g, w) = Elements(values, w)
  BY ONLY <1>5, <1>6
<1>9. StringsIn(g) = StringsIn(values)
  BY ONLY <1>5, <1>6, <1>7
<1> QED
  BY <1>1, <1>2, <1>3, <1>8, <1>9

-----------------------------------------------------------------------------
(* The counts of a state that satisfies the invariant. *)

CountedIn(h, o, r, t, d, v) ==
  IF v \in DOMAIN h
  THEN /\ h[v].nrefs = Refs(h, o, r, t, d, v)
       /\ Hits(t, {Item("free", v)}) = Same(h[v].nrefs, 0)
       /\ h[v].nrefs = 0 => h[v].kids = <<>>
  ELSE Refs(h, o, r, t, d, v) = 0 /\ Hits(t, {Item("free", v)}) = 0

LEMMA SameType == \A x, y : Same(x, y) \in Nat
BY DEF Same, Same

LEMMA Counting ==
  ASSUME JsonInv, ValuesOK, NEW v \in Addr
  PROVE  /\ CountedIn(values, own, results, todo, dec, v)
         /\ own[v] \in Nat /\ Elements(values, v) \in Nat /\ FoundIn(results, v) \in Nat
         /\ Hits(todo, {Item("release", v)}) \in Nat /\ Hits(todo, {Item("free", v)}) \in Nat
         /\ Hits(dec.stack, FramesOf(v)) \in Nat /\ Same(dec.val, v) \in Nat
         /\ v \in Value => values[v].nrefs \in Nat
<1>1. results \in Seq(AnyValue) \cup {Nothing} /\ todo \in Todos /\ dec.stack \in Seq(Frame)
      /\ IsHeap(values) /\ own \in [Addr -> Nat]
  BY TodoType DEF JsonInv, ValuesTyped, StackInv
<1>2. References(v) = Refs(values, own, results, todo, dec, v)
      /\ Pending("free", v) = Hits(todo, {Item("free", v)})
  BY ONLY <1>1, References1
<1>3. Counted(v)
  BY DEF JsonInv, AllCounted
<1>4. CountedIn(values, own, results, todo, dec, v)
  BY <1>2, <1>3 DEF Counted, CountedIn, Value
<1>5. FoundIn(results, v) \in Nat
  BY <1>1, HitsType DEF FoundIn
<1>6. Hits(todo, {Item("release", v)}) \in Nat /\ Hits(todo, {Item("free", v)}) \in Nat
  BY <1>1, HitsType DEF Todos
<1>7. Hits(dec.stack, FramesOf(v)) \in Nat
  BY <1>1, HitsType
<1>8. Elements(values, v) \in Nat
  BY <1>1, CountsType
<1>9. v \in Value => values[v].nrefs \in Nat
  BY <1>1, BlockParts DEF Value
<1> QED
  BY <1>1, <1>4, <1>5, <1>6, <1>7, <1>8, <1>9 DEF One, Same

LEMMA Recounted ==
  ASSUME ValuesTyped', todo' \in Todos, dec'.stack \in Seq(Frame),
         \A v \in Addr : CountedIn(values', own', results', todo', dec', v)
  PROVE  AllCounted'
<1>1. results' \in Seq(AnyValue) \cup {Nothing}
  BY DEF ValuesTyped
<1>2. ASSUME NEW v \in Addr
      PROVE  Counted(v)'
  <2>1. References(v)' = Refs(values', own', results', todo', dec', v)
        /\ Pending("free", v)' = Hits(todo', {Item("free", v)})
    BY ONLY <1>1, todo' \in Todos, dec'.stack \in Seq(Frame), References2
  <2>2. CountedIn(values', own', results', todo', dec', v)
    OBVIOUS
  <2> QED
    BY <2>1, <2>2 DEF Counted, CountedIn, Value
<1> QED
  BY <1>2 DEF AllCounted

\* Every value an element, a frame of the parser or a reference of the program
\* points to is there.
LEMMA Referred ==
  ASSUME JsonInv, ValuesOK, NEW v \in Addr,
         own[v] > 0 \/ Elements(values, v) > 0 \/ Hits(dec.stack, FramesOf(v)) > 0
         \/ Hits(todo, {Item("release", v)}) > 0 \/ Hits(todo, {Item("free", v)}) > 0
  PROVE  v \in Value
<1>1. /\ CountedIn(values, own, results, todo, dec, v)
      /\ own[v] \in Nat /\ Elements(values, v) \in Nat /\ FoundIn(results, v) \in Nat
      /\ Hits(todo, {Item("release", v)}) \in Nat /\ Hits(todo, {Item("free", v)}) \in Nat
      /\ Hits(dec.stack, FramesOf(v)) \in Nat /\ Same(dec.val, v) \in Nat
  BY Counting
<1>2. Refs(values, own, results, todo, dec, v) > 0 \/ Hits(todo, {Item("free", v)}) > 0
  BY <1>1 DEF Refs
<1> QED
  BY <1>1, <1>2 DEF CountedIn, Value

LEMMA KidsThere ==
  ASSUME JsonInv, ValuesOK, NEW w \in Value, NEW i \in DOMAIN values[w].kids
  PROVE  values[w].kids[i].val \in Value
<1>1. IsHeap(values) /\ w \in DOMAIN values
  BY DEF JsonInv, ValuesTyped, Value
<1>2. PICK s : s = values[w].kids
  OBVIOUS
<1>3. s \in Seq(Kid) /\ i \in DOMAIN s
  BY <1>1, <1>2, BlockParts
<1>4. s[i] \in Kid
  BY <1>3
<1>5. PICK v \in AnyValue : v = s[i].val
  BY <1>4 DEF Kid
<1>6. ASSUME v \in Addr
      PROVE  v \in Value
  <2>1. s[i] \in Of(v)
    BY <1>4, <1>5 DEF Of
  <2>2. Hits(s, Of(v)) # 0
    BY <1>3, <2>1, HitsSome
  <2>3. Hits(s, Of(v)) \in Nat
    BY <1>3, HitsType
  <2>4. Elements(values, v) = Elsewhere(values, w, v) + Hits(s, Of(v)) /\ Elsewhere(values, w, v) \in Nat
    BY <1>1, <1>2, CountsAt
  <2>5. Elements(values, v) > 0
    BY <2>2, <2>3, <2>4
  <2> QED
    BY <1>6, <2>5, Referred
<1> QED
  BY <1>1, <1>2, <1>5, <1>6 DEF AnyValue, IsHeap, Value

LEMMA FramesThere ==
  ASSUME JsonInv, ValuesOK, NEW i \in DOMAIN dec.stack
  PROVE  dec.stack[i].val \in Value /\ dec.stack[i].val \in Addr
<1>1. PICK s : s = dec.stack
  OBVIOUS
<1>2. s \in Seq(Frame) /\ i \in DOMAIN s
  BY <1>1 DEF JsonInv, StackInv
<1>3. s[i] \in Frame
  BY <1>2
<1>4. PICK v \in Addr : v = s[i].val
  BY <1>3 DEF Frame
<1>5. s[i] \in FramesOf(v)
  BY <1>3, <1>4 DEF FramesOf
<1>6. Hits(s, FramesOf(v)) # 0 /\ Hits(s, FramesOf(v)) \in Nat
  BY <1>2, <1>5, HitsSome, HitsType
<1>7. Hits(dec.stack, FramesOf(v)) > 0
  BY ONLY <1>1, <1>6
<1>8. v \in Value
  BY <1>7, Referred
<1> QED
  BY <1>1, <1>4, <1>8

LEMMA NoFrees ==
  ASSUME NEW s, NEW v, s = <<>> \/ s \in Seq(Walks)
  PROVE  Hits(s, {Item("release", v)}) = 0 /\ Hits(s, {Item("free", v)}) = 0
<1>1. CASE s = <<>>
  BY <1>1, HitsEmpty
<1>2. CASE s \in Seq(Walks)
  <2>1. \A i \in DOMAIN s : s[i] \in Walks
    BY <1>2
  <2>2. \A x \in Walks : x.op \in {"visit", "slice"}
    BY DEF Walks
  <2>3. Item("release", v).op = "release" /\ Item("free", v).op = "free"
    BY DEF Item
  <2>4. \A i \in DOMAIN s : s[i] \notin {Item("release", v)} /\ s[i] \notin {Item("free", v)}
    BY <2>1, <2>2, <2>3
  <2> QED
    BY <1>2, <2>4, HitsSome
<1> QED
  BY <1>1, <1>2

\* When no free is under way, every block has a reference.
LEMMA Settled ==
  ASSUME JsonInv, ValuesOK, todo = <<>> \/ todo \in Seq(Walks), NEW v \in Value
  PROVE  v \in Singleton \/ (v \in Addr /\ values[v].nrefs > 0)
<1>1. CASE v \in Addr
  <2>1. Hits(todo, {Item("free", v)}) = 0
    BY NoFrees
  <2>2. CountedIn(values, own, results, todo, dec, v) /\ values[v].nrefs \in Nat
    BY <1>1, Counting
  <2>3. values[v].nrefs # 0
    BY <2>1, <2>2 DEF CountedIn, Value, One, Same
  <2> QED
    BY <1>1, <2>2, <2>3
<1>2. v \in AnyValue
  BY DEF JsonInv, ValuesTyped, IsHeap, Value
<1> QED
  BY <1>1, <1>2 DEF AnyValue

LEMMA GivenThere == JsonInv => Given \subseteq Value
BY DEF JsonInv, ValuesTyped, IsHeap, Given, Blocks, Value

LEMMA ReleasesHits ==
  ASSUME NEW s \in Seq(AnyValue), NEW v
  PROVE  /\ Releases(s) \in Seq(Frees)
         /\ Hits(Releases(s), {Item("release", v)}) = Hits(s, {v})
         /\ Hits(Releases(s), {Item("free", v)}) = 0
<1>1. PICK n \in Nat : n = Len(s) /\ DOMAIN s = 1 .. n
  OBVIOUS
<1>2. PICK t : t = Releases(s)
  OBVIOUS
<1>3. t = [i \in 1 .. n |-> [op |-> "release", val |-> s[i]]]
  BY <1>1, <1>2 DEF Releases
<1>4. DOMAIN t = 1 .. n /\ \A i \in 1 .. n : t[i] = [op |-> "release", val |-> s[i]]
  BY <1>3
<1>5. \A i \in 1 .. n : s[i] \in AnyValue
  BY <1>1
<1>6. \A i \in 1 .. n : t[i] \in Frees /\ t[i].op = "release" /\ t[i].val = s[i]
  BY <1>4, <1>5 DEF Frees
<1>7. t \in Seq(Frees)
  BY <1>3, <1>6
<1>8. \A i \in 1 .. n : t[i] \in {Item("release", v)} <=> s[i] \in {v}
  BY <1>4, <1>6 DEF Item
<1>9. Hits(t, {Item("release", v)}) = Hits(s, {v})
  BY <1>1, <1>4, <1>8, HitsSame
<1>10. Item("free", v).op = "free"
  BY DEF Item
<1>11. \A i \in DOMAIN t : t[i] \notin {Item("free", v)}
  BY <1>4, <1>6, <1>10
<1>12. Hits(t, {Item("free", v)}) = 0
  BY <1>7, <1>11, HitsSome
<1> QED
  BY <1>2, <1>7, <1>9, <1>12

ReleaseOf(x) == Releases(<<x>>)

LEMMA ReleaseOne ==
  ASSUME NEW x \in AnyValue, NEW t, t = ReleaseOf(x)
  PROVE  /\ t \in Seq(Frees)
         /\ \A v : /\ Hits(t, {Item("release", v)}) = Same(x, v)
                   /\ Hits(t, {Item("free", v)}) = 0
<1>1. <<x>> \in Seq(AnyValue)
  BY OneSymbol
<1>2. \A v : Hits(<<x>>, {v}) = IF x \in {v} THEN 1 ELSE 0
  BY HitsOne DEF One, Same
<1>3. \A v : Hits(<<x>>, {v}) = Same(x, v)
  BY <1>2 DEF One, Same
<1>4. \A v : /\ Releases(<<x>>) \in Seq(Frees)
             /\ Hits(Releases(<<x>>), {Item("release", v)}) = Hits(<<x>>, {v})
             /\ Hits(Releases(<<x>>), {Item("free", v)}) = 0
  BY ONLY <1>1, ReleasesHits
<1> QED
  BY ONLY <1>3, <1>4, t = ReleaseOf(x) DEF ReleaseOf

\* The parts of the invariant after a step.
LEMMA Assembled ==
  ASSUME ValuesTyped', TodoInv', StackInv', KeysInv',
         \A v \in Addr : CountedIn(values', own', results', todo', dec', v),
         strings' = StringsIn(values') + Hits(dec'.stack, WithKey)
  PROVE  JsonInv'
<1>1. todo' \in Todos
  BY ThereType DEF TodoInv, Todos
<1>2. dec'.stack \in Seq(Frame)
  BY DEF StackInv
<1>3. AllCounted'
  BY <1>1, <1>2, Recounted
<1>4. StringsExact'
  BY <1>2, Strings2
<1> QED
  BY <1>3, <1>4 DEF JsonInv

LEMMA StringsNow ==
  ASSUME JsonInv
  PROVE  strings = StringsIn(values) + Hits(dec.stack, WithKey) /\ Hits(dec.stack, WithKey) \in Nat
<1>1. dec.stack \in Seq(Frame) /\ StringsExact
  BY DEF JsonInv, StackInv
<1> QED
  BY <1>1, Strings1, HitsType

\* A step that leaves the parser, its unfinished values and the types alone.
LEMMA DecKept ==
  ASSUME JsonInv, dec' = dec, TypesKept(values, values'),
         \A i \in DOMAIN dec.stack : dec.stack[i].val \in DOMAIN values /\ dec.stack[i].val \in DOMAIN values'
  PROVE  StackInv' /\ KeysInv'
<1>1. StackInv /\ KeysInv
  BY DEF JsonInv
<1>2. \A i \in DOMAIN dec.stack : values'[dec.stack[i].val].type = values[dec.stack[i].val].type
  BY DEF TypesKept
<1>3. DecShape'
  BY <1>1 DEF StackInv, DecShape
<1>4. StackInv'
  BY <1>1, <1>2, <1>3 DEF StackInv
<1>5. Top' = Top
  BY DEF Top, Last
<1>6. dec.stack # <<>> => Len(dec.stack) \in DOMAIN dec.stack /\ Top = dec.stack[Len(dec.stack)]
  BY <1>1 DEF StackInv, Top, Last
<1>7. dec.stack # <<>> => values'[Top.val].type = values[Top.val].type
  BY <1>2, <1>6
<1>8. dec.stack \in Seq(Frame)
  BY <1>1 DEF StackInv
<1>9. \A i \in 1 .. Len(dec.stack) - 1 : i \in DOMAIN dec.stack
  BY <1>8
<1>10. \A i \in DOMAIN dec.stack : Waits(dec.stack[i])' <=> Waits(dec.stack[i])
  BY <1>2 DEF Waits
<1>11. dec.stack # <<>> => (Waits(Top)' <=> Waits(Top))
  BY <1>5, <1>6, <1>7 DEF Waits
<1>12. KeysInv'
  <2>1. dec.phase # "failing" => \A i \in 1 .. Len(dec.stack) - 1 : Waits(dec.stack[i])'
    BY <1>1, <1>9, <1>10 DEF KeysInv
  <2>2. dec.phase \in {"value", "deliver"} /\ dec.stack # <<>> => Waits(Top)'
    BY <1>1, <1>11 DEF KeysInv
  <2>3. dec.phase \in {"key", "after"} => dec.stack # <<>> /\ Top.key = Nothing
    BY <1>1 DEF KeysInv
  <2>4. dec.phase = "key" => values'[Top.val].type = "object"
    BY <1>1, <1>7, <2>3 DEF KeysInv
  <2>5. dec.phase = "deliver" <=> dec.val # Nothing
    BY <1>1 DEF KeysInv
  <2> QED
    BY <1>5, <2>1, <2>2, <2>3, <2>4, <2>5 DEF KeysInv, Waits
<1> QED
  BY <1>4, <1>12

-----------------------------------------------------------------------------
(* The operations of the program. *)

LEMMA Disowned ==
  ASSUME JsonInv, ValuesOK, NEW v \in Given, Disown(v)
  PROVE  /\ own' \in [Addr -> Nat] /\ v \in Value /\ v \in AnyValue
         /\ \A u \in Addr : own[u] = own'[u] + Same(v, u)
<1>1. own \in [Addr -> Nat] /\ Value \subseteq AnyValue
  BY DEF JsonInv, ValuesTyped, IsHeap, Value
<1>2. v \in Value /\ (v \in Addr => own[v] > 0)
  BY GivenThere DEF Given, ValuesOK
<1>3. CASE v \in Addr
  <2>1. own' = [own EXCEPT ![v] = @ - 1] /\ own[v] \in Nat
    BY <1>1, <1>3 DEF Disown
  <2> QED
    BY <1>1, <1>2, <1>3, <2>1 DEF One, Same
<1>4. CASE v \notin Addr
  BY <1>1, <1>2, <1>4 DEF Disown, One, Same
<1> QED
  BY <1>3, <1>4

LEMMA NewKeeps ==
  ASSUME JsonInv, ValuesOK, todo = <<>>, NEW type \in Leaf \cup {"object", "array"}, NewValue(type), dec' = dec
  PROVE  JsonInv'
<1> DEFINE a == Fresh
<1>1. HasRoom /\ type \in Types /\ IsHeap(values)
  BY DEF NewValue, Types, JsonInv, ValuesTyped
<1>2. Grown(values, values', a, type)
  BY <1>1, WithGrows DEF NewValue
<1>3. own' = [own EXCEPT ![a] = 1] /\ results' = results /\ todo' = todo
      /\ strings' = strings + Same(type, "string")
  BY DEF NewValue, One, Same
<1> HIDE DEF a
<1>4. /\ IsHeap(values') /\ a \notin DOMAIN values /\ a \in Addr
      /\ DOMAIN values' = DOMAIN values \cup {a} /\ values'[a].nrefs = 1
      /\ \A w \in DOMAIN values : values'[w] = values[w]
      /\ TypesKept(values, values')
      /\ \A v : Elements(values', v) = Elements(values, v)
      /\ StringsIn(values') = StringsIn(values) + Same(type, "string")
  BY <1>2 DEF Grown, Made
<1>5. own \in [Addr -> Nat] /\ results \in Seq(AnyValue) \cup {Nothing}
  BY DEF JsonInv, ValuesTyped
<1>6. ValuesTyped'
  BY <1>3, <1>4, <1>5 DEF ValuesTyped
<1>7. TodoInv'
  <2>1. <<>> \in Seq(Frees)
    OBVIOUS
  <2> QED
    BY <1>3, <2>1 DEF TodoInv
<1>8. StackInv' /\ KeysInv'
  <2>1. \A i \in DOMAIN dec.stack : dec.stack[i].val \in DOMAIN values
    BY FramesThere DEF Value
  <2> QED
    BY <1>4, <2>1, DecKept
<1>9. ASSUME NEW v \in Addr
      PROVE  CountedIn(values', own', results', todo', dec', v)
  <2>1. /\ CountedIn(values, own, results, todo, dec, v)
        /\ own[v] \in Nat /\ Elements(values, v) \in Nat /\ FoundIn(results, v) \in Nat
        /\ Hits(todo, {Item("release", v)}) \in Nat /\ Hits(todo, {Item("free", v)}) \in Nat
        /\ Hits(dec.stack, FramesOf(v)) \in Nat /\ Same(dec.val, v) \in Nat
    BY Counting
  <2>2. CASE v = a
    <3>1. Refs(values, own, results, todo, dec, v) = 0 /\ Hits(todo, {Item("free", v)}) = 0
      BY <1>4, <2>1, <2>2 DEF CountedIn
    <3>2. own'[v] = 1
      BY <1>3, <1>5, <2>2
    <3>3. Refs(values', own', results', todo', dec', v) = 1
      BY <1>3, <1>4, <2>1, <3>1, <3>2 DEF Refs
    <3>4. v \in DOMAIN values' /\ values'[v].nrefs = 1 /\ Same(values'[v].nrefs, 0) = 0
      BY <1>4, <2>2 DEF One, Same
    <3> QED
      BY <1>3, <3>1, <3>3, <3>4 DEF CountedIn
  <2>3. CASE v # a
    <3>1. own'[v] = own[v]
      BY <1>3, <1>5, <2>3
    <3>2. Refs(values', own', results', todo', dec', v) = Refs(values, own, results, todo, dec, v)
      BY <1>3, <1>4, <3>1 DEF Refs
    <3>3. v \in DOMAIN values' <=> v \in DOMAIN values
      BY <1>4, <2>3
    <3>4. v \in DOMAIN values => values'[v] = values[v]
      BY <1>4
    <3> QED
      BY <1>3, <2>1, <3>2, <3>3, <3>4 DEF CountedIn
  <2> QED
    BY <2>2, <2>3
<1>10. strings' = StringsIn(values') + Hits(dec'.stack, WithKey)
  <2>1. StringsIn(values) \in Nat /\ Same(type, "string") \in Nat
    BY <1>1, CountsType DEF One, Same
  <2> QED
    BY <1>3, <1>4, <2>1, StringsNow
<1> QED
  BY <1>6, <1>7, <1>8, <1>9, <1>10, Assembled

LEMMA AddRefKeeps ==
  ASSUME JsonInv, ValuesOK, todo = <<>>, NEW x \in Value, AddRef(x), dec' = dec
  PROVE  JsonInv'
<1>1. IsHeap(values) /\ own \in [Addr -> Nat] /\ results \in Seq(AnyValue) \cup {Nothing}
  BY DEF JsonInv, ValuesTyped
<1>2. x \in Singleton \/ values[x].nrefs > 0
  BY Settled
<1>3. values' = Ref(values, <<x>>) /\ results' = results /\ todo' = todo /\ strings' = strings
      /\ own' = IF x \in Addr THEN [own EXCEPT ![x] = @ + 1] ELSE own
  BY DEF AddRef
<1>4. RefTo(values, values', x)
  BY <1>1, <1>2, <1>3, RefAdds DEF Value
<1>5. /\ IsHeap(values') /\ DOMAIN values' = DOMAIN values
      /\ \A w \in DOMAIN values : /\ values'[w].kids = values[w].kids
                                  /\ values'[w].nrefs = values[w].nrefs + (IF w \in Addr THEN Same(w, x) ELSE 0)
      /\ TypesKept(values, values')
      /\ \A w : Elements(values', w) = Elements(values, w)
      /\ StringsIn(values') = StringsIn(values)
  BY <1>4 DEF RefTo
<1>6. own' \in [Addr -> Nat] /\ \A v \in Addr : own'[v] = own[v] + Same(v, x)
  <2>1. CASE x \in Addr
    BY <1>1, <1>3, <2>1 DEF One, Same
  <2>2. CASE x \notin Addr
    BY <1>1, <1>3, <2>2 DEF One, Same
  <2> QED
    BY <2>1, <2>2
<1>7. ValuesTyped'
  BY <1>1, <1>3, <1>5, <1>6 DEF ValuesTyped
<1>8. TodoInv'
  <2>1. <<>> \in Seq(Frees)
    OBVIOUS
  <2> QED
    BY <1>3, <2>1 DEF TodoInv
<1>9. StackInv' /\ KeysInv'
  <2>1. \A i \in DOMAIN dec.stack : dec.stack[i].val \in DOMAIN values
    BY FramesThere DEF Value
  <2> QED
    BY <1>5, <2>1, DecKept
<1>10. ASSUME NEW v \in Addr
       PROVE  CountedIn(values', own', results', todo', dec', v)
  <2>1. /\ CountedIn(values, own, results, todo, dec, v)
        /\ own[v] \in Nat /\ Elements(values, v) \in Nat /\ FoundIn(results, v) \in Nat
        /\ Hits(todo, {Item("release", v)}) \in Nat /\ Hits(todo, {Item("free", v)}) \in Nat
        /\ Hits(dec.stack, FramesOf(v)) \in Nat /\ Same(dec.val, v) \in Nat
        /\ v \in Value => values[v].nrefs \in Nat
    BY Counting
  <2>2. Same(v, x) \in Nat /\ (v # x => Same(v, x) = 0)
    BY DEF One, Same
  <2>3. Refs(values', own', results', todo', dec', v)
        = Refs(values, own, results, todo, dec, v) + Same(v, x)
    <3>1. results' = results /\ todo' = todo /\ dec' = dec
      BY <1>3
    <3>2. Elements(values', v) = Elements(values, v) /\ own'[v] = own[v] + Same(v, x)
      BY <1>5, <1>6
    <3> QED
      BY ONLY <2>1, <2>2, <3>1, <3>2 DEF Refs
  <2>4. CASE v \in DOMAIN values
    <3>1. values'[v].nrefs = values[v].nrefs + Same(v, x) /\ values'[v].kids = values[v].kids
      <4>1. (IF v \in Addr THEN Same(v, x) ELSE 0) = Same(v, x)
        BY DEF One, Same
      <4> QED
        BY <1>5, <2>4, <4>1
    <3>2. v = x => values[v].nrefs > 0
      BY <1>2 DEF ValuesOK
    <3>3. values[v].nrefs \in Nat
      BY <2>1, <2>4 DEF Value
    <3>4. values'[v].nrefs = 0 <=> values[v].nrefs = 0
      BY <2>2, <3>1, <3>2, <3>3
    <3>5. Same(values'[v].nrefs, 0) = Same(values[v].nrefs, 0)
      BY <3>4 DEF One, Same
    <3> QED
      BY <1>3, <1>5, <2>1, <2>3, <2>4, <3>1, <3>4, <3>5 DEF CountedIn
  <2>5. CASE v \notin DOMAIN values
    <3>1. v # x
      BY <2>5 DEF Value
    <3> QED
      BY <1>3, <1>5, <2>1, <2>2, <2>3, <2>5, <3>1 DEF CountedIn
  <2> QED
    BY <2>4, <2>5
<1>11. strings' = StringsIn(values') + Hits(dec'.stack, WithKey)
  BY <1>3, <1>5, StringsNow
<1> QED
  BY <1>7, <1>8, <1>9, <1>10, <1>11, Assembled

\* A value the program gives up is released: pcl_json_free, and a put that
\* fails and frees.
LEMMA GivenUp ==
  ASSUME JsonInv, ValuesOK, todo = <<>>, NEW x \in Given, Disown(x), todo' = Releases(<<x>>),
         values' = values, results' = results, strings' = strings,
         dec'.stack = dec.stack, dec'.val = dec.val, StackInv', KeysInv'
  PROVE  JsonInv'
<1>1. /\ own' \in [Addr -> Nat] /\ x \in Value /\ x \in AnyValue
      /\ \A u \in Addr : own[u] = own'[u] + Same(x, u)
  BY Disowned
<1>2. /\ todo' \in Seq(Frees)
      /\ \A v : /\ Hits(todo', {Item("release", v)}) = Same(x, v)
                /\ Hits(todo', {Item("free", v)}) = 0
  <2>1. todo' = ReleaseOf(x)
    BY DEF ReleaseOf
  <2> QED
    BY ONLY <1>1, <2>1, ReleaseOne
<1>3. ValuesTyped'
  BY <1>1 DEF JsonInv, ValuesTyped
<1>4. TodoInv'
  BY <1>2 DEF TodoInv
<1>5. ASSUME NEW v \in Addr
      PROVE  CountedIn(values', own', results', todo', dec', v)
  <2>1. /\ CountedIn(values, own, results, todo, dec, v)
        /\ own[v] \in Nat /\ Elements(values, v) \in Nat /\ FoundIn(results, v) \in Nat
        /\ Hits(dec.stack, FramesOf(v)) \in Nat /\ Same(dec.val, v) \in Nat
    BY Counting
  <2>2. Hits(todo, {Item("release", v)}) = 0 /\ Hits(todo, {Item("free", v)}) = 0
    BY NoFrees
  <2>3. own[v] = own'[v] + Same(x, v) /\ own'[v] \in Nat /\ Same(x, v) \in Nat
    BY <1>1, SameType
  <2>4. Refs(values', own', results', todo', dec', v) = Refs(values, own, results, todo, dec, v)
    <3>1. values' = values /\ results' = results /\ dec'.stack = dec.stack /\ dec'.val = dec.val
          /\ Hits(todo', {Item("release", v)}) = Same(x, v)
      BY <1>2
    <3> QED
      BY ONLY <2>1, <2>2, <2>3, <3>1 DEF Refs
  <2> QED
    BY <1>2, <2>1, <2>2, <2>4 DEF CountedIn
<1>6. strings' = StringsIn(values') + Hits(dec'.stack, WithKey)
  BY StringsNow
<1> QED
  BY <1>3, <1>4, <1>5, <1>6, Assembled

LEMMA SameDec ==
  ASSUME JsonInv, ValuesOK, dec' = dec, values' = values
  PROVE  StackInv' /\ KeysInv'
<1>1. \A i \in DOMAIN dec.stack : dec.stack[i].val \in DOMAIN values
  BY FramesThere DEF Value
<1>2. TypesKept(values, values')
  BY DEF TypesKept
<1> QED
  BY <1>1, <1>2, DecKept

LEMMA FreeKeeps ==
  ASSUME JsonInv, ValuesOK, todo = <<>>, NEW x \in Given, FreeValue(x), dec' = dec
  PROVE  JsonInv'
<1>1. Disown(x) /\ todo' = Releases(<<x>>) /\ values' = values /\ results' = results /\ strings' = strings
  BY DEF FreeValue
<1>2. StackInv' /\ KeysInv'
  BY <1>1, SameDec
<1> QED
  BY <1>1, <1>2, GivenUp

LEMMA ContainersAreBlocks ==
  ASSUME JsonInv, NEW o \in Value, values[o].type \in {"object", "array"}
  PROVE  o \in DOMAIN values /\ o \notin Singleton
BY DEF JsonInv, ValuesTyped, IsHeap, Singleton, Value

\* An element is put into an object or an array.
LEMMA PutKeeps ==
  ASSUME JsonInv, ValuesOK, todo = <<>>, NEW o \in Value, values[o].type \in {"object", "array"},
         NEW k \in Name \cup {Nothing}, NEW x \in Given, Disown(x),
         values' = AddKid(values, o, k, x), todo' = todo, results' = results, dec' = dec,
         strings' = strings + Same(values[o].type, "object")
  PROVE  JsonInv'
<1>1. /\ own' \in [Addr -> Nat] /\ x \in Value /\ x \in AnyValue
      /\ \A u \in Addr : own[u] = own'[u] + Same(x, u)
  BY Disowned
<1>2. o \in DOMAIN values /\ o \notin Singleton /\ IsHeap(values) /\ results \in Seq(AnyValue) \cup {Nothing}
  BY ContainersAreBlocks DEF JsonInv, ValuesTyped
<1>3. PICK g : g = values'
  OBVIOUS
<1>4. g = AddKid(values, o, k, x)
  BY <1>3
<1>5. /\ KidsChange(values, g, o)
      /\ \A w : Elements(g, w) = Elements(values, w) + Same(x, w)
      /\ StringsIn(g) = StringsIn(values) + Same(values[o].type, "object")
  BY ONLY <1>1, <1>2, <1>4, ValuesOK, values[o].type \in {"object", "array"}, k \in Name \cup {Nothing}, KidAdded
<1>6. /\ IsHeap(g) /\ DOMAIN g = DOMAIN values
      /\ \A w \in DOMAIN values : g[w].nrefs = values[w].nrefs /\ (w # o => g[w].kids = values[w].kids)
      /\ TypesKept(values, g)
  BY <1>5 DEF KidsChange
<1>7. ValuesTyped'
  BY <1>1, <1>2, <1>3, <1>6 DEF ValuesTyped
<1>8. TodoInv'
  <2>1. <<>> \in Seq(Frees)
    OBVIOUS
  <2> QED
    BY <2>1 DEF TodoInv
<1>9. StackInv' /\ KeysInv'
  <2>1. \A i \in DOMAIN dec.stack : dec.stack[i].val \in DOMAIN values
    BY FramesThere DEF Value
  <2> QED
    BY <1>3, <1>6, <2>1, DecKept
<1>10. values[o].nrefs > 0
  BY <1>2, Settled
<1>11. ASSUME NEW v \in Addr
       PROVE  CountedIn(values', own', results', todo', dec', v)
  <2>1. /\ CountedIn(values, own, results, todo, dec, v)
        /\ own[v] \in Nat /\ Elements(values, v) \in Nat /\ FoundIn(results, v) \in Nat
        /\ Hits(todo, {Item("release", v)}) \in Nat /\ Hits(todo, {Item("free", v)}) \in Nat
        /\ Hits(dec.stack, FramesOf(v)) \in Nat /\ Same(dec.val, v) \in Nat
    BY Counting
  <2>2. own[v] = own'[v] + Same(x, v) /\ own'[v] \in Nat /\ Same(x, v) \in Nat
    BY <1>1, SameType
  <2>3. Elements(values', v) = Elements(values, v) + Same(x, v)
    BY <1>3, <1>5
  <2>4. results' = results /\ todo' = todo /\ dec' = dec
    OBVIOUS
  <2>5. Refs(values', own', results', todo', dec', v) = Refs(values, own, results, todo, dec, v)
    BY ONLY <2>1, <2>2, <2>3, <2>4 DEF Refs
  <2>6. v \in DOMAIN values => /\ values'[v].nrefs = values[v].nrefs
                               /\ v # o => values'[v].kids = values[v].kids
    BY <1>3, <1>6
  <2>7. DOMAIN values' = DOMAIN values
    BY <1>3, <1>6
  <2> QED
    BY ONLY <1>10, <2>1, <2>4, <2>5, <2>6, <2>7 DEF CountedIn
<1>12. strings' = StringsIn(values') + Hits(dec'.stack, WithKey)
  <2>1. StringsIn(values) \in Nat /\ Same(values[o].type, "object") \in Nat
    BY <1>2, CountsType, SameType
  <2>2. strings = StringsIn(values) + Hits(dec.stack, WithKey) /\ Hits(dec.stack, WithKey) \in Nat
    BY StringsNow
  <2>3. StringsIn(values') = StringsIn(values) + Same(values[o].type, "object")
        /\ dec' = dec /\ strings' = strings + Same(values[o].type, "object")
    BY <1>3, <1>5
  <2> QED
    BY ONLY <2>1, <2>2, <2>3
<1> QED
  BY <1>7, <1>8, <1>9, <1>11, <1>12, Assembled

\* A put that is refused leaves the value to the program.
LEMMA SameKeeps ==
  ASSUME JsonInv, ValuesOK, UNCHANGED valueVars, dec' = dec
  PROVE  JsonInv'
<1>1. values' = values /\ own' = own /\ results' = results /\ todo' = todo /\ strings' = strings
  BY DEF valueVars
<1>2. StackInv' /\ KeysInv'
  BY <1>1, SameDec
<1>3. ValuesTyped' /\ TodoInv'
  BY <1>1 DEF JsonInv, ValuesTyped, TodoInv, Value
<1>4. \A v \in Addr : CountedIn(values', own', results', todo', dec', v)
  BY <1>1, Counting
<1>5. strings' = StringsIn(values') + Hits(dec'.stack, WithKey)
  BY <1>1, StringsNow
<1> QED
  BY <1>2, <1>3, <1>4, <1>5, Assembled

LEMMA RefusedKeeps ==
  ASSUME JsonInv, ValuesOK, todo = <<>>, NEW x \in Given, NEW freeval,
         IF freeval THEN Disown(x) /\ todo' = FreeOnError(x) ELSE UNCHANGED <<own, todo>>,
         values' = values, results' = results, strings' = strings, dec' = dec
  PROVE  JsonInv'
<1>1. CASE freeval
  <2>1. Disown(x) /\ todo' = Releases(<<x>>)
    BY <1>1 DEF FreeOnError
  <2>2. StackInv' /\ KeysInv'
    BY SameDec
  <2> QED
    BY <2>1, <2>2, GivenUp
<1>2. CASE ~ freeval
  BY <1>2, SameKeeps DEF valueVars
<1> QED
  BY <1>1, <1>2

LEMMA ObjPutKeeps ==
  ASSUME JsonInv, ValuesOK, todo = <<>>, NEW o \in Value, NEW k, NEW x \in Given, NEW freeval,
         ObjPut(o, k, x, freeval), dec' = dec
  PROVE  JsonInv'
<1>1. ASSUME ~ Refuses(o, k), values' = AddKid(values, o, k, x), strings' = strings + 1, Disown(x),
             todo' = todo, results' = results
      PROVE  JsonInv'
  <2>1. values[o].type = "object" /\ k \in Name
    BY <1>1 DEF Refuses
  <2>2. strings' = strings + Same(values[o].type, "object")
    BY <1>1, <2>1 DEF Same
  <2> QED
    BY <1>1, <2>1, <2>2, PutKeeps
<1>2. ASSUME values' = values, strings' = strings, results' = results,
             IF freeval THEN Disown(x) /\ todo' = FreeOnError(x) ELSE UNCHANGED <<own, todo>>
      PROVE  JsonInv'
  BY <1>2, RefusedKeeps
<1> QED
  BY <1>1, <1>2 DEF ObjPut

LEMMA ArrAddKeeps ==
  ASSUME JsonInv, ValuesOK, todo = <<>>, NEW a \in Value, NEW x \in Given, NEW freeval,
         ArrAdd(a, x, freeval), dec' = dec
  PROVE  JsonInv'
<1>1. ASSUME values[a].type = "array", values' = AddKid(values, a, Nothing, x), strings' = strings, Disown(x),
             todo' = todo, results' = results
      PROVE  JsonInv'
  <2>1. strings \in Nat
    <3>1. IsHeap(values)
      BY DEF JsonInv, ValuesTyped
    <3>2. StringsIn(values) \in Nat
      BY <3>1, CountsType
    <3> QED
      BY <3>2, StringsNow
  <2>2. strings' = strings + Same(values[a].type, "object")
    BY <1>1, <2>1 DEF Same
  <2> QED
    BY <1>1, <2>2, PutKeeps
<1>2. ASSUME values' = values, strings' = strings, results' = results,
             IF freeval THEN Disown(x) /\ todo' = FreeOnError(x) ELSE UNCHANGED <<own, todo>>
      PROVE  JsonInv'
  BY <1>2, RefusedKeeps
<1> QED
  BY <1>1, <1>2 DEF ArrAdd

LEMMA RemoveKidKeeps ==
  ASSUME JsonInv, ValuesOK, todo = <<>>, NEW c \in Value, NEW i \in DOMAIN values[c].kids,
         RemoveKid(c, i), dec' = dec
  PROVE  JsonInv'
<1>1. PICK g : g = values'
  OBVIOUS
<1>2. PICK x : x = values[c].kids[i].val
  OBVIOUS
<1>3. /\ values[c].type \in {"object", "array"} /\ g = DropKid(c, i) /\ todo' = ReleaseOf(x)
      /\ strings' = strings - Same(values[c].type, "object") /\ own' = own /\ results' = results
  BY <1>1, <1>2 DEF RemoveKid, Container, Same, ReleaseOf
<1>4. /\ IsHeap(values) /\ own \in [Addr -> Nat] /\ results \in Seq(AnyValue) \cup {Nothing}
      /\ c \in DOMAIN values /\ c \notin Singleton
  BY <1>3, ContainersAreBlocks DEF JsonInv, ValuesTyped
<1>5. /\ KidsChange(values, g, c)
      /\ x \in AnyValue
      /\ \A w : Elements(values, w) = Elements(g, w) + Same(x, w)
      /\ StringsIn(values) = StringsIn(g) + Same(values[c].type, "object")
  BY ONLY <1>2, <1>3, <1>4, ValuesOK, i \in DOMAIN values[c].kids, KidDropped
<1>6. /\ IsHeap(g) /\ DOMAIN g = DOMAIN values
      /\ \A w \in DOMAIN values : g[w].nrefs = values[w].nrefs /\ (w # c => g[w].kids = values[w].kids)
      /\ TypesKept(values, g)
  BY <1>5 DEF KidsChange
<1>7. /\ todo' \in Seq(Frees)
      /\ \A v : /\ Hits(todo', {Item("release", v)}) = Same(x, v)
                /\ Hits(todo', {Item("free", v)}) = 0
  BY ONLY <1>3, <1>5, ReleaseOne
<1>8. ValuesTyped' /\ TodoInv'
  BY <1>1, <1>3, <1>4, <1>6, <1>7 DEF ValuesTyped, TodoInv
<1>9. StackInv' /\ KeysInv'
  <2>1. \A j \in DOMAIN dec.stack : dec.stack[j].val \in DOMAIN values
    BY FramesThere DEF Value
  <2> QED
    BY <1>1, <1>6, <2>1, DecKept
<1>10. values[c].nrefs > 0
  BY <1>4, Settled
<1>11. ASSUME NEW v \in Addr
       PROVE  CountedIn(values', own', results', todo', dec', v)
  <2>1. /\ CountedIn(values, own, results, todo, dec, v)
        /\ own[v] \in Nat /\ Elements(values, v) \in Nat /\ FoundIn(results, v) \in Nat
        /\ Hits(dec.stack, FramesOf(v)) \in Nat /\ Same(dec.val, v) \in Nat
    BY Counting
  <2>2. Hits(todo, {Item("release", v)}) = 0 /\ Hits(todo, {Item("free", v)}) = 0
    BY NoFrees
  <2>3. Elements(values, v) = Elements(values', v) + Same(x, v) /\ Elements(values', v) \in Nat
        /\ Same(x, v) \in Nat
    BY <1>1, <1>5, <1>6, CountsType, SameType
  <2>4. results' = results /\ own' = own /\ dec' = dec
        /\ Hits(todo', {Item("release", v)}) = Same(x, v) /\ Hits(todo', {Item("free", v)}) = 0
    BY <1>3, <1>7
  <2>5. Refs(values', own', results', todo', dec', v) = Refs(values, own, results, todo, dec, v)
    BY ONLY <2>1, <2>2, <2>3, <2>4 DEF Refs
  <2>6. v \in DOMAIN values => /\ values'[v].nrefs = values[v].nrefs
                               /\ v # c => values'[v].kids = values[v].kids
    BY <1>1, <1>6
  <2>7. DOMAIN values' = DOMAIN values
    BY <1>1, <1>6
  <2> QED
    BY ONLY <1>10, <2>1, <2>2, <2>4, <2>5, <2>6, <2>7 DEF CountedIn
<1>12. strings' = StringsIn(values') + Hits(dec'.stack, WithKey)
  <2>1. StringsIn(g) \in Nat /\ Same(values[c].type, "object") \in Nat
    BY <1>6, CountsType, SameType
  <2>2. strings = StringsIn(values) + Hits(dec.stack, WithKey) /\ Hits(dec.stack, WithKey) \in Nat
    BY StringsNow
  <2>3. dec' = dec /\ values' = g
    BY <1>1
  <2> QED
    BY ONLY <1>3, <1>5, <2>1, <2>2, <2>3
<1> QED
  BY <1>8, <1>9, <1>11, <1>12, Assembled

LEMMA FreeResultsKeeps ==
  ASSUME JsonInv, ValuesOK, todo = <<>>, FreeResults, dec' = dec
  PROVE  JsonInv'
<1>1. results # Nothing /\ results' = Nothing /\ todo' = Releases(results) /\ values' = values /\ own' = own
      /\ strings' = strings
  BY DEF FreeResults
<1>2. results \in Seq(AnyValue)
  BY <1>1 DEF JsonInv, ValuesTyped
<1>3. PICK s : s = results
  OBVIOUS
<1>4. PICK t : t = todo'
  OBVIOUS
<1>5. t = Releases(s) /\ s \in Seq(AnyValue)
  BY <1>1, <1>2, <1>3, <1>4
<1>6. ASSUME NEW v
      PROVE  /\ t \in Seq(Frees)
             /\ Hits(t, {Item("release", v)}) = Hits(s, {v})
             /\ Hits(t, {Item("free", v)}) = 0
  <2>1. /\ Releases(s) \in Seq(Frees)
        /\ Hits(Releases(s), {Item("release", v)}) = Hits(s, {v})
        /\ Hits(Releases(s), {Item("free", v)}) = 0
    BY ONLY <1>5, ReleasesHits
  <2> QED
    BY ONLY <1>5, <2>1
<1>7. ValuesTyped' /\ TodoInv'
  BY <1>1, <1>4, <1>6 DEF JsonInv, ValuesTyped, TodoInv
<1>8. StackInv' /\ KeysInv'
  BY <1>1, SameDec
<1>9. ASSUME NEW v \in Addr
      PROVE  CountedIn(values', own', results', todo', dec', v)
  <2>1. /\ CountedIn(values, own, results, todo, dec, v)
        /\ own[v] \in Nat /\ Elements(values, v) \in Nat /\ FoundIn(results, v) \in Nat
        /\ Hits(dec.stack, FramesOf(v)) \in Nat /\ Same(dec.val, v) \in Nat
    BY Counting
  <2>2. Hits(todo, {Item("release", v)}) = 0 /\ Hits(todo, {Item("free", v)}) = 0
    BY NoFrees
  <2>3. FoundIn(results, v) = Hits(s, {v}) /\ FoundIn(results', v) = 0
    BY <1>1, <1>3 DEF FoundIn
  <2>4. values' = values /\ own' = own /\ dec' = dec /\ todo' = t
    BY <1>1, <1>4
  <2>5. Hits(t, {Item("release", v)}) = Hits(s, {v}) /\ Hits(t, {Item("free", v)}) = 0
    BY <1>6
  <2>6. Refs(values', own', results', todo', dec', v) = Refs(values, own, results, todo, dec, v)
    BY ONLY <2>1, <2>2, <2>3, <2>4, <2>5 DEF Refs
  <2> QED
    BY ONLY <2>1, <2>2, <2>4, <2>5, <2>6 DEF CountedIn
<1>10. strings' = StringsIn(values') + Hits(dec'.stack, WithKey)
  BY <1>1, StringsNow
<1> QED
  BY <1>7, <1>8, <1>9, <1>10, Assembled

-----------------------------------------------------------------------------
(* A match walks the values, and keeps a reference to each it finds. *)

LEMMA NullIsNoSequence ==
  ASSUME ValuesOK
  PROVE  Nothing \notin Seq(AnyValue) /\ Nothing \notin AnyValue
BY DEF ValuesOK, AnyValue

\* The steps of the walk that find nothing.
LEMMA WalkKeeps ==
  ASSUME JsonInv, ValuesOK, todo = <<>> \/ todo \in Seq(Walks),
         todo' \in Seq(There(values)), results' \in Seq(AnyValue),
         \A v \in Addr : FoundIn(results', v) = FoundIn(results, v),
         values' = values, own' = own, strings' = strings, dec' = dec
  PROVE  JsonInv'
<1>1. StackInv' /\ KeysInv'
  BY SameDec
<1>2. ValuesTyped' /\ TodoInv'
  BY DEF JsonInv, ValuesTyped, TodoInv
<1>3. todo' \in Seq(Walks)
  BY ThereType
<1>4. ASSUME NEW v \in Addr
      PROVE  CountedIn(values', own', results', todo', dec', v)
  <2>1. CountedIn(values, own, results, todo, dec, v)
    BY Counting
  <2>2. Hits(todo, {Item("release", v)}) = 0 /\ Hits(todo, {Item("free", v)}) = 0
    BY NoFrees
  <2>3. Hits(todo', {Item("release", v)}) = 0 /\ Hits(todo', {Item("free", v)}) = 0
    BY <1>3, NoFrees
  <2>4. values' = values /\ own' = own /\ dec' = dec /\ FoundIn(results', v) = FoundIn(results, v)
    OBVIOUS
  <2>5. Refs(values', own', results', todo', dec', v) = Refs(values, own, results, todo, dec, v)
    BY ONLY <2>2, <2>3, <2>4 DEF Refs
  <2> QED
    BY ONLY <2>1, <2>2, <2>3, <2>4, <2>5 DEF CountedIn
<1>5. strings' = StringsIn(values') + Hits(dec'.stack, WithKey)
  BY StringsNow
<1> QED
  BY <1>1, <1>2, <1>4, <1>5, Assembled

\* What a compiled path consists of.
StepsOK(path) ==
  \A step \in Range(path) :
    /\ step.type \in {"root", "member", "descent", "anyMember", "anyElement",
                      "element", "list", "slice"}
    /\ step.type = "list" => step.list \in Seq(Int)
    /\ step.type = "slice" => step.start \in Int /\ step.end \in Int /\ step.step \in Int

LEMMA PathSteps ==
  ASSUME ValuesOK
  PROVE  /\ Paths \subseteq SomePath
         /\ \A path \in SomePath : StepsOK(path)
         /\ \A path \in SomePath : path # <<>> =>
              Tail(path) \in SomePath /\ Head(path) \in Range(path)
<1> DEFINE S == UNION {Range(p) : p \in Paths}
<1>1. ASSUME NEW p \in Paths
      PROVE  p \in SomePath
  <2>1. p \in Seq(Range(p)) /\ Range(p) \subseteq S
    BY DEF ValuesOK, IsPath
  <2> HIDE DEF S
  <2> QED
    BY <2>1 DEF SomePath, S
<1>2. ASSUME NEW path \in SomePath
      PROVE  Range(path) \subseteq S
  <2>1. path \in Seq(S)
    BY DEF SomePath
  <2> HIDE DEF S
  <2> QED
    BY <2>1 DEF Range
<1>3. ASSUME NEW path \in SomePath
      PROVE  StepsOK(path)
  <2>1. ASSUME NEW step \in Range(path)
        PROVE  \E p \in Paths : step \in Range(p)
    BY <1>2
  <2> QED
    BY <2>1 DEF StepsOK, ValuesOK, IsPath
<1>4. ASSUME NEW path \in SomePath, path # <<>>
      PROVE  Tail(path) \in SomePath /\ Head(path) \in Range(path)
  <2>1. path \in Seq(S)
    BY DEF SomePath
  <2> HIDE DEF S
  <2>2. Tail(path) \in Seq(S) /\ Len(path) # 0 /\ Len(path) \in Nat
    BY <1>4, <2>1, HeadTailProperties
  <2>3. 1 \in DOMAIN path /\ Head(path) = path[1]
    BY <1>4, <2>1, <2>2
  <2> QED
    BY <2>2, <2>3 DEF Range, SomePath, S
<1> QED
  BY <1>1, <1>3, <1>4

LEMMA VisitThere ==
  ASSUME NEW n \in Value \cup {Nothing}, Value \subseteq AnyValue, NEW path \in SomePath
  PROVE  Visit(n, path) \in There(values)
BY DEF Visit, There, Walks, Value

LEMMA MatchKeeps ==
  ASSUME JsonInv, ValuesOK, todo = <<>>, NEW x \in Given, NEW path \in Paths, Match(x, path),
         dec' = dec
  PROVE  JsonInv'
<1>1. results = Nothing /\ results' = <<>> /\ todo' = <<Visit(x, path)>>
      /\ values' = values /\ own' = own /\ strings' = strings
  BY DEF Match
<1>2. x \in Value /\ path \in SomePath /\ Value \subseteq AnyValue
  BY GivenThere, PathSteps DEF JsonInv, ValuesTyped, IsHeap, Value
<1>3. Visit(x, path) \in There(values)
  BY <1>2, VisitThere
<1>4. todo' \in Seq(There(values))
  BY <1>1, <1>3, OneSymbol
<1>5. results' \in Seq(AnyValue) /\ results' # Nothing
  <2>1. <<>> \in Seq(AnyValue)
    OBVIOUS
  <2> QED
    BY <1>1, <2>1, NullIsNoSequence
<1>6. \A v \in Addr : FoundIn(results', v) = FoundIn(results, v)
  BY <1>1, <1>5, HitsEmpty DEF FoundIn
<1> QED
  BY <1>1, <1>4, <1>5, <1>6, WalkKeeps

LEMMA KidAtThere ==
  ASSUME JsonInv, ValuesOK, NEW n \in Value, NEW i
  PROVE  KidAt(n, i) \in Value \cup {Nothing}
<1>1. ASSUME values[n].type = "array", i \in 0 .. Len(values[n].kids) - 1
      PROVE  values[n].kids[i + 1].val \in Value
  <2>1. values[n].kids \in Seq(Kid)
    BY BlockParts DEF JsonInv, ValuesTyped, Value
  <2>2. i + 1 \in DOMAIN values[n].kids
    BY <1>1, <2>1
  <2> QED
    BY <2>2, KidsThere
<1> QED
  BY <1>1 DEF KidAt

LEMMA CallsThere ==
  ASSUME JsonInv, ValuesOK, NEW n \in Value, NEW path \in SomePath, path # <<>>
  PROVE  Calls(n, path) \in Seq(There(values))
<1> DEFINE step == Head(path)
           rest == Tail(path)
           kids == values[n].kids
           T == There(values)
<1>1. /\ rest \in SomePath /\ step \in Range(path)
      /\ step.type \in {"root", "member", "descent", "anyMember", "anyElement",
                        "element", "list", "slice"}
      /\ step.type = "list" => step.list \in Seq(Int)
      /\ step.type = "slice" => step.start \in Int
  BY PathSteps DEF StepsOK
<1>2. IsHeap(values) /\ Value \subseteq AnyValue /\ kids \in Seq(Kid)
  BY BlockParts DEF JsonInv, ValuesTyped, IsHeap, Value
<1>3. \A m \in Value \cup {Nothing} : Visit(m, rest) \in T /\ Visit(m, path) \in T /\ Visit(m, <<>>) \in T
  <2>1. <<>> \in SomePath
    BY DEF SomePath
  <2> QED
    BY <1>1, <1>2, <2>1, VisitThere
<1>4. \A i \in 1 .. Len(kids) : kids[i].val \in Value
  BY <1>2, KidsThere
<1>5. Len(kids) \in Nat
  BY <1>2
<1> DEFINE all == [i \in 1 .. Len(kids) |-> Visit(kids[i].val, rest)]
<1> HIDE DEF T, step, rest, kids
<1>6. all \in Seq(T)
  BY <1>3, <1>4, <1>5
<1> HIDE DEF all
<1>7. \A m \in Value \cup {Nothing} : <<Visit(m, rest)>> \in Seq(T) /\ <<Visit(m, <<>>)>> \in Seq(T)
  BY <1>3
<1>8. <<>> \in Seq(T)
  OBVIOUS
<1>9. CASE step.type = "root"
  <2>1. Calls(n, path) = <<Visit(n, rest)>>
    BY <1>9 DEF Calls, step, rest
  <2> QED
    BY <1>7, <2>1 DEF T
<1>10. CASE step.type = "member"
  <2>1. CASE values[n].type = "object" /\ step.member \in NamesOf(n)
    <3>1. PICK e : e = CHOOSE x \in Range(kids) : x.key = step.member
      OBVIOUS
    <3>2. \E x \in Range(kids) : x.key = step.member
      BY <2>1 DEF NamesOf, Range, kids
    <3>3. e \in Range(kids)
      BY <3>1, <3>2
    <3>4. e.val \in Value
      BY <1>2, <1>4, <3>3 DEF Range
    <3>5. Calls(n, path) = <<Visit(e.val, rest)>>
      BY <1>10, <2>1, <3>1 DEF Calls, step, rest, kids
    <3> QED
      BY <1>7, <3>4, <3>5 DEF T
  <2>2. CASE ~ (values[n].type = "object" /\ step.member \in NamesOf(n))
    <3>1. Calls(n, path) = <<>>
      BY <1>10, <2>2 DEF Calls, step
    <3> QED
      BY <1>8, <3>1 DEF T
  <2> QED
    BY <2>1, <2>2
<1>11. CASE step.type = "descent"
  <2> DEFINE V(i) == IF StepMatches(Head(rest), n, i) THEN Visit(n, rest) ELSE Visit(kids[i].val, path)
  <2>1. Calls(n, path) = [i \in 1 .. Len(kids) |-> V(i)]
    BY <1>11 DEF Calls, step, rest, kids
  <2>2. \A i \in 1 .. Len(kids) : V(i) \in T
    BY <1>3, <1>4
  <2> HIDE DEF V
  <2> QED
    BY <1>5, <2>1, <2>2 DEF T
<1>12. CASE step.type = "anyMember"
  <2>1. Calls(n, path) = IF values[n].type = "object" THEN all ELSE <<Visit(n, <<>>)>>
    BY <1>12 DEF Calls, step, rest, kids, all
  <2> QED
    BY <1>6, <1>7, <2>1 DEF T
<1>13. CASE step.type = "anyElement"
  <2>1. Calls(n, path) = IF values[n].type = "array" THEN all ELSE <<Visit(n, <<>>)>>
    BY <1>13 DEF Calls, step, rest, kids, all
  <2> QED
    BY <1>6, <1>7, <2>1 DEF T
<1>14. CASE step.type = "element"
  <2>1. Calls(n, path) = <<Visit(KidAt(n, step.index), rest)>>
    BY <1>14 DEF Calls, step, rest
  <2> QED
    BY <1>7, <2>1, KidAtThere DEF T
<1>15. CASE step.type = "list"
  <2>1. Calls(n, path) = [i \in 1 .. Len(step.list) |-> Visit(KidAt(n, step.list[i]), rest)]
    BY <1>15 DEF Calls, step, rest
  <2>2. \A i : Visit(KidAt(n, step.list[i]), rest) \in T
    BY <1>3, KidAtThere
  <2>3. Len(step.list) \in Nat
    BY <1>1, <1>15
  <2> QED
    BY <2>1, <2>2, <2>3 DEF T
<1>16. CASE step.type = "slice"
  <2>1. CASE values[n].type = "array"
    <3>1. PICK i : i = FromEnd(n, step.start)
      OBVIOUS
    <3>2. i \in Int
      BY <1>1, <1>5, <1>16, <3>1 DEF FromEnd, kids
    <3>3. Slice(n, path, i) \in There(values)
      BY <1>2, <1>16, <3>2 DEF Slice, There, Walks, Value, step
    <3>4. Calls(n, path) = <<Slice(n, path, i)>>
      BY <1>16, <2>1, <3>1 DEF Calls, step
    <3> QED
      BY <3>3, <3>4, OneSymbol
  <2>2. CASE values[n].type # "array"
    <3>1. Calls(n, path) = <<>>
      BY <1>16, <2>2 DEF Calls, step
    <3> QED
      BY <1>8, <3>1 DEF T
  <2> QED
    BY <2>1, <2>2
<1> QED
  BY <1>1, <1>9, <1>10, <1>11, <1>12, <1>13, <1>14, <1>15, <1>16

LEMMA FoundKeeps ==
  ASSUME JsonInv, ValuesOK, todo \in Seq(There(values)), todo # <<>>, results \in Seq(AnyValue),
         NEW x \in Value, Finds(x), own' = own, strings' = strings, dec' = dec
  PROVE  JsonInv'
<1>1. IsHeap(values) /\ own \in [Addr -> Nat] /\ Value \subseteq AnyValue
  BY DEF JsonInv, ValuesTyped, IsHeap, Value
<1>2. todo \in Seq(Walks)
  BY ThereType
<1>3. x \in Singleton \/ values[x].nrefs > 0
  BY <1>2, Settled
<1>4. values' = Ref(values, <<x>>) /\ results' = Append(results, x) /\ todo' = Tail(todo)
  BY DEF Finds
<1>5. RefTo(values, values', x)
  BY <1>1, <1>3, <1>4, RefAdds DEF Value
<1>6. /\ IsHeap(values') /\ DOMAIN values' = DOMAIN values
      /\ \A w \in DOMAIN values : /\ values'[w].kids = values[w].kids
                                  /\ values'[w].nrefs = values[w].nrefs + (IF w \in Addr THEN Same(w, x) ELSE 0)
      /\ TypesKept(values, values')
      /\ \A w : Elements(values', w) = Elements(values, w)
      /\ StringsIn(values') = StringsIn(values)
  BY <1>5 DEF RefTo
<1>7. results' \in Seq(AnyValue) /\ x \in AnyValue
  BY <1>1, <1>4
<1>8. todo' \in Seq(There(values')) /\ todo' \in Seq(Walks)
  <2>1. There(values') = There(values)
    BY <1>6 DEF There
  <2>2. Tail(todo) \in Seq(There(values))
    BY HeadTailProperties
  <2> QED
    BY <1>4, <2>1, <2>2, ThereType
<1>9. ValuesTyped' /\ TodoInv'
  BY <1>1, <1>6, <1>7, <1>8 DEF ValuesTyped, TodoInv
<1>10. StackInv' /\ KeysInv'
  <2>1. \A i \in DOMAIN dec.stack : dec.stack[i].val \in DOMAIN values
    BY FramesThere DEF Value
  <2> QED
    BY <1>6, <2>1, DecKept
<1>11. ASSUME NEW v \in Addr
       PROVE  CountedIn(values', own', results', todo', dec', v)
  <2>1. /\ CountedIn(values, own, results, todo, dec, v)
        /\ own[v] \in Nat /\ Elements(values, v) \in Nat /\ FoundIn(results, v) \in Nat
        /\ Hits(dec.stack, FramesOf(v)) \in Nat /\ Same(dec.val, v) \in Nat
        /\ v \in Value => values[v].nrefs \in Nat
    BY Counting
  <2>2. Same(v, x) \in Nat /\ (v # x => Same(v, x) = 0)
    BY DEF Same
  <2>3. Hits(todo, {Item("release", v)}) = 0 /\ Hits(todo, {Item("free", v)}) = 0
        /\ Hits(todo', {Item("release", v)}) = 0 /\ Hits(todo', {Item("free", v)}) = 0
    BY <1>2, <1>8, NoFrees
  <2>4. FoundIn(results', v) = FoundIn(results, v) + Same(v, x)
    <3>1. Hits(Append(results, x), {v}) = Hits(results, {v}) + One(x \in {v})
      BY <1>7, HitsAppend
    <3>2. One(x \in {v}) = Same(v, x)
      BY DEF One, Same
    <3> QED
      BY <1>4, <1>7, <3>1, <3>2, NullIsNoSequence DEF FoundIn
  <2>5. Refs(values', own', results', todo', dec', v)
        = Refs(values, own, results, todo, dec, v) + Same(v, x)
    <3>1. own' = own /\ dec' = dec /\ Elements(values', v) = Elements(values, v)
      BY <1>6
    <3> QED
      BY ONLY <2>1, <2>2, <2>3, <2>4, <3>1 DEF Refs
  <2>6. CASE v \in DOMAIN values
    <3>1. values'[v].nrefs = values[v].nrefs + Same(v, x) /\ values'[v].kids = values[v].kids
      <4>1. (IF v \in Addr THEN Same(v, x) ELSE 0) = Same(v, x)
        OBVIOUS
      <4> QED
        BY <1>6, <2>6, <4>1
    <3>2. v = x => values[v].nrefs > 0
      BY <1>3 DEF ValuesOK
    <3>3. values[v].nrefs \in Nat
      BY <2>1, <2>6 DEF Value
    <3>4. values'[v].nrefs = 0 <=> values[v].nrefs = 0
      BY <2>2, <3>1, <3>2, <3>3
    <3>5. Same(values'[v].nrefs, 0) = Same(values[v].nrefs, 0)
      BY <3>4 DEF Same
    <3>6. v \in DOMAIN values'
      BY <1>6, <2>6
    <3> QED
      BY ONLY <2>1, <2>3, <2>5, <2>6, <3>1, <3>4, <3>5, <3>6 DEF CountedIn
  <2>7. CASE v \notin DOMAIN values
    <3>1. v # x /\ v \notin DOMAIN values'
      BY <1>6, <2>7 DEF Value
    <3>2. Same(v, x) = 0
      BY <2>2, <3>1
    <3>3. Refs(values', own', results', todo', dec', v) = 0
      BY ONLY <2>1, <2>5, <2>7, <3>2 DEF CountedIn
    <3> QED
      BY ONLY <2>3, <3>1, <3>3 DEF CountedIn
  <2> QED
    BY <2>6, <2>7
<1>12. strings' = StringsIn(values') + Hits(dec'.stack, WithKey)
  BY <1>6, StringsNow
<1> QED
  BY <1>9, <1>10, <1>11, <1>12, Assembled

LEMMA WalkStepKeeps ==
  ASSUME JsonInv, ValuesOK, WalkStep, dec' = dec
  PROVE  JsonInv'
<1> DEFINE T == There(values)
           w == Head(todo)
           rest == Tail(todo)
<1>1. todo # <<>> /\ w.op \in {"visit", "slice"} /\ own' = own /\ strings' = strings
  BY DEF WalkStep
<1>2. todo \in Seq(T) /\ results \in Seq(AnyValue)
  <2>1. todo \notin Seq(Frees)
    <3> SUFFICES ASSUME todo \in Seq(Frees)
                 PROVE  FALSE
      OBVIOUS
    <3>1. w \in Frees
      BY <1>1
    <3> HIDE DEF w
    <3>2. w.op \in {"release", "free"}
      BY <3>1 DEF Frees
    <3> QED
      BY <1>1, <3>2
  <2> QED
    BY <2>1 DEF JsonInv, TodoInv
<1>3. w \in T /\ rest \in Seq(T) /\ todo \in Seq(Walks)
  BY <1>1, <1>2, HeadTailProperties, ThereType
<1>4. ASSUME values' = values, results' = results, todo' \in Seq(T)
      PROVE  JsonInv'
  <2>1. \A v \in Addr : FoundIn(results', v) = FoundIn(results, v)
    BY <1>4
  <2> QED
    BY <1>1, <1>2, <1>3, <1>4, <2>1, WalkKeeps
<1>5. Value \subseteq AnyValue
  BY DEF JsonInv, ValuesTyped, IsHeap, Value
<1> HIDE DEF T, w, rest
<1>6. ASSUME w.op = "visit", VisitStep(w.val, w.path)
      PROVE  JsonInv'
  <2>1. w.path \in SomePath /\ w.val \in Value \cup {Nothing}
    BY <1>3, <1>6 DEF T, There, Walks, Value
  <2>2. ASSUME todo' = rest, values' = values, results' = results
        PROVE  JsonInv'
    BY <1>3, <1>4, <2>2
  <2>3. ASSUME w.val # Nothing, Finds(w.val)
        PROVE  JsonInv'
    BY <1>1, <1>2, <2>1, <2>3, FoundKeeps DEF T
  <2>4. ASSUME w.val # Nothing, w.path # <<>>, todo' = Calls(w.val, w.path) \o rest,
               values' = values, results' = results
        PROVE  JsonInv'
    <3>1. Calls(w.val, w.path) \in Seq(T)
      BY <2>1, <2>4, CallsThere DEF T
    <3>2. todo' \in Seq(T)
      BY <1>3, <2>4, <3>1, ConcatProperties
    <3> QED
      BY <1>4, <2>4, <3>2
  <2> QED
    BY <1>6, <2>2, <2>3, <2>4 DEF VisitStep, rest
<1>7. ASSUME w.op = "slice", SliceStep(w.val, w.path, w.at)
      PROVE  JsonInv'
  <2>1. w.path \in SomePath /\ w.val \in Value /\ w.path # <<>> /\ Head(w.path).type = "slice"
        /\ w.at \in Int
    BY <1>3, <1>7 DEF T, There, Walks, Value
  <2>2. Tail(w.path) \in SomePath /\ Head(w.path).step \in Int
    BY <2>1, PathSteps DEF StepsOK
  <2>3. PICK i \in Int : i = w.at + Head(w.path).step
    BY <2>1, <2>2
  <2>4. Visit(KidAt(w.val, w.at), Tail(w.path)) \in T
    BY <1>5, <2>1, <2>2, KidAtThere, VisitThere DEF T
  <2>5. Slice(w.val, w.path, i) \in T
    BY <1>5, <2>1 DEF T, Slice, There, Walks, Value
  <2>6. PICK s : s = <<Visit(KidAt(w.val, w.at), Tail(w.path)), Slice(w.val, w.path, i)>>
    OBVIOUS
  <2>7. s \in Seq(T)
    BY ONLY <2>4, <2>5, <2>6
  <2>8. s \o rest \in Seq(T)
    BY <1>3, <2>7, ConcatProperties
  <2>9. todo' = s \o rest \/ todo' = rest
    BY <1>7, <2>3, <2>6 DEF SliceStep, rest
  <2>10. todo' \in Seq(T)
    BY <1>3, <2>8, <2>9
  <2> QED
    BY <1>4, <1>7, <2>10 DEF SliceStep
<1> QED
  BY <1>6, <1>7 DEF WalkStep, w

-----------------------------------------------------------------------------
(* The releases and frees of pcl_json_free. *)

LEMMA FreeHead ==
  ASSUME todo \in Seq(Frees), todo # <<>>
  PROVE  /\ Tail(todo) \in Seq(Frees)
         /\ Head(todo).op = "release" => /\ Head(todo) = Item("release", Head(todo).val)
                                         /\ Head(todo).val \in AnyValue
         /\ Head(todo).op = "free" => /\ Head(todo) = Item("free", Head(todo).val)
                                      /\ Head(todo).val \in Addr
<1>1. PICK w : w = Head(todo)
  OBVIOUS
<1>2. w \in Frees /\ Tail(todo) \in Seq(Frees)
  BY <1>1, HeadTailProperties
<1>3. w.op = "release" => w = Item("release", w.val) /\ w.val \in AnyValue
  BY <1>2 DEF Frees, Item
<1>4. w.op = "free" => w = Item("free", w.val) /\ w.val \in Addr
  BY <1>2 DEF Frees, Item
<1> QED
  BY <1>1, <1>2, <1>3, <1>4

LEMMA ReleaseHeadHits ==
  ASSUME todo \in Seq(Frees), todo # <<>>, NEW v, Head(todo) = Item("release", v), NEW u
  PROVE  /\ Hits(todo, {Item("release", u)}) = Hits(Tail(todo), {Item("release", u)}) + Same(v, u)
         /\ Hits(todo, {Item("free", u)}) = Hits(Tail(todo), {Item("free", u)})
         /\ Hits(Tail(todo), {Item("release", u)}) \in Nat /\ Hits(Tail(todo), {Item("free", u)}) \in Nat
<1>1. Tail(todo) \in Seq(Frees)
  BY HeadTailProperties
<1>2. \A T : Hits(todo, T) = Hits(Tail(todo), T) + One(Head(todo) \in T) /\ Hits(Tail(todo), T) \in Nat
  BY <1>1, HitsTail, HitsType
<1>3. One(Head(todo) \in {Item("release", u)}) = Same(v, u)
  BY DEF One, Same, Item
<1>4. One(Head(todo) \in {Item("free", u)}) = 0
  BY DEF One, Item
<1> QED
  BY <1>2, <1>3, <1>4

LEMMA FreeHeadHits ==
  ASSUME todo \in Seq(Frees), todo # <<>>, NEW v, Head(todo) = Item("free", v), NEW u
  PROVE  /\ Hits(todo, {Item("release", u)}) = Hits(Tail(todo), {Item("release", u)})
         /\ Hits(todo, {Item("free", u)}) = Hits(Tail(todo), {Item("free", u)}) + Same(v, u)
         /\ Hits(Tail(todo), {Item("release", u)}) \in Nat /\ Hits(Tail(todo), {Item("free", u)}) \in Nat
<1>1. Tail(todo) \in Seq(Frees)
  BY HeadTailProperties
<1>2. \A T : Hits(todo, T) = Hits(Tail(todo), T) + One(Head(todo) \in T) /\ Hits(Tail(todo), T) \in Nat
  BY <1>1, HitsTail, HitsType
<1>3. One(Head(todo) \in {Item("free", u)}) = Same(v, u)
  BY DEF One, Same, Item
<1>4. One(Head(todo) \in {Item("release", u)}) = 0
  BY DEF One, Item
<1> QED
  BY <1>2, <1>3, <1>4

\* A release of null, true or false.
LEMMA NothingReleased ==
  ASSUME JsonInv, ValuesOK, todo \in Seq(Frees), todo # <<>>,
         NEW v \in Singleton, Head(todo) = Item("release", v), todo' = Tail(todo),
         values' = values, own' = own, results' = results, strings' = strings, dec' = dec
  PROVE  JsonInv'
<1>1. StackInv' /\ KeysInv'
  BY SameDec
<1>2. todo' \in Seq(Frees)
  BY HeadTailProperties
<1>3. ValuesTyped' /\ TodoInv'
  BY <1>2 DEF JsonInv, ValuesTyped, TodoInv
<1>4. ASSUME NEW u \in Addr
      PROVE  CountedIn(values', own', results', todo', dec', u)
  <2>1. /\ CountedIn(values, own, results, todo, dec, u)
        /\ own[u] \in Nat /\ Elements(values, u) \in Nat /\ FoundIn(results, u) \in Nat
        /\ Hits(dec.stack, FramesOf(u)) \in Nat /\ Same(dec.val, u) \in Nat
    BY Counting
  <2>2. /\ Hits(todo, {Item("release", u)}) = Hits(todo', {Item("release", u)}) + Same(v, u)
        /\ Hits(todo, {Item("free", u)}) = Hits(todo', {Item("free", u)})
        /\ Hits(todo', {Item("release", u)}) \in Nat
    BY ReleaseHeadHits
  <2>3. Same(v, u) = 0
    BY DEF ValuesOK, Same
  <2>4. values' = values /\ own' = own /\ dec' = dec /\ results' = results
    OBVIOUS
  <2>5. Refs(values', own', results', todo', dec', u) = Refs(values, own, results, todo, dec, u)
    BY ONLY <2>2, <2>3, <2>4 DEF Refs
  <2> QED
    BY ONLY <2>1, <2>2, <2>4, <2>5 DEF CountedIn
<1>5. strings' = StringsIn(values') + Hits(dec'.stack, WithKey)
  BY StringsNow
<1> QED
  BY <1>1, <1>3, <1>4, <1>5, Assembled

LEMMA ReleasedThere ==
  ASSUME JsonInv, ValuesOK, todo \in Seq(Frees), todo # <<>>,
         NEW v \in AnyValue, v \notin Singleton, Head(todo) = Item("release", v)
  PROVE  v \in Addr /\ v \in DOMAIN values /\ values[v].nrefs \in Nat /\ values[v].nrefs > 0
<1>1. v \in Addr
  BY DEF AnyValue
<1>2. Hits(todo, {Item("release", v)}) > 0
  <2>1. Hits(todo, {Item("release", v)}) = Hits(Tail(todo), {Item("release", v)}) + Same(v, v)
        /\ Hits(Tail(todo), {Item("release", v)}) \in Nat
    BY ReleaseHeadHits
  <2>2. Same(v, v) = 1
    BY DEF Same
  <2> QED
    BY ONLY <2>1, <2>2
<1>3. v \in Value
  BY <1>1, <1>2, Referred
<1>4. /\ CountedIn(values, own, results, todo, dec, v)
      /\ own[v] \in Nat /\ Elements(values, v) \in Nat /\ FoundIn(results, v) \in Nat
      /\ Hits(todo, {Item("release", v)}) \in Nat
      /\ Hits(dec.stack, FramesOf(v)) \in Nat /\ Same(dec.val, v) \in Nat
      /\ values[v].nrefs \in Nat
  BY <1>1, <1>3, Counting
<1>5. Refs(values, own, results, todo, dec, v) > 0
  BY ONLY <1>2, <1>4 DEF Refs
<1>6. v \in DOMAIN values
  BY <1>3 DEF Value
<1>7. values[v].nrefs > 0
  BY ONLY <1>4, <1>5, <1>6 DEF CountedIn
<1> QED
  BY <1>1, <1>4, <1>6, <1>7

LEMMA OneReleased ==
  ASSUME JsonInv, ValuesOK, todo \in Seq(Frees), todo # <<>>,
         NEW v \in AnyValue, v \notin Singleton, Head(todo) = Item("release", v), todo' = Tail(todo),
         values[v].nrefs > 1, values' = [values EXCEPT ![v].nrefs = @ - 1],
         own' = own, results' = results, strings' = strings, dec' = dec
  PROVE  JsonInv'
<1>1. v \in DOMAIN values
  BY ReleasedThere
<1>2. IsHeap(values) /\ own \in [Addr -> Nat] /\ results \in Seq(AnyValue) \cup {Nothing}
  BY DEF JsonInv, ValuesTyped
<1>3. /\ IsHeap(values') /\ DOMAIN values' = DOMAIN values /\ TypesKept(values, values')
      /\ \A w \in DOMAIN values : /\ values'[w].kids = values[w].kids
                                  /\ values[w].nrefs = values'[w].nrefs + Same(w, v)
                                  /\ values'[w].nrefs = 0 <=> values[w].nrefs = 0
      /\ \A w : Elements(values', w) = Elements(values, w)
      /\ StringsIn(values') = StringsIn(values)
  <2>1. values' = CountedDown(v)
    BY DEF CountedDown
  <2> QED
    BY ONLY <1>1, <1>2, <2>1, ValuesOK, v \notin Singleton, values[v].nrefs > 1, OneLess
<1>4. todo' \in Seq(Frees)
  BY HeadTailProperties
<1>5. ValuesTyped' /\ TodoInv'
  BY <1>2, <1>3, <1>4 DEF ValuesTyped, TodoInv
<1>6. StackInv' /\ KeysInv'
  <2>1. \A i \in DOMAIN dec.stack : dec.stack[i].val \in DOMAIN values
    BY FramesThere DEF Value
  <2> QED
    BY <1>3, <2>1, DecKept
<1>7. ASSUME NEW u \in Addr
      PROVE  CountedIn(values', own', results', todo', dec', u)
  <2>1. /\ CountedIn(values, own, results, todo, dec, u)
        /\ own[u] \in Nat /\ Elements(values, u) \in Nat /\ FoundIn(results, u) \in Nat
        /\ Hits(dec.stack, FramesOf(u)) \in Nat /\ Same(dec.val, u) \in Nat
    BY Counting
  <2>2. /\ Hits(todo, {Item("release", u)}) = Hits(todo', {Item("release", u)}) + Same(v, u)
        /\ Hits(todo, {Item("free", u)}) = Hits(todo', {Item("free", u)})
        /\ Hits(todo', {Item("release", u)}) \in Nat
    BY ReleaseHeadHits
  <2>3. own' = own /\ dec' = dec /\ results' = results /\ Elements(values', u) = Elements(values, u)
    BY <1>3
  <2>4. Same(v, u) = Same(u, v) /\ Same(v, u) \in Nat
    BY DEF Same
  <2>5. Refs(values, own, results, todo, dec, u) = Refs(values', own', results', todo', dec', u) + Same(v, u)
        /\ Refs(values', own', results', todo', dec', u) \in Nat
    BY ONLY <2>1, <2>2, <2>3, <2>4 DEF Refs
  <2>6. CASE u \in DOMAIN values
    <3>1. /\ u \in DOMAIN values' /\ values'[u].kids = values[u].kids
          /\ values[u].nrefs = values'[u].nrefs + Same(u, v)
          /\ values'[u].nrefs = 0 <=> values[u].nrefs = 0
          /\ values'[u].nrefs \in Nat
      BY <1>3, <2>6, BlockParts
    <3>2. Same(values'[u].nrefs, 0) = Same(values[u].nrefs, 0)
      BY <3>1 DEF Same
    <3> QED
      BY ONLY <2>1, <2>2, <2>4, <2>5, <2>6, <3>1, <3>2 DEF CountedIn
  <2>7. CASE u \notin DOMAIN values
    <3>1. Same(v, u) = 0 /\ u \notin DOMAIN values'
      BY <1>1, <1>3, <2>7 DEF Same
    <3> QED
      BY ONLY <2>1, <2>2, <2>5, <2>7, <3>1 DEF CountedIn
  <2> QED
    BY <2>6, <2>7
<1>8. strings' = StringsIn(values') + Hits(dec'.stack, WithKey)
  BY <1>3, StringsNow
<1> QED
  BY <1>5, <1>6, <1>7, <1>8, Assembled

LEMMA KidsOfHits ==
  ASSUME IsHeap(values), NEW v \in DOMAIN values, NEW u
  PROVE  KidsOf(v) \in Seq(AnyValue) /\ Hits(KidsOf(v), {u}) = Hits(values[v].kids, Of(u))
<1>1. PICK s \in Seq(Kid) : s = values[v].kids
  BY BlockParts
<1>2. PICK t : t = KidsOf(v)
  OBVIOUS
<1>3. t = [i \in 1 .. Len(s) |-> s[i].val] /\ Len(s) \in Nat /\ DOMAIN s = 1 .. Len(s)
  BY <1>1, <1>2 DEF KidsOf
<1>4. \A i \in DOMAIN s : s[i] \in Kid
  OBVIOUS
<1>5. \A i \in DOMAIN s : s[i].val \in AnyValue
  BY <1>4 DEF Kid
<1>6. t \in Seq(AnyValue)
  BY <1>3, <1>5
<1>7. \A i \in DOMAIN s : t[i] \in {u} <=> s[i] \in Of(u)
  BY <1>3, <1>4 DEF Of
<1>8. Hits(t, {u}) = Hits(s, Of(u))
  BY <1>3, <1>7, HitsSame
<1> QED
  BY <1>1, <1>2, <1>6, <1>8

FreesOf(s, v, t) == Releases(s) \o <<Item("free", v)>> \o t

LEMMA EmptiedHits ==
  ASSUME NEW s \in Seq(AnyValue), NEW t \in Seq(Frees), NEW v \in Addr, NEW u
  PROVE  /\ FreesOf(s, v, t) \in Seq(Frees)
         /\ Hits(FreesOf(s, v, t), {Item("release", u)}) = Hits(s, {u}) + Hits(t, {Item("release", u)})
         /\ Hits(FreesOf(s, v, t), {Item("free", u)}) = Same(v, u) + Hits(t, {Item("free", u)})
<1> DEFINE r == FreesOf(s, v, t)
<1>1. Item("free", v) \in Frees
  BY DEF Item, Frees
<1>2. PICK a : a = Releases(s)
  OBVIOUS
<1>3. PICK b : b = <<Item("free", v)>>
  OBVIOUS
<1>4. a \in Seq(Frees)
  BY <1>2, ReleasesHits
<1>5. b \in Seq(Frees)
  BY <1>1, <1>3
<1>6. a \o b \in Seq(Frees)
  BY <1>4, <1>5, ConcatProperties
<1>7. r = (a \o b) \o t
  BY <1>2, <1>3 DEF FreesOf
<1> HIDE DEF r
<1>8. r \in Seq(Frees)
  BY <1>6, <1>7, ConcatProperties
<1>9. ASSUME NEW T
      PROVE  Hits(r, T) = Hits(a, T) + Hits(b, T) + Hits(t, T)
  <2>1. Hits((a \o b) \o t, T) = Hits(a \o b, T) + Hits(t, T)
    BY <1>6, HitsConcat
  <2>2. Hits(a \o b, T) = Hits(a, T) + Hits(b, T)
    BY <1>4, <1>5, HitsConcat
  <2> QED
    BY <1>7, <2>1, <2>2
<1>10. Hits(a, {Item("release", u)}) = Hits(s, {u}) /\ Hits(a, {Item("free", u)}) = 0
  BY <1>2, ReleasesHits
<1>11. Hits(b, {Item("release", u)}) = One(Item("free", v) \in {Item("release", u)})
       /\ Hits(b, {Item("free", u)}) = One(Item("free", v) \in {Item("free", u)})
  BY <1>3, HitsOne
<1>12. One(Item("free", v) \in {Item("release", u)}) = 0
       /\ One(Item("free", v) \in {Item("free", u)}) = Same(v, u)
  BY DEF One, Same, Item
<1>13. Hits(s, {u}) \in Nat /\ Hits(t, {Item("release", u)}) \in Nat /\ Hits(t, {Item("free", u)}) \in Nat
  BY HitsType
<1>14. Same(v, u) \in Nat
  BY SameType
<1>15. Hits(r, {Item("release", u)}) = Hits(a, {Item("release", u)}) + Hits(b, {Item("release", u)}) + Hits(t, {Item("release", u)})
  BY <1>9
<1>16. Hits(r, {Item("free", u)}) = Hits(a, {Item("free", u)}) + Hits(b, {Item("free", u)}) + Hits(t, {Item("free", u)})
  BY <1>9
<1> QED
  BY ONLY <1>8, <1>10, <1>11, <1>12, <1>13, <1>14, <1>15, <1>16 DEF r

LEMMA LastReleased ==
  ASSUME JsonInv, ValuesOK, todo \in Seq(Frees), todo # <<>>,
         NEW v \in AnyValue, v \notin Singleton, Head(todo) = Item("release", v),
         todo' = Releases(KidsOf(v)) \o <<Item("free", v)>> \o Tail(todo),
         values[v].nrefs = 1, values' = [values EXCEPT ![v].nrefs = @ - 1, ![v].kids = <<>>],
         strings' = strings - StringsOf(v), own' = own, results' = results, dec' = dec
  PROVE  JsonInv'
<1>1. v \in DOMAIN values /\ v \in Addr
  BY ReleasedThere
<1>2. IsHeap(values) /\ own \in [Addr -> Nat] /\ results \in Seq(AnyValue) \cup {Nothing}
  BY DEF JsonInv, ValuesTyped
<1>3. PICK g : g = values'
  OBVIOUS
<1>4. g = EmptiedHeap(v)
  BY <1>3 DEF EmptiedHeap
<1>5. /\ IsHeap(g) /\ DOMAIN g = DOMAIN values /\ TypesKept(values, g)
      /\ g[v].nrefs = 0 /\ g[v].kids = <<>>
      /\ \A w \in DOMAIN values : w # v => g[w] = values[w]
      /\ \A w : Elements(values, w) = Elements(g, w) + Hits(values[v].kids, Of(w))
      /\ StringsIn(values) = StringsIn(g) + StringsOf(v)
  BY ONLY <1>1, <1>2, <1>4, ValuesOK, v \notin Singleton, values[v].nrefs = 1, Emptied
<1>6. PICK s : s = KidsOf(v)
  OBVIOUS
<1>7. s \in Seq(AnyValue) /\ \A u : Hits(s, {u}) = Hits(values[v].kids, Of(u))
  BY <1>1, <1>2, <1>6, KidsOfHits
<1>8. PICK t : t = Tail(todo)
  OBVIOUS
<1>9. t \in Seq(Frees)
  BY <1>8, HeadTailProperties
<1>10. PICK r : r = todo'
  OBVIOUS
<1>11. r = FreesOf(s, v, t)
  BY <1>6, <1>8, <1>10 DEF FreesOf
<1>12. /\ r \in Seq(Frees)
       /\ \A u : /\ Hits(r, {Item("release", u)}) = Hits(s, {u}) + Hits(t, {Item("release", u)})
                 /\ Hits(r, {Item("free", u)}) = Same(v, u) + Hits(t, {Item("free", u)})
  <2>1. s \in Seq(AnyValue) /\ t \in Seq(Frees) /\ v \in Addr
    BY <1>1, <1>7, <1>9
  <2>2. ASSUME NEW u
        PROVE  /\ FreesOf(s, v, t) \in Seq(Frees)
               /\ Hits(FreesOf(s, v, t), {Item("release", u)}) = Hits(s, {u}) + Hits(t, {Item("release", u)})
               /\ Hits(FreesOf(s, v, t), {Item("free", u)}) = Same(v, u) + Hits(t, {Item("free", u)})
    BY ONLY <2>1, EmptiedHits
  <2> QED
    BY <1>11, <2>2
<1>13. ValuesTyped' /\ TodoInv'
  BY <1>2, <1>3, <1>5, <1>10, <1>12 DEF ValuesTyped, TodoInv
<1>14. StackInv' /\ KeysInv'
  <2>1. \A i \in DOMAIN dec.stack : dec.stack[i].val \in DOMAIN values
    BY FramesThere DEF Value
  <2> QED
    BY <1>3, <1>5, <2>1, DecKept
<1>15. ASSUME NEW u \in Addr
       PROVE  CountedIn(values', own', results', todo', dec', u)
  <2>1. /\ CountedIn(values, own, results, todo, dec, u)
        /\ own[u] \in Nat /\ Elements(values, u) \in Nat /\ FoundIn(results, u) \in Nat
        /\ Hits(dec.stack, FramesOf(u)) \in Nat /\ Same(dec.val, u) \in Nat
    BY Counting
  <2>2. /\ Hits(todo, {Item("release", u)}) = Hits(t, {Item("release", u)}) + Same(v, u)
        /\ Hits(todo, {Item("free", u)}) = Hits(t, {Item("free", u)})
        /\ Hits(t, {Item("release", u)}) \in Nat /\ Hits(t, {Item("free", u)}) \in Nat
    BY <1>8, ReleaseHeadHits
  <2>3. own' = own /\ dec' = dec /\ results' = results /\ todo' = r /\ values' = g
        /\ Same(v, u) \in Nat
    BY <1>3, <1>10, SameType
  <2>4. Hits(r, {Item("release", u)}) = Hits(s, {u}) + Hits(t, {Item("release", u)})
        /\ Hits(r, {Item("free", u)}) = Same(v, u) + Hits(t, {Item("free", u)})
    BY <1>12
  <2>5. Elements(values, u) = Elements(g, u) + Hits(s, {u})
        /\ Elements(g, u) \in Nat /\ Hits(s, {u}) \in Nat
    BY <1>5, <1>7, CountsType, HitsType
  <2>6. Refs(values, own, results, todo, dec, u) = Refs(values', own', results', todo', dec', u) + Same(v, u)
        /\ Refs(values', own', results', todo', dec', u) \in Nat
    BY ONLY <2>1, <2>2, <2>3, <2>4, <2>5 DEF Refs
  <2>7. DOMAIN values' = DOMAIN values
    BY <1>3, <1>5
  <2>8. CASE u = v
    <3>1. Same(v, u) = 1 /\ Same(0, 0) = 1 /\ Same(1, 0) = 0
      BY <2>8 DEF Same
    <3>2. values'[u].nrefs = 0 /\ values'[u].kids = <<>> /\ u \in DOMAIN values /\ values[u].nrefs = 1
      BY <1>1, <1>3, <1>5, <2>8
    <3> QED
      BY ONLY <2>1, <2>2, <2>3, <2>4, <2>6, <2>7, <3>1, <3>2 DEF CountedIn
  <2>9. CASE u # v
    <3>1. Same(v, u) = 0
      BY <2>9 DEF Same
    <3>2. u \in DOMAIN values => values'[u] = values[u]
      BY <1>3, <1>5, <2>9
    <3> QED
      BY ONLY <2>1, <2>2, <2>3, <2>4, <2>6, <2>7, <3>1, <3>2 DEF CountedIn
  <2> QED
    BY <2>8, <2>9
<1>16. strings' = StringsIn(values') + Hits(dec'.stack, WithKey)
  <2>1. StringsOf(v) \in Nat
    <3>1. Len(values[v].kids) \in Nat
      BY <1>1, <1>2, BlockParts
    <3> QED
      BY <3>1 DEF StringsOf
  <2>2. StringsIn(g) \in Nat
    BY <1>5, CountsType
  <2>3. strings = StringsIn(values) + Hits(dec.stack, WithKey) /\ Hits(dec.stack, WithKey) \in Nat
    BY StringsNow
  <2>4. StringsIn(values) = StringsIn(g) + StringsOf(v) /\ values' = g /\ dec' = dec
        /\ strings' = strings - StringsOf(v)
    BY <1>3, <1>5
  <2> QED
    BY ONLY <2>1, <2>2, <2>3, <2>4
<1> QED
  BY <1>13, <1>14, <1>15, <1>16, Assembled

LEMMA BlockFreed ==
  ASSUME JsonInv, ValuesOK, todo \in Seq(Frees), todo # <<>>,
         NEW v \in Addr, Head(todo) = Item("free", v), todo' = Tail(todo),
         values' = [w \in Value \ {v} |-> values[w]],
         own' = own, results' = results, strings' = strings, dec' = dec
  PROVE  JsonInv'
<1>1. PICK t : t = Tail(todo)
  OBVIOUS
<1>2. \A u : /\ Hits(todo, {Item("release", u)}) = Hits(t, {Item("release", u)})
             /\ Hits(todo, {Item("free", u)}) = Hits(t, {Item("free", u)}) + Same(v, u)
             /\ Hits(t, {Item("release", u)}) \in Nat /\ Hits(t, {Item("free", u)}) \in Nat
  BY <1>1, FreeHeadHits
<1>3. v \in DOMAIN values /\ Same(v, v) = 1
  <2>1. Same(v, v) = 1
    BY DEF Same
  <2>2. Hits(todo, {Item("free", v)}) = Hits(t, {Item("free", v)}) + Same(v, v)
        /\ Hits(t, {Item("free", v)}) \in Nat
    BY <1>2
  <2>3. Hits(todo, {Item("free", v)}) > 0
    BY ONLY <2>1, <2>2
  <2> QED
    BY <2>1, <2>3, Referred DEF Value
<1>4. /\ CountedIn(values, own, results, todo, dec, v)
      /\ own[v] \in Nat /\ Elements(values, v) \in Nat /\ FoundIn(results, v) \in Nat
      /\ Hits(todo, {Item("release", v)}) \in Nat
      /\ Hits(dec.stack, FramesOf(v)) \in Nat /\ Same(dec.val, v) \in Nat
  BY Counting
<1>5. values[v].nrefs = 0 /\ values[v].kids = <<>> /\ Hits(t, {Item("free", v)}) = 0
      /\ Refs(values, own, results, todo, dec, v) = 0
  <2>1. /\ Hits(todo, {Item("free", v)}) = Hits(t, {Item("free", v)}) + Same(v, v)
        /\ Hits(t, {Item("free", v)}) \in Nat
    BY <1>2
  <2>2. Same(values[v].nrefs, 0) = Hits(todo, {Item("free", v)})
    BY <1>3, <1>4 DEF CountedIn
  <2>3. values[v].nrefs = 0 /\ Hits(t, {Item("free", v)}) = 0
    BY <1>3, <2>1, <2>2 DEF Same
  <2> QED
    BY <1>3, <1>4, <2>3 DEF CountedIn
<1>6. IsHeap(values) /\ own \in [Addr -> Nat] /\ results \in Seq(AnyValue) \cup {Nothing} /\ v \notin Singleton
  BY DEF JsonInv, ValuesTyped, ValuesOK
<1>7. PICK g : g = values'
  OBVIOUS
<1>8. g = [w \in DOMAIN values \ {v} |-> values[w]]
  BY <1>7 DEF Value
<1>9. /\ IsHeap(g) /\ DOMAIN g = DOMAIN values \ {v} /\ TypesKept(values, g)
      /\ \A w \in DOMAIN values \ {v} : g[w] = values[w]
      /\ \A w : Elements(g, w) = Elements(values, w)
      /\ StringsIn(g) = StringsIn(values)
  BY ONLY <1>3, <1>5, <1>6, <1>8, ValuesOK, Removed
<1>10. t \in Seq(Frees)
  BY <1>1, HeadTailProperties
<1>11. ValuesTyped' /\ TodoInv'
  BY <1>1, <1>6, <1>7, <1>9, <1>10 DEF ValuesTyped, TodoInv
<1>12. StackInv' /\ KeysInv'
  <2>1. \A i \in DOMAIN dec.stack : dec.stack[i].val \in DOMAIN values
    BY FramesThere DEF Value
  <2>2. \A i \in DOMAIN dec.stack : dec.stack[i].val # v
    <3>1. Hits(dec.stack, FramesOf(v)) = 0
      <4>1. Hits(todo, {Item("release", v)}) \in Nat
        BY <1>2
      <4> QED
        BY ONLY <1>4, <1>5, <4>1 DEF Refs
    <3>2. dec.stack \in Seq(Frame)
      BY DEF JsonInv, StackInv
    <3>3. \A i \in DOMAIN dec.stack : dec.stack[i] \notin FramesOf(v)
      BY <3>1, <3>2, HitsSome
    <3>4. \A i \in DOMAIN dec.stack : dec.stack[i] \in Frame
      BY <3>2
    <3> QED
      BY <3>3, <3>4 DEF FramesOf
  <2>3. \A i \in DOMAIN dec.stack : dec.stack[i].val \in DOMAIN values'
    BY <1>7, <1>9, <2>1, <2>2
  <2>4. TypesKept(values, values')
    BY <1>7, <1>9
  <2> QED
    BY <2>1, <2>3, <2>4, DecKept
<1>13. ASSUME NEW u \in Addr
       PROVE  CountedIn(values', own', results', todo', dec', u)
  <2>1. CountedIn(values, own, results, todo, dec, u)
    BY Counting
  <2>2. /\ Hits(todo, {Item("release", u)}) = Hits(t, {Item("release", u)})
        /\ Hits(todo, {Item("free", u)}) = Hits(t, {Item("free", u)}) + Same(v, u)
        /\ Hits(t, {Item("release", u)}) \in Nat /\ Hits(t, {Item("free", u)}) \in Nat
    BY <1>2
  <2>3. own' = own /\ dec' = dec /\ results' = results /\ todo' = t /\ Elements(values', u) = Elements(values, u)
    BY <1>1, <1>7, <1>9
  <2>4. Refs(values', own', results', todo', dec', u) = Refs(values, own, results, todo, dec, u)
    BY ONLY <2>2, <2>3 DEF Refs
  <2>5. CASE u = v
    <3>1. u \notin DOMAIN values'
      BY <1>7, <1>9, <2>5
    <3> QED
      BY <1>5, <2>3, <2>4, <2>5, <3>1 DEF CountedIn
  <2>6. CASE u # v
    <3>1. Same(v, u) = 0
      BY <2>6 DEF Same
    <3>2. (u \in DOMAIN values' <=> u \in DOMAIN values) /\ (u \in DOMAIN values => values'[u] = values[u])
      BY <1>7, <1>9, <2>6
    <3> QED
      BY ONLY <2>1, <2>2, <2>3, <2>4, <3>1, <3>2 DEF CountedIn
  <2> QED
    BY <2>5, <2>6
<1>14. strings' = StringsIn(values') + Hits(dec'.stack, WithKey)
  BY <1>7, <1>9, StringsNow
<1> QED
  BY <1>11, <1>12, <1>13, <1>14, Assembled

LEMMA FreeStepKeeps ==
  ASSUME JsonInv, ValuesOK, FreeStep, dec' = dec
  PROVE  JsonInv'
<1>1. todo # <<>> /\ Head(todo).op \in {"release", "free"} /\ own' = own /\ results' = results
  BY DEF FreeStep
<1>2. todo \in Seq(Frees)
  <2>1. todo \notin Seq(There(values))
    <3> SUFFICES ASSUME todo \in Seq(There(values))
                 PROVE  FALSE
      OBVIOUS
    <3>1. PICK w : w = Head(todo)
      OBVIOUS
    <3>2. w \in There(values)
      BY <1>1, <3>1
    <3>3. w.op \in {"visit", "slice"}
      BY <3>2 DEF There, Walks
    <3> QED
      BY <1>1, <3>1, <3>3
  <2> QED
    BY <2>1 DEF JsonInv, TodoInv
<1>3. PICK v : v = Head(todo).val
  OBVIOUS
<1>4. ASSUME Head(todo).op = "release", Release(v)
      PROVE  JsonInv'
  <2>1. Head(todo) = Item("release", v) /\ v \in AnyValue
    BY <1>1, <1>2, <1>3, <1>4, FreeHead
  <2>2. CASE v \in Singleton
    <3>1. todo' = Tail(todo) /\ values' = values /\ strings' = strings
      BY <1>4, <2>2 DEF Release, IsSingleton
    <3> QED
      BY <1>1, <1>2, <2>1, <2>2, <3>1, NothingReleased
  <2>3. CASE v \notin Singleton /\ values[v].nrefs > 1
    <3>1. todo' = Tail(todo) /\ values' = [values EXCEPT ![v].nrefs = @ - 1] /\ strings' = strings
      BY <1>4, <2>3 DEF Release, IsSingleton
    <3> QED
      BY <1>1, <1>2, <2>1, <2>3, <3>1, OneReleased
  <2>4. CASE v \notin Singleton /\ ~ (values[v].nrefs > 1)
    <3>1. /\ values' = [values EXCEPT ![v].nrefs = @ - 1, ![v].kids = <<>>]
          /\ strings' = strings - StringsOf(v)
          /\ todo' = Releases(KidsOf(v)) \o <<Item("free", v)>> \o Tail(todo)
      BY <1>4, <2>4 DEF Release, IsSingleton, Item
    <3>2. values[v].nrefs = 1
      BY <1>1, <1>2, <2>1, <2>4, ReleasedThere
    <3> QED
      BY <1>1, <1>2, <2>1, <2>4, <3>1, <3>2, LastReleased
  <2> QED
    BY <2>2, <2>3, <2>4
<1>5. ASSUME Head(todo).op = "free", values' = [w \in Value \ {v} |-> values[w]], todo' = Tail(todo),
             strings' = strings
      PROVE  JsonInv'
  <2>1. Head(todo) = Item("free", v) /\ v \in Addr
    BY <1>1, <1>2, <1>3, <1>5, FreeHead
  <2> QED
    BY <1>1, <1>2, <1>5, <2>1, BlockFreed
<1> QED
  BY <1>3, <1>4, <1>5 DEF FreeStep

-----------------------------------------------------------------------------
(* The parser. *)

DecIs(d, phase, stack, input, val, source) ==
  d = [phase |-> phase, stack |-> stack, input |-> input, val |-> val, source |-> source]

\* What the parser holds: a reference for each frame, and one to its value.
Held(d, v) == Hits(d.stack, FramesOf(v)) + Same(d.val, v)

FrameOK(h, frame) ==
  \/ h[frame.val].type = "object"
  \/ h[frame.val].type = "array" /\ frame.key = Nothing
WaitsIn(h, frame) == h[frame.val].type = "object" => frame.key # Nothing

LEMMA DecFields ==
  ASSUME NEW d, NEW phase, NEW stack, NEW input, NEW val, NEW source,
         DecIs(d, phase, stack, input, val, source)
  PROVE  d.phase = phase /\ d.stack = stack /\ d.input = input /\ d.val = val /\ d.source = source
BY DEF DecIs

LEMMA DecSet ==
  ASSUME NEW d, NEW phase, NEW stack, NEW input, NEW val, NEW source, NEW p, NEW s, NEW i,
         DecIs(d, phase, stack, input, val, source)
  PROVE  DecIs([d EXCEPT !.phase = p, !.input = i, !.stack = s], p, s, i, val, source)
<1>1. d = [phase |-> phase, stack |-> stack, input |-> input, val |-> val, source |-> source]
  BY DEF DecIs
<1>2. PICK e : e = [phase |-> p, stack |-> stack, input |-> input, val |-> val, source |-> source]
  OBVIOUS
<1>3. PICK f : f = [phase |-> p, stack |-> stack, input |-> i, val |-> val, source |-> source]
  OBVIOUS
<1>4. PICK g : g = [phase |-> p, stack |-> s, input |-> i, val |-> val, source |-> source]
  OBVIOUS
<1>5. [d EXCEPT !.phase = p] = e
  BY ONLY <1>1, <1>2
<1>6. [e EXCEPT !.input = i] = f
  BY ONLY <1>2, <1>3
<1>7. [f EXCEPT !.stack = s] = g
  BY ONLY <1>3, <1>4
<1>8. [d EXCEPT !.phase = p, !.input = i, !.stack = s]
      = [[[d EXCEPT !.phase = p] EXCEPT !.input = i] EXCEPT !.stack = s]
  BY ONLY <1>1
<1>9. [d EXCEPT !.phase = p, !.input = i, !.stack = s] = g
  BY ONLY <1>5, <1>6, <1>7, <1>8
<1> QED
  BY ONLY <1>4, <1>9 DEF DecIs

LEMMA DecNow ==
  ASSUME JsonInv
  PROVE  /\ DecIs(dec, dec.phase, dec.stack, dec.input, dec.val, dec.source)
         /\ dec.stack \in Seq(Frame) /\ dec.val \in AnyValue \cup {Nothing}
         /\ Len(dec.stack) \in Nat /\ DOMAIN dec.stack = 1 .. Len(dec.stack)
         /\ \A i \in DOMAIN dec.stack : dec.stack[i] \in Frame /\ FrameOK(values, dec.stack[i])
         /\ dec.stack # <<>> => Len(dec.stack) \in DOMAIN dec.stack /\ Top = dec.stack[Len(dec.stack)]
                                /\ Top \in Frame /\ FrameOK(values, Top)
<1>1. StackInv /\ DecShape
  BY DEF JsonInv, StackInv
<1>2. DecIs(dec, dec.phase, dec.stack, dec.input, dec.val, dec.source)
  BY <1>1 DEF DecShape, DecIs
<1>3. dec.stack \in Seq(Frame) /\ dec.val \in AnyValue \cup {Nothing}
  BY <1>1 DEF StackInv
<1>4. Len(dec.stack) \in Nat /\ DOMAIN dec.stack = 1 .. Len(dec.stack)
      /\ \A i \in DOMAIN dec.stack : dec.stack[i] \in Frame
  BY <1>3
<1>5. \A i \in DOMAIN dec.stack : FrameOK(values, dec.stack[i])
  BY <1>1 DEF StackInv, FrameOK
<1>6. dec.stack # <<>> => Len(dec.stack) \in DOMAIN dec.stack
  BY <1>3
<1>7. Top = dec.stack[Len(dec.stack)]
  BY DEF Top, Last
<1> QED
  BY <1>2, <1>3, <1>4, <1>5, <1>6, <1>7

\* The parts of the invariant about the parser, after a step.
LEMMA DecThen ==
  ASSUME NEW phase, NEW stack \in Seq(Frame), NEW input, NEW val \in AnyValue \cup {Nothing}, NEW source,
         DecIs(dec', phase, stack, input, val, source),
         \A i \in DOMAIN stack : FrameOK(values', stack[i]),
         phase # "failing" => \A i \in 1 .. Len(stack) - 1 : WaitsIn(values', stack[i]),
         phase \in {"value", "deliver"} /\ stack # <<>> => WaitsIn(values', stack[Len(stack)]),
         phase \in {"key", "after"} => stack # <<>> /\ stack[Len(stack)].key = Nothing,
         phase = "key" => values'[stack[Len(stack)].val].type = "object",
         phase = "deliver" <=> val # Nothing
  PROVE  StackInv' /\ KeysInv'
<1>1. dec'.phase = phase /\ dec'.stack = stack /\ dec'.input = input /\ dec'.val = val /\ dec'.source = source
  BY DecFields
<1>2. DecShape'
  BY <1>1 DEF DecShape, DecIs
<1>3. StackInv'
  BY <1>1, <1>2 DEF StackInv, FrameOK
<1>4. Top' = stack[Len(stack)]
  BY <1>1 DEF Top, Last
<1>5. KeysInv'
  BY <1>1, <1>4 DEF KeysInv, Waits, WaitsIn
<1> QED
  BY <1>3, <1>5

\* The steps of the parser that change nothing but the parser.
LEMMA DecChanges ==
  ASSUME JsonInv, ValuesOK, UNCHANGED valueVars, StackInv', KeysInv',
         \A v \in Addr : Held(dec', v) = Held(dec, v),
         Hits(dec'.stack, WithKey) = Hits(dec.stack, WithKey)
  PROVE  JsonInv'
<1>1. values' = values /\ own' = own /\ results' = results /\ todo' = todo /\ strings' = strings
  BY DEF valueVars
<1>2. ValuesTyped' /\ TodoInv'
  BY <1>1 DEF JsonInv, ValuesTyped, TodoInv
<1>3. ASSUME NEW v \in Addr
      PROVE  CountedIn(values', own', results', todo', dec', v)
  <2>1. /\ CountedIn(values, own, results, todo, dec, v)
        /\ own[v] \in Nat /\ Elements(values, v) \in Nat /\ FoundIn(results, v) \in Nat
        /\ Hits(todo, {Item("release", v)}) \in Nat /\ Hits(todo, {Item("free", v)}) \in Nat
        /\ Hits(dec.stack, FramesOf(v)) \in Nat /\ Same(dec.val, v) \in Nat
    BY Counting
  <2>2. Hits(dec'.stack, FramesOf(v)) + Same(dec'.val, v) = Hits(dec.stack, FramesOf(v)) + Same(dec.val, v)
    BY DEF Held
  <2>3. Hits(dec'.stack, FramesOf(v)) \in Nat /\ Same(dec'.val, v) \in Nat
    BY HitsType, SameType DEF StackInv
  <2>4. Refs(values', own', results', todo', dec', v) = Refs(values, own, results, todo, dec, v)
    BY ONLY <1>1, <2>1, <2>2, <2>3 DEF Refs
  <2> QED
    BY ONLY <1>1, <2>1, <2>4 DEF CountedIn
<1>4. strings' = StringsIn(values') + Hits(dec'.stack, WithKey)
  BY <1>1, StringsNow
<1> QED
  BY <1>2, <1>3, <1>4, Assembled

LEMMA FailKeeps ==
  ASSUME JsonInv, ValuesOK, Fail, UNCHANGED valueVars, dec.phase # "deliver"
  PROVE  JsonInv'
<1>1. DecIs(dec', "failing", dec.stack, dec.input, dec.val, dec.source)
  BY DecNow DEF Fail, DecIs
<1>2. dec.val = Nothing
  BY DEF JsonInv, KeysInv
<1>3. values' = values
  BY DEF valueVars
<1>4. \A i \in DOMAIN dec.stack : FrameOK(values', dec.stack[i])
  BY <1>3, DecNow
<1>5. dec.stack \in Seq(Frame)
  BY DecNow
<1>6. StackInv' /\ KeysInv'
  BY ONLY <1>1, <1>2, <1>4, <1>5, DecThen
<1>7. dec'.stack = dec.stack /\ dec'.val = dec.val
  BY <1>1, DecFields
<1> QED
  BY <1>6, <1>7, DecChanges DEF Held

\* The parser begins with no frames and no value.
LEMMA Begun ==
  ASSUME ValuesOK, NEW input, NEW source, DecIs(dec', "value", <<>>, input, Nothing, source)
  PROVE  StackInv' /\ KeysInv'
<1>1. PICK s : s = <<>>
  OBVIOUS
<1>2. s \in Seq(Frame) /\ DOMAIN s = {} /\ 1 .. Len(s) - 1 = {}
  BY <1>1
<1>3. DecIs(dec', "value", s, input, Nothing, source)
  BY <1>1
<1> QED
  BY ONLY <1>1, <1>2, <1>3, DecThen

LEMMA DecodeKeeps ==
  ASSUME JsonInv, ValuesOK, dec = Idle, NEW text, Decode(text)
  PROVE  JsonInv'
<1>1. DecIs(dec', "value", <<>>, text, Nothing, Nothing)
  BY DEF Decode, Idle, DecIs
<1>2. StackInv' /\ KeysInv'
  BY <1>1, Begun
<1>3. dec'.stack = dec.stack /\ dec'.val = dec.val
  BY <1>1, DecFields DEF Idle
<1> QED
  BY <1>2, <1>3, DecChanges DEF Decode, Held

LEMMA EncodeFreeDecodeKeeps ==
  ASSUME JsonInv, ValuesOK, todo = <<>>, dec = Idle, NEW v \in Given, EncodeFreeDecode(v)
  PROVE  JsonInv'
<1>1. DecIs(dec', "value", <<>>, Encode(v), Nothing, Form(v))
  BY DEF EncodeFreeDecode, Idle, DecIs
<1>2. StackInv' /\ KeysInv'
  BY <1>1, Begun
<1>3. dec'.stack = dec.stack /\ dec'.val = dec.val
  BY <1>1, DecFields DEF Idle
<1>4. Disown(v) /\ todo' = Releases(<<v>>) /\ values' = values /\ results' = results /\ strings' = strings
  BY DEF EncodeFreeDecode, FreeValue
<1> QED
  BY <1>2, <1>3, <1>4, GivenUp

LEMMA FrameHits1 ==
  ASSUME NEW f \in Frame, NEW v
  PROVE  One(f \in FramesOf(v)) = Same(f.val, v) /\ One(f \in WithKey) = HeldKey(f)
BY DEF One, FramesOf, Same, WithKey, HeldKey

\* The innermost frame goes, or one comes.
LEMMA Popped ==
  ASSUME NEW s \in Seq(Frame), s # <<>>, NEW t, t = Front(s), NEW f, f = Last(s), NEW v
  PROVE  /\ t \in Seq(Frame) /\ Len(t) = Len(s) - 1 /\ f \in Frame
         /\ Len(s) \in Nat /\ DOMAIN t = 1 .. Len(s) - 1 /\ DOMAIN s = 1 .. Len(s)
         /\ \A i \in DOMAIN t : t[i] = s[i] /\ i \in DOMAIN s
         /\ Hits(s, FramesOf(v)) = Hits(t, FramesOf(v)) + Same(f.val, v)
         /\ Hits(s, WithKey) = Hits(t, WithKey) + HeldKey(f)
         /\ Hits(t, FramesOf(v)) \in Nat /\ Hits(t, WithKey) \in Nat
<1>1. /\ t \in Seq(Frame) /\ f \in Frame /\ Len(t) = Len(s) - 1
      /\ \A i \in 1 .. Len(s) - 1 : t[i] = s[i]
  BY FrontType
<1>2. Len(s) \in Nat /\ DOMAIN s = 1 .. Len(s) /\ DOMAIN t = 1 .. Len(t)
  BY <1>1
<1>3. \A i \in DOMAIN t : t[i] = s[i] /\ i \in DOMAIN s
  BY <1>1, <1>2
<1>4. /\ Hits(s, FramesOf(v)) = Hits(t, FramesOf(v)) + One(f \in FramesOf(v))
      /\ Hits(s, WithKey) = Hits(t, WithKey) + One(f \in WithKey)
  BY HitsFront
<1>5. One(f \in FramesOf(v)) = Same(f.val, v) /\ One(f \in WithKey) = HeldKey(f)
  BY <1>1, FrameHits1
<1>6. Hits(t, FramesOf(v)) \in Nat /\ Hits(t, WithKey) \in Nat
  BY <1>1, HitsType
<1> QED
  BY ONLY <1>1, <1>2, <1>3, <1>4, <1>5, <1>6

Push(s, f) == Append(s, f)

LEMMA Pushed ==
  ASSUME NEW s \in Seq(Frame), NEW f \in Frame
  PROVE  /\ Push(s, f) \in Seq(Frame) /\ Len(Push(s, f)) = Len(s) + 1
         /\ DOMAIN Push(s, f) = 1 .. Len(s) + 1
         /\ \A i \in DOMAIN s : Push(s, f)[i] = s[i]
         /\ Push(s, f)[Len(s) + 1] = f
BY AppendProperties DEF Push

LEMMA PushedHits ==
  ASSUME NEW s \in Seq(Frame), NEW f \in Frame, NEW v
  PROVE  /\ Hits(Push(s, f), FramesOf(v)) = Hits(s, FramesOf(v)) + Same(f.val, v)
         /\ Hits(Push(s, f), WithKey) = Hits(s, WithKey) + HeldKey(f)
<1>1. /\ Hits(Append(s, f), FramesOf(v)) = Hits(s, FramesOf(v)) + One(f \in FramesOf(v))
      /\ Hits(Append(s, f), WithKey) = Hits(s, WithKey) + One(f \in WithKey)
  BY HitsAppend
<1>2. One(f \in FramesOf(v)) = Same(f.val, v) /\ One(f \in WithKey) = HeldKey(f)
  BY FrameHits1
<1> QED
  BY ONLY <1>1, <1>2 DEF Push

\* The innermost frame takes a key, or gives it away.
Keyed(s, k) == [s EXCEPT ![Len(s)].key = k]

LEMMA KeyedFrame ==
  ASSUME NEW s \in Seq(Frame), s # <<>>, NEW k \in Name \cup {Nothing}, NEW t, t = Keyed(s, k),
         NEW f, f = s[Len(s)], NEW v
  PROVE  /\ t \in Seq(Frame) /\ Len(t) = Len(s) /\ DOMAIN t = DOMAIN s
         /\ t[Len(s)].val = f.val /\ t[Len(s)].key = k
         /\ \A i \in 1 .. Len(s) - 1 : t[i] = s[i]
         /\ Hits(t, FramesOf(v)) = Hits(s, FramesOf(v))
         /\ Hits(t, WithKey) + HeldKey(f) = Hits(s, WithKey) + (IF k = Nothing THEN 0 ELSE 1)
<1> DEFINE n == Len(s)
           e == [f EXCEPT !.key = k]
<1>1. n \in Nat /\ n # 0 /\ DOMAIN s = 1 .. n /\ n \in DOMAIN s /\ f \in Frame
  OBVIOUS
<1>2. e \in Frame /\ e.val = f.val /\ e.key = k
  BY <1>1 DEF Frame
<1>3. t = [s EXCEPT ![n] = e]
  BY DEF Keyed
<1> HIDE DEF e, n
<1>4. t \in Seq(Frame) /\ DOMAIN t = DOMAIN s /\ t[n] = e /\ \A i \in 1 .. n - 1 : t[i] = s[i]
  BY <1>1, <1>2, <1>3
<1>5. Len(t) = n
  BY <1>1, <1>4
<1>6. t # <<>>
  BY <1>1, <1>5
<1>7. Front(t) = Front(s)
  <2>1. Front(t) = SubSeq(t, 1, n - 1) /\ Front(s) = SubSeq(s, 1, n - 1)
    BY <1>5 DEF Front, n
  <2>2. Front(t) \in Seq(Frame) /\ Len(Front(t)) = n - 1 /\ \A i \in 1 .. n - 1 : Front(t)[i] = t[i]
    BY ONLY <1>4, <1>5, <1>6, FrontType
  <2>3. Front(s) \in Seq(Frame) /\ Len(Front(s)) = n - 1 /\ \A i \in 1 .. n - 1 : Front(s)[i] = s[i]
    BY FrontType DEF n
  <2>4. \A i \in 1 .. n - 1 : Front(t)[i] = Front(s)[i]
    BY ONLY <1>4, <2>2, <2>3
  <2> QED
    BY ONLY <2>2, <2>3, <2>4, SeqEqual
<1>8. Last(t) = e /\ Last(s) = f
  BY <1>4, <1>5 DEF Last, n
<1>9. \A T : Hits(t, T) = Hits(Front(s), T) + One(e \in T) /\ Hits(s, T) = Hits(Front(s), T) + One(f \in T)
  BY <1>4, <1>6, <1>7, <1>8, HitsFront
<1>10. \A T : Hits(Front(s), T) \in Nat
  BY FrontType, HitsType
<1>11. /\ One(e \in FramesOf(v)) = Same(f.val, v) /\ One(e \in WithKey) = (IF k = Nothing THEN 0 ELSE 1)
       /\ One(f \in FramesOf(v)) = Same(f.val, v) /\ One(f \in WithKey) = HeldKey(f)
  BY <1>1, <1>2, FrameHits1 DEF HeldKey
<1>12. HeldKey(f) \in Nat
  BY DEF HeldKey
<1>13. Hits(t, FramesOf(v)) = Hits(s, FramesOf(v))
  BY <1>9, <1>11
<1>14. Hits(t, WithKey) + HeldKey(f) = Hits(s, WithKey) + (IF k = Nothing THEN 0 ELSE 1)
  BY <1>9, <1>10, <1>11, <1>12
<1> QED
  BY <1>2, <1>4, <1>5, <1>13, <1>14 DEF n

LEMMA KeysNow ==
  ASSUME JsonInv
  PROVE  /\ dec.phase # "failing" => \A i \in 1 .. Len(dec.stack) - 1 : WaitsIn(values, dec.stack[i])
         /\ dec.phase \in {"value", "deliver"} /\ dec.stack # <<>> => WaitsIn(values, Top)
         /\ dec.phase \in {"key", "after"} => dec.stack # <<>> /\ Top.key = Nothing
         /\ dec.phase = "key" => values[Top.val].type = "object"
         /\ dec.phase = "deliver" <=> dec.val # Nothing
BY DEF JsonInv, KeysInv, Waits, WaitsIn

\* An array or object is complete, and is the value of the one around it.
LEMMA ClosingKeeps ==
  ASSUME JsonInv, ValuesOK, dec.phase = "after", UNCHANGED valueVars,
         dec' = [dec EXCEPT !.phase = "deliver", !.val = Top.val,
                   !.stack = Front(@), !.input = Skip(1)]
  PROVE  JsonInv'
<1>1. PICK s : s = dec.stack
  OBVIOUS
<1>2. PICK f : f = Top
  OBVIOUS
<1>3. PICK t : t = Front(s)
  OBVIOUS
<1>4. /\ s \in Seq(Frame) /\ s # <<>> /\ f = Last(s) /\ f = s[Len(s)] /\ f.key = Nothing
      /\ dec.val = Nothing /\ \A i \in DOMAIN s : FrameOK(values, s[i])
      /\ \A i \in 1 .. Len(s) - 1 : WaitsIn(values, s[i])
  BY <1>1, <1>2, DecNow, KeysNow DEF Top
<1>5. \A v : /\ t \in Seq(Frame) /\ Len(t) = Len(s) - 1 /\ f \in Frame
             /\ Len(s) \in Nat /\ DOMAIN t = 1 .. Len(s) - 1
             /\ \A i \in DOMAIN t : t[i] = s[i] /\ i \in DOMAIN s
             /\ Hits(s, FramesOf(v)) = Hits(t, FramesOf(v)) + Same(f.val, v)
             /\ Hits(s, WithKey) = Hits(t, WithKey) + HeldKey(f)
             /\ Hits(t, FramesOf(v)) \in Nat /\ Hits(t, WithKey) \in Nat
  <2>1. s \in Seq(Frame) /\ s # <<>> /\ f = Last(s)
    BY <1>4
  <2> QED
    BY ONLY <1>3, <2>1, Popped
<1>6. DecIs(dec', "deliver", t, Skip(1), f.val, dec.source)
  BY <1>1, <1>2, <1>3, DecNow DEF DecIs
<1>7. values' = values
  BY DEF valueVars
<1>8. f.val \in AnyValue /\ f.val # Nothing /\ f.val \in Addr
  <2>1. f \in Frame
    BY <1>5
  <2> QED
    BY <2>1, NullIsNoSequence DEF Frame, AnyValue
<1>9. StackInv' /\ KeysInv'
  <2>1. \A i \in DOMAIN t : FrameOK(values', t[i])
    BY <1>4, <1>5, <1>7
  <2>2. \A i \in 1 .. Len(t) - 1 : WaitsIn(values', t[i])
    BY <1>4, <1>5, <1>7
  <2>3. t # <<>> => WaitsIn(values', t[Len(t)])
    <3> SUFFICES ASSUME t # <<>>
                 PROVE  WaitsIn(values', t[Len(t)])
      OBVIOUS
    <3>1. Len(t) # 0 /\ Len(t) \in Nat
      BY <1>5
    <3>2. Len(t) \in 1 .. Len(s) - 1 /\ Len(t) \in DOMAIN t
      BY <1>5, <3>1
    <3> QED
      BY <1>4, <1>5, <1>7, <3>2
  <2>4. t \in Seq(Frame) /\ f.val \in AnyValue \cup {Nothing}
    BY <1>5, <1>8
  <2> QED
    BY ONLY <1>6, <1>8, <2>1, <2>2, <2>3, <2>4, DecThen
<1>10. dec'.stack = t /\ dec'.val = f.val
  BY ONLY <1>6, DecFields
<1>11. ASSUME NEW v \in Addr
       PROVE  Held(dec', v) = Held(dec, v)
  <2>1. Same(Nothing, v) = 0 /\ Same(f.val, v) \in Nat
    BY DEF Same, ValuesOK
  <2> QED
    BY <1>1, <1>4, <1>5, <1>10, <2>1 DEF Held
<1>12. Hits(dec'.stack, WithKey) = Hits(dec.stack, WithKey)
  BY <1>1, <1>4, <1>5, <1>10 DEF HeldKey
<1> QED
  BY <1>9, <1>11, <1>12, DecChanges

LEMMA CommaKeeps ==
  ASSUME JsonInv, ValuesOK, dec.phase = "after", UNCHANGED valueVars,
         dec' = [dec EXCEPT !.phase = IF InObject THEN "key" ELSE "value", !.input = Skip(1)]
  PROVE  JsonInv'
<1>1. PICK s : s = dec.stack
  OBVIOUS
<1>2. PICK phase : phase = IF InObject THEN "key" ELSE "value"
  OBVIOUS
<1>3. /\ s \in Seq(Frame) /\ s # <<>> /\ Top = s[Len(s)] /\ Top.key = Nothing
      /\ dec.val = Nothing /\ \A i \in DOMAIN s : FrameOK(values, s[i])
      /\ \A i \in 1 .. Len(s) - 1 : WaitsIn(values, s[i])
  BY <1>1, DecNow, KeysNow DEF Top
<1>4. DecIs(dec', phase, s, Skip(1), Nothing, dec.source)
  BY <1>1, <1>2, <1>3, DecNow DEF DecIs
<1>5. values' = values
  BY DEF valueVars
<1>6. (phase = "key" /\ values[Top.val].type = "object") \/ (phase = "value" /\ values[Top.val].type # "object")
  BY <1>1, <1>2, <1>3 DEF InObject
<1>7. phase = "value" => WaitsIn(values, Top)
  BY <1>6 DEF WaitsIn
<1>8. phase # "failing" /\ phase # "after" /\ phase # "deliver"
  BY <1>6
<1>9. phase = "key" => values'[s[Len(s)].val].type = "object"
  BY <1>3, <1>5, <1>6
<1>10. StackInv' /\ KeysInv'
  <2>1. phase \in {"value", "deliver"} /\ s # <<>> => WaitsIn(values', s[Len(s)])
    BY <1>3, <1>5, <1>7, <1>8
  <2>2. phase \in {"key", "after"} => s # <<>> /\ s[Len(s)].key = Nothing
    BY <1>3
  <2>3. phase = "deliver" <=> Nothing # Nothing
    BY <1>8
  <2> QED
    BY ONLY <1>3, <1>4, <1>5, <1>9, <2>1, <2>2, <2>3, DecThen
<1>11. dec'.stack = dec.stack /\ dec'.val = dec.val
  BY <1>1, <1>3, <1>4, DecFields
<1> QED
  BY <1>10, <1>11, DecChanges DEF Held

LEMMA ParseAfterKeeps ==
  ASSUME JsonInv, ValuesOK, ParseAfter
  PROVE  JsonInv'
<1>1. dec.phase = "after" /\ UNCHANGED valueVars
  BY DEF ParseAfter
<1>2. CASE dec' = [dec EXCEPT !.phase = "deliver", !.val = Top.val, !.stack = Front(@), !.input = Skip(1)]
  BY <1>1, <1>2, ClosingKeeps
<1>3. CASE dec' = [dec EXCEPT !.phase = IF InObject THEN "key" ELSE "value", !.input = Skip(1)]
  BY <1>1, <1>3, CommaKeeps
<1>4. CASE Fail
  BY <1>1, <1>4, FailKeeps
<1> QED
  BY <1>2, <1>3, <1>4 DEF ParseAfter

\* An unfinished array or object is released, and the key it was waiting with.
LEMMA UnwindKeeps ==
  ASSUME JsonInv, ValuesOK, todo = <<>>, Unwind
  PROVE  JsonInv'
<1>1. dec.phase = "failing" /\ values' = values /\ own' = own /\ results' = results /\ dec.val = Nothing
  BY DEF Unwind, JsonInv, KeysInv
<1>2. ASSUME dec.stack = <<>>, dec' = Idle, UNCHANGED <<todo, strings>>
      PROVE  JsonInv'
  <2>1. UNCHANGED valueVars
    BY <1>1, <1>2 DEF valueVars
  <2>2. DecIs(dec', "idle", <<>>, <<>>, Nothing, Nothing)
    BY <1>2 DEF Idle, DecIs
  <2>3. StackInv' /\ KeysInv'
    <3>1. PICK s : s = <<>>
      OBVIOUS
    <3>2. s \in Seq(Frame) /\ DOMAIN s = {} /\ 1 .. Len(s) - 1 = {}
      BY <3>1
    <3>3. DecIs(dec', "idle", s, <<>>, Nothing, Nothing)
      BY <2>2, <3>1
    <3> QED
      BY ONLY <3>1, <3>2, <3>3, DecThen
  <2>4. dec'.stack = dec.stack /\ dec'.val = dec.val
    BY <1>1, <1>2, <2>2, DecFields
  <2> QED
    BY <2>1, <2>3, <2>4, DecChanges DEF Held
<1>3. ASSUME dec.stack # <<>>, todo' = Releases(<<Top.val>>), strings' = strings - HeldKey(Top),
             dec' = [dec EXCEPT !.stack = Front(@)]
      PROVE  JsonInv'
  <2>1. PICK s : s = dec.stack
    OBVIOUS
  <2>2. PICK f : f = Top
    OBVIOUS
  <2>3. PICK t : t = Front(s)
    OBVIOUS
  <2>4. s \in Seq(Frame) /\ s # <<>> /\ f = Last(s) /\ \A i \in DOMAIN s : FrameOK(values, s[i])
    BY <1>3, <2>1, <2>2, DecNow DEF Top
  <2>5. \A v : /\ t \in Seq(Frame) /\ Len(t) = Len(s) - 1 /\ f \in Frame
               /\ Len(s) \in Nat /\ DOMAIN t = 1 .. Len(s) - 1
               /\ \A i \in DOMAIN t : t[i] = s[i] /\ i \in DOMAIN s
               /\ Hits(s, FramesOf(v)) = Hits(t, FramesOf(v)) + Same(f.val, v)
               /\ Hits(s, WithKey) = Hits(t, WithKey) + HeldKey(f)
               /\ Hits(t, FramesOf(v)) \in Nat /\ Hits(t, WithKey) \in Nat
    BY ONLY <2>3, <2>4, Popped
  <2>6. DecIs(dec', "failing", t, dec.input, Nothing, dec.source)
    BY <1>1, <1>3, <2>1, <2>3, DecNow DEF DecIs
  <2>7. f.val \in AnyValue /\ f.val \in Addr
    <3>1. f \in Frame
      BY <2>5
    <3> QED
      BY <3>1 DEF Frame, AnyValue
  <2>8. StackInv' /\ KeysInv'
    <3>1. \A i \in DOMAIN t : FrameOK(values', t[i])
      BY <1>1, <2>4, <2>5
    <3>2. t \in Seq(Frame)
      BY <2>5
    <3> QED
      BY ONLY <2>6, <3>1, <3>2, DecThen
  <2>9. dec'.stack = t /\ dec'.val = Nothing
    BY <2>6, DecFields
  <2>10. todo' = ReleaseOf(f.val)
    BY <1>3, <2>2 DEF ReleaseOf
  <2>11. /\ todo' \in Seq(Frees)
         /\ \A v : /\ Hits(todo', {Item("release", v)}) = Same(f.val, v)
                   /\ Hits(todo', {Item("free", v)}) = 0
    BY ONLY <2>7, <2>10, ReleaseOne
  <2>12. ValuesTyped' /\ TodoInv'
    BY <1>1, <2>11 DEF JsonInv, ValuesTyped, TodoInv
  <2>13. ASSUME NEW v \in Addr
         PROVE  CountedIn(values', own', results', todo', dec', v)
    <3>1. /\ CountedIn(values, own, results, todo, dec, v)
          /\ own[v] \in Nat /\ Elements(values, v) \in Nat /\ FoundIn(results, v) \in Nat
      BY Counting
    <3>2. Hits(todo, {Item("release", v)}) = 0 /\ Hits(todo, {Item("free", v)}) = 0
      BY NoFrees
    <3>3. /\ Hits(dec.stack, FramesOf(v)) = Hits(dec'.stack, FramesOf(v)) + Same(f.val, v)
          /\ Hits(dec'.stack, FramesOf(v)) \in Nat /\ Same(f.val, v) \in Nat
          /\ dec'.val = dec.val /\ Same(dec.val, v) \in Nat
      BY <1>1, <2>1, <2>5, <2>9, SameType
    <3>4. Hits(todo', {Item("release", v)}) = Same(f.val, v) /\ Hits(todo', {Item("free", v)}) = 0
      BY <2>11
    <3>5. Refs(values', own', results', todo', dec', v) = Refs(values, own, results, todo, dec, v)
      BY ONLY <1>1, <3>1, <3>2, <3>3, <3>4 DEF Refs
    <3> QED
      BY ONLY <1>1, <3>1, <3>2, <3>4, <3>5 DEF CountedIn
  <2>14. strings' = StringsIn(values') + Hits(dec'.stack, WithKey)
    <3>1. strings = StringsIn(values) + Hits(dec.stack, WithKey)
      BY StringsNow
    <3>2. StringsIn(values) \in Nat
      BY CountsType DEF JsonInv, ValuesTyped
    <3>3. Hits(dec.stack, WithKey) = Hits(dec'.stack, WithKey) + HeldKey(f)
          /\ Hits(dec'.stack, WithKey) \in Nat
      BY <2>1, <2>5, <2>9
    <3>4. HeldKey(f) \in Nat
      BY DEF HeldKey
    <3>5. strings' = strings - HeldKey(f) /\ values' = values
      BY <1>1, <1>3, <2>2
    <3> QED
      BY ONLY <3>1, <3>2, <3>3, <3>4, <3>5
  <2> QED
    BY <2>8, <2>12, <2>13, <2>14, Assembled
<1> QED
  BY <1>2, <1>3 DEF Unwind

LEMMA ParseKeyKeeps ==
  ASSUME JsonInv, ValuesOK, todo = <<>>, ParseKey
  PROVE  JsonInv'
<1>1. dec.phase = "key" /\ values' = values /\ own' = own /\ results' = results /\ todo' = todo
  BY DEF ParseKey
<1>2. ASSUME Fail, UNCHANGED strings
      PROVE  JsonInv'
  BY <1>1, <1>2, FailKeeps DEF valueVars
<1>3. ASSUME Next1 \in Name, strings' = strings + 1,
             dec' = [dec EXCEPT !.phase = "value", !.input = Skip(2),
                       !.stack[Len(dec.stack)].key = Next1]
      PROVE  JsonInv'
  <2>1. PICK s : s = dec.stack
    OBVIOUS
  <2>2. PICK f : f = Top
    OBVIOUS
  <2>3. PICK k : k = Next1
    OBVIOUS
  <2>4. PICK t : t = Keyed(s, k)
    OBVIOUS
  <2>5. /\ s \in Seq(Frame) /\ s # <<>> /\ f = s[Len(s)] /\ f.key = Nothing
        /\ dec.val = Nothing /\ \A i \in DOMAIN s : FrameOK(values, s[i])
        /\ \A i \in 1 .. Len(s) - 1 : WaitsIn(values, s[i])
        /\ values[f.val].type = "object" /\ Len(s) \in Nat /\ DOMAIN s = 1 .. Len(s)
    BY <1>1, <2>1, <2>2, DecNow, KeysNow DEF Top
  <2>6. k \in Name /\ k \in Name \cup {Nothing} /\ k # Nothing
    BY <1>3, <2>3 DEF ValuesOK
  <2>7. \A v : /\ t \in Seq(Frame) /\ Len(t) = Len(s) /\ DOMAIN t = DOMAIN s
               /\ t[Len(s)].val = f.val /\ t[Len(s)].key = k
               /\ \A i \in 1 .. Len(s) - 1 : t[i] = s[i]
               /\ Hits(t, FramesOf(v)) = Hits(s, FramesOf(v))
               /\ Hits(t, WithKey) + HeldKey(f) = Hits(s, WithKey) + (IF k = Nothing THEN 0 ELSE 1)
    <3>1. s \in Seq(Frame) /\ s # <<>> /\ f = s[Len(s)] /\ k \in Name \cup {Nothing}
      BY <2>5, <2>6
    <3> QED
      BY ONLY <2>4, <3>1, KeyedFrame
  <2>8. DecIs(dec', "value", t, Skip(2), Nothing, dec.source)
    <3>1. DecIs(dec, dec.phase, s, dec.input, Nothing, dec.source)
      BY <2>1, <2>5, DecNow
    <3>2. dec' = [dec EXCEPT !.phase = "value", !.input = Skip(2), !.stack = t]
      BY <1>3, <2>1, <2>3, <2>4 DEF Keyed
    <3>3. DecIs([dec EXCEPT !.phase = "value", !.input = Skip(2), !.stack = t],
                "value", t, Skip(2), Nothing, dec.source)
      BY <3>1, DecSet
    <3> QED
      BY ONLY <3>2, <3>3
  <2>9. StackInv' /\ KeysInv'
    <3>1. \A i \in DOMAIN t : FrameOK(values', t[i])
      <4> TAKE i \in DOMAIN t
      <4>1. CASE i = Len(s)
        BY <1>1, <2>5, <2>7, <4>1 DEF FrameOK
      <4>2. CASE i \in 1 .. Len(s) - 1
        BY <1>1, <2>5, <2>7, <4>2
      <4> QED
        BY <2>5, <2>7, <4>1, <4>2
    <3>2. \A i \in 1 .. Len(t) - 1 : WaitsIn(values', t[i])
      BY <1>1, <2>5, <2>7
    <3>3. WaitsIn(values', t[Len(t)])
      BY <2>6, <2>7 DEF WaitsIn
    <3>4. t \in Seq(Frame)
      BY <2>7
    <3> QED
      BY ONLY <2>8, <3>1, <3>2, <3>3, <3>4, DecThen
  <2>10. dec'.stack = t /\ dec'.val = Nothing
    BY ONLY <2>8, DecFields
  <2>11. ValuesTyped' /\ TodoInv'
    BY <1>1 DEF JsonInv, ValuesTyped, TodoInv
  <2>12. ASSUME NEW v \in Addr
         PROVE  CountedIn(values', own', results', todo', dec', v)
    <3>1. CountedIn(values, own, results, todo, dec, v)
      BY Counting
    <3>2. Hits(dec'.stack, FramesOf(v)) = Hits(dec.stack, FramesOf(v)) /\ dec'.val = dec.val
      BY <2>1, <2>5, <2>7, <2>10
    <3>3. Refs(values', own', results', todo', dec', v) = Refs(values, own, results, todo, dec, v)
      BY ONLY <1>1, <3>2 DEF Refs
    <3> QED
      BY ONLY <1>1, <3>1, <3>3 DEF CountedIn
  <2>13. strings' = StringsIn(values') + Hits(dec'.stack, WithKey)
    <3>1. strings = StringsIn(values) + Hits(dec.stack, WithKey) /\ Hits(dec.stack, WithKey) \in Nat
      BY StringsNow
    <3>2. StringsIn(values) \in Nat
      BY CountsType DEF JsonInv, ValuesTyped
    <3>3. HeldKey(f) = 0 /\ (IF k = Nothing THEN 0 ELSE 1) = 1
      BY <2>5, <2>6 DEF HeldKey
    <3>4. Hits(dec'.stack, WithKey) + HeldKey(f) = Hits(dec.stack, WithKey) + (IF k = Nothing THEN 0 ELSE 1)
      BY <2>1, <2>7, <2>10
    <3>5. Hits(dec'.stack, WithKey) \in Nat
      BY <2>7, <2>10, HitsType
    <3>6. strings' = strings + 1 /\ values' = values
      BY <1>1, <1>3
    <3> QED
      BY ONLY <3>1, <3>2, <3>3, <3>4, <3>5, <3>6
  <2> QED
    BY <2>9, <2>11, <2>12, <2>13, Assembled
<1> QED
  BY <1>2, <1>3 DEF ParseKey

\* The parser allocates a value, and holds it.
LEMMA AllocCounts ==
  ASSUME JsonInv, ValuesOK, todo = <<>>, NEW a, NEW type \in Types, Grown(values, values', a, type),
         own' = own, results' = results, todo' = todo,
         strings' = strings + Same(type, "string"), StackInv', KeysInv',
         \A v \in Addr : Held(dec', v) = Held(dec, v) + Same(a, v),
         Hits(dec'.stack, WithKey) = Hits(dec.stack, WithKey)
  PROVE  JsonInv'
<1>1. /\ IsHeap(values') /\ a \notin DOMAIN values /\ a \in Addr
      /\ DOMAIN values' = DOMAIN values \cup {a} /\ values'[a].nrefs = 1
      /\ \A w \in DOMAIN values : values'[w] = values[w]
      /\ \A v : Elements(values', v) = Elements(values, v)
      /\ StringsIn(values') = StringsIn(values) + Same(type, "string")
  BY DEF Grown, Made
<1>2. own \in [Addr -> Nat] /\ results \in Seq(AnyValue) \cup {Nothing} /\ IsHeap(values)
  BY DEF JsonInv, ValuesTyped
<1>3. ValuesTyped'
  BY <1>1, <1>2 DEF ValuesTyped
<1>4. TodoInv'
  <2>1. <<>> \in Seq(Frees)
    OBVIOUS
  <2> QED
    BY <2>1 DEF TodoInv
<1>5. ASSUME NEW v \in Addr
      PROVE  CountedIn(values', own', results', todo', dec', v)
  <2>1. /\ CountedIn(values, own, results, todo, dec, v)
        /\ own[v] \in Nat /\ Elements(values, v) \in Nat /\ FoundIn(results, v) \in Nat
        /\ Hits(todo, {Item("release", v)}) \in Nat /\ Hits(todo, {Item("free", v)}) \in Nat
        /\ Hits(dec.stack, FramesOf(v)) \in Nat /\ Same(dec.val, v) \in Nat
    BY Counting
  <2>2. Hits(dec'.stack, FramesOf(v)) + Same(dec'.val, v)
        = Hits(dec.stack, FramesOf(v)) + Same(dec.val, v) + Same(a, v)
    BY DEF Held
  <2>3. Hits(dec'.stack, FramesOf(v)) \in Nat /\ Same(dec'.val, v) \in Nat /\ Same(a, v) \in Nat
    BY HitsType, SameType DEF StackInv
  <2>4. own' = own /\ results' = results /\ todo' = todo /\ Elements(values', v) = Elements(values, v)
    BY <1>1
  <2>5. Refs(values', own', results', todo', dec', v) = Refs(values, own, results, todo, dec, v) + Same(a, v)
        /\ Refs(values, own, results, todo, dec, v) \in Nat
    BY ONLY <2>1, <2>2, <2>3, <2>4 DEF Refs
  <2>6. CASE v = a
    <3>1. v \notin DOMAIN values /\ v \in DOMAIN values' /\ values'[v].nrefs = 1
          /\ Same(a, v) = 1 /\ Same(1, 0) = 0
      BY <1>1, <2>6 DEF Same
    <3> QED
      BY ONLY <2>1, <2>4, <2>5, <3>1 DEF CountedIn
  <2>7. CASE v # a
    <3>1. Same(a, v) = 0
      BY <2>7 DEF Same
    <3>2. (v \in DOMAIN values' <=> v \in DOMAIN values) /\ (v \in DOMAIN values => values'[v] = values[v])
      BY <1>1, <2>7
    <3> QED
      BY ONLY <2>1, <2>4, <2>5, <3>1, <3>2 DEF CountedIn
  <2> QED
    BY <2>6, <2>7
<1>6. strings' = StringsIn(values') + Hits(dec'.stack, WithKey)
  <2>1. StringsIn(values) \in Nat /\ Same(type, "string") \in Nat
    BY <1>2, CountsType, SameType
  <2>2. strings = StringsIn(values) + Hits(dec.stack, WithKey) /\ Hits(dec.stack, WithKey) \in Nat
    BY StringsNow
  <2>3. StringsIn(values') = StringsIn(values) + Same(type, "string")
    BY <1>1
  <2>4. strings' = strings + Same(type, "string") /\ Hits(dec'.stack, WithKey) = Hits(dec.stack, WithKey)
    OBVIOUS
  <2> QED
    BY ONLY <2>1, <2>2, <2>3, <2>4
<1> QED
  BY <1>3, <1>4, <1>5, <1>6, Assembled

\* The frames of the parser are in the heap with the new value too.
LEMMA FramesGrown ==
  ASSUME JsonInv, ValuesOK, NEW a, NEW type, Grown(values, values', a, type), NEW i \in DOMAIN dec.stack
  PROVE  /\ FrameOK(values', dec.stack[i])
         /\ WaitsIn(values, dec.stack[i]) => WaitsIn(values', dec.stack[i])
<1>1. PICK f : f = dec.stack[i]
  OBVIOUS
<1>2. f.val \in DOMAIN values /\ FrameOK(values, f)
  BY <1>1, FramesThere, DecNow DEF Value
<1>3. values'[f.val] = values[f.val]
  BY <1>2 DEF Grown
<1>4. FrameOK(values', f) /\ (WaitsIn(values, f) => WaitsIn(values', f))
  BY <1>2, <1>3 DEF FrameOK, WaitsIn
<1> QED
  BY <1>1, <1>4

LEMMA AllocDelivered ==
  ASSUME JsonInv, ValuesOK, todo = <<>>, dec.phase = "value", NEW type \in Types,
         HasRoom, values' = With(Fresh, Made(type)), NEW n, Deliver(Fresh, n),
         own' = own, results' = results, todo' = todo, strings' = strings + Same(type, "string")
  PROVE  JsonInv'
<1>1. PICK a : a = Fresh
  OBVIOUS
<1>2. Grown(values, values', a, type)
  BY <1>1, WithGrows DEF JsonInv, ValuesTyped
<1>3. a \in Addr /\ a \in AnyValue /\ a # Nothing
  BY <1>2, NullIsNoSequence DEF Grown, AnyValue
<1>4. DecIs(dec', "deliver", dec.stack, Skip(n), a, dec.source)
  BY <1>1, DecNow DEF Deliver, DecIs
<1>5. PICK s : s = dec.stack
  OBVIOUS
<1>6. /\ s \in Seq(Frame) /\ dec.val = Nothing
      /\ s # <<>> => WaitsIn(values, s[Len(s)]) /\ Len(s) \in DOMAIN s
      /\ \A i \in 1 .. Len(s) - 1 : WaitsIn(values, s[i]) /\ i \in DOMAIN s
  BY <1>5, DecNow, KeysNow
<1>7. \A i \in DOMAIN s : FrameOK(values', s[i]) /\ (WaitsIn(values, s[i]) => WaitsIn(values', s[i]))
  BY <1>2, <1>5, FramesGrown
<1>8. StackInv' /\ KeysInv'
  <2>1. \A i \in 1 .. Len(s) - 1 : WaitsIn(values', s[i])
    BY <1>6, <1>7
  <2>2. s # <<>> => WaitsIn(values', s[Len(s)])
    BY <1>6, <1>7
  <2>3. DecIs(dec', "deliver", s, Skip(n), a, dec.source)
    BY <1>4, <1>5
  <2>4. s \in Seq(Frame) /\ a \in AnyValue \cup {Nothing} /\ \A i \in DOMAIN s : FrameOK(values', s[i])
    BY <1>3, <1>6, <1>7
  <2> QED
    BY ONLY <1>3, <2>1, <2>2, <2>3, <2>4, DecThen
<1>9. dec'.stack = dec.stack /\ dec'.val = a
  BY ONLY <1>4, DecFields
<1>10. ASSUME NEW v \in Addr
       PROVE  Held(dec', v) = Held(dec, v) + Same(a, v)
  <2>1. Same(dec.val, v) = 0
    BY <1>6 DEF Same, ValuesOK
  <2>2. Hits(dec.stack, FramesOf(v)) \in Nat /\ Same(a, v) \in Nat
    BY <1>5, <1>6, HitsType, SameType
  <2> QED
    BY ONLY <1>9, <2>1, <2>2 DEF Held
<1> QED
  BY <1>2, <1>8, <1>9, <1>10, AllocCounts

\* What the parser opens: an object, whose key is next, or an array.
Opens(phase) == IF phase = "key" THEN "object" ELSE "array"

LEMMA AllocOpened ==
  ASSUME JsonInv, ValuesOK, todo = <<>>, dec.phase = "value", NEW type \in Types, NEW phase,
         phase \in {"key", "value"}, type = Opens(phase),
         HasRoom, values' = With(Fresh, Made(type)), Opened(phase),
         own' = own, results' = results, todo' = todo, strings' = strings
  PROVE  JsonInv'
<1>0. \/ phase = "key" /\ type = "object"
      \/ phase = "value" /\ type = "array"
  BY DEF Opens
<1>1. PICK a : a = Fresh
  OBVIOUS
<1>2. Grown(values, values', a, type)
  BY <1>1, WithGrows DEF JsonInv, ValuesTyped
<1>3. a \in Addr /\ values'[a].type = type
  BY <1>2 DEF Grown, Made
<1>4. PICK f : f = [val |-> a, key |-> Nothing]
  OBVIOUS
<1>5. f \in Frame /\ f.val = a /\ f.key = Nothing
  BY <1>3, <1>4 DEF Frame
<1>6. PICK s : s = dec.stack
  OBVIOUS
<1>7. /\ s \in Seq(Frame) /\ dec.val = Nothing
      /\ s # <<>> => WaitsIn(values, s[Len(s)]) /\ Len(s) \in DOMAIN s
      /\ \A i \in 1 .. Len(s) - 1 : WaitsIn(values, s[i]) /\ i \in DOMAIN s
      /\ Len(s) \in Nat /\ DOMAIN s = 1 .. Len(s)
  BY <1>6, DecNow, KeysNow
<1>8. PICK t : t = Push(s, f)
  OBVIOUS
<1>9. /\ t \in Seq(Frame) /\ Len(t) = Len(s) + 1 /\ DOMAIN t = 1 .. Len(s) + 1
      /\ \A i \in DOMAIN s : t[i] = s[i]
      /\ t[Len(t)] = f
  <2>1. s \in Seq(Frame) /\ f \in Frame
    BY <1>5, <1>7
  <2>2. /\ Push(s, f) \in Seq(Frame) /\ Len(Push(s, f)) = Len(s) + 1
        /\ DOMAIN Push(s, f) = 1 .. Len(s) + 1
        /\ \A i \in DOMAIN s : Push(s, f)[i] = s[i]
        /\ Push(s, f)[Len(s) + 1] = f
    BY ONLY <2>1, Pushed
  <2> QED
    BY <1>8, <2>2
<1>10. DecIs(dec', phase, t, Skip(1), Nothing, dec.source)
  <2>1. DecIs(dec, dec.phase, s, dec.input, Nothing, dec.source)
    BY <1>6, <1>7, DecNow
  <2>2. dec' = [dec EXCEPT !.phase = phase, !.input = Skip(1), !.stack = t]
    BY <1>1, <1>4, <1>6, <1>8 DEF Opened, Push
  <2>3. DecIs([dec EXCEPT !.phase = phase, !.input = Skip(1), !.stack = t],
              phase, t, Skip(1), Nothing, dec.source)
    BY <2>1, DecSet
  <2> QED
    BY ONLY <2>2, <2>3
<1>11. \A i \in DOMAIN s : FrameOK(values', s[i]) /\ (WaitsIn(values, s[i]) => WaitsIn(values', s[i]))
  BY <1>2, <1>6, FramesGrown
<1>12. FrameOK(values', f) /\ (phase = "value" => WaitsIn(values', f))
  BY <1>0, <1>3, <1>5 DEF FrameOK, WaitsIn
<1>13. StackInv' /\ KeysInv'
  <2>1. \A i \in DOMAIN t : FrameOK(values', t[i])
    <3> TAKE i \in DOMAIN t
    <3>1. CASE i = Len(t)
      BY <1>9, <1>12, <3>1
    <3>2. CASE i \in DOMAIN s
      BY <1>9, <1>11, <3>2
    <3> QED
      BY <1>7, <1>9, <3>1, <3>2
  <2>2. \A i \in 1 .. Len(t) - 1 : WaitsIn(values', t[i])
    <3> TAKE i \in 1 .. Len(t) - 1
    <3>1. i \in DOMAIN s /\ WaitsIn(values, s[i])
      <4>1. CASE i = Len(s)
        <5>1. s # <<>>
          BY <1>7, <1>9, <4>1
        <5> QED
          BY <1>7, <4>1, <5>1
      <4>2. CASE i \in 1 .. Len(s) - 1
        BY <1>7, <4>2
      <4>3. i \in 1 .. Len(s) /\ Len(s) \in Nat
        BY <1>7, <1>9
      <4> QED
        BY <4>1, <4>2, <4>3
    <3> QED
      BY <1>9, <1>11, <3>1
  <2>3. phase \in {"value", "deliver"} /\ t # <<>> => WaitsIn(values', t[Len(t)])
    BY <1>0, <1>9, <1>12
  <2>4. phase \in {"key", "after"} => t # <<>> /\ t[Len(t)].key = Nothing
    <3>1. t # <<>>
      BY <1>7, <1>9
    <3> QED
      BY <1>5, <1>9, <3>1
  <2>5. phase = "key" => values'[t[Len(t)].val].type = "object"
    BY <1>0, <1>3, <1>5, <1>9
  <2>6. phase # "deliver" /\ t \in Seq(Frame)
    BY <1>0, <1>9
  <2> QED
    BY ONLY <1>10, <2>1, <2>2, <2>3, <2>4, <2>5, <2>6, DecThen
<1>14. dec'.stack = t /\ dec'.val = Nothing
  BY ONLY <1>10, DecFields
<1>15. ASSUME NEW v \in Addr
       PROVE  Held(dec', v) = Held(dec, v) + Same(a, v)
  <2>1. Hits(t, FramesOf(v)) = Hits(s, FramesOf(v)) + Same(a, v)
    BY <1>5, <1>7, <1>8, PushedHits
  <2>2. Hits(s, FramesOf(v)) \in Nat /\ Same(a, v) \in Nat /\ Same(Nothing, v) \in Nat
    BY <1>7, HitsType, SameType
  <2> QED
    BY ONLY <1>6, <1>7, <1>14, <2>1, <2>2 DEF Held
<1>16. Hits(dec'.stack, WithKey) = Hits(dec.stack, WithKey)
  <2>1. HeldKey(f) = 0 /\ Hits(s, WithKey) \in Nat
    BY <1>5, <1>7, HitsType DEF HeldKey
  <2>2. Hits(t, WithKey) = Hits(s, WithKey) + HeldKey(f)
    BY <1>5, <1>7, <1>8, PushedHits
  <2> QED
    BY <1>6, <1>14, <2>1, <2>2
<1>17. strings' = strings + Same(type, "string")
  <2>1. StringsIn(values) \in Nat
    BY CountsType DEF JsonInv, ValuesTyped
  <2>2. strings \in Nat
    BY <2>1, StringsNow
  <2> QED
    BY <1>0, <2>2 DEF Same
<1> QED
  BY <1>2, <1>13, <1>15, <1>16, <1>17, AllocCounts

\* null, true and false are not allocated.
LEMMA LiteralKeeps ==
  ASSUME JsonInv, ValuesOK, dec.phase = "value", NEW x \in Singleton, NEW n, Deliver(x, n),
         UNCHANGED valueVars
  PROVE  JsonInv'
<1>1. PICK s : s = dec.stack
  OBVIOUS
<1>2. /\ s \in Seq(Frame) /\ dec.val = Nothing /\ \A i \in DOMAIN s : FrameOK(values, s[i])
      /\ s # <<>> => WaitsIn(values, s[Len(s)])
      /\ \A i \in 1 .. Len(s) - 1 : WaitsIn(values, s[i])
  BY <1>1, DecNow, KeysNow
<1>3. DecIs(dec', "deliver", s, Skip(n), x, dec.source)
  BY <1>1, DecNow DEF Deliver, DecIs
<1>4. values' = values
  BY DEF valueVars
<1>5. x \in AnyValue \cup {Nothing} /\ x # Nothing
  BY NullIsNoSequence DEF AnyValue
<1>6. StackInv' /\ KeysInv'
  <2>1. \A i \in DOMAIN s : FrameOK(values', s[i])
    BY <1>2, <1>4
  <2>2. \A i \in 1 .. Len(s) - 1 : WaitsIn(values', s[i])
    BY <1>2, <1>4
  <2>3. s # <<>> => WaitsIn(values', s[Len(s)])
    BY <1>2, <1>4
  <2>4. s \in Seq(Frame)
    BY <1>2
  <2> QED
    BY ONLY <1>3, <1>5, <2>1, <2>2, <2>3, <2>4, DecThen
<1>7. dec'.stack = dec.stack /\ dec'.val = x
  BY ONLY <1>1, <1>3, DecFields
<1>8. ASSUME NEW v \in Addr
      PROVE  Held(dec', v) = Held(dec, v)
  <2>1. Same(dec.val, v) = 0 /\ Same(x, v) = 0
    BY <1>2 DEF Same, ValuesOK
  <2> QED
    BY <1>7, <2>1 DEF Held
<1> QED
  BY <1>6, <1>7, <1>8, DecChanges

LEMMA ParseValueKeeps ==
  ASSUME JsonInv, ValuesOK, todo = <<>>, ParseValue
  PROVE  JsonInv'
<1>1. dec.phase = "value" /\ own' = own /\ results' = results /\ todo' = todo
  BY DEF ParseValue
<1>2. ASSUME Fail, NoAlloc
      PROVE  JsonInv'
  BY <1>1, <1>2, FailKeeps DEF valueVars, NoAlloc
<1>3. ASSUME NEW type \in Types, NEW n, Alloc(type), Deliver(Fresh, n),
             strings' = strings + Same(type, "string")
      PROVE  JsonInv'
  BY <1>1, <1>3, AllocDelivered DEF Alloc
<1>4. strings \in Nat
  <2>1. StringsIn(values) \in Nat
    BY CountsType DEF JsonInv, ValuesTyped
  <2> QED
    BY <2>1, StringsNow
<1>5. ASSUME NEW type \in Types, type # "string", NEW n, Alloc(type), Deliver(Fresh, n),
             UNCHANGED strings
      PROVE  JsonInv'
  <2>1. strings' = strings + Same(type, "string")
    BY <1>4, <1>5 DEF Same
  <2> QED
    BY <1>3, <1>5, <2>1
<1>6. ASSUME NEW type \in Types, NEW phase, phase \in {"key", "value"}, type = Opens(phase),
             Alloc(type), Opened(phase), UNCHANGED strings
      PROVE  JsonInv'
  BY <1>1, <1>6, AllocOpened DEF Alloc
<1>7. "object" \in Types /\ "array" \in Types /\ "string" \in Types /\ "int" \in Types /\ "real" \in Types
  BY DEF Types
<1>8. CASE EndOfText
  BY <1>2, <1>8 DEF EndOfText
<1>9. CASE ParseObject
  <2>1. CASE Fail /\ NoAlloc
    BY <1>2, <2>1
  <2>2. CASE Alloc("object") /\ UNCHANGED strings /\ Deliver(Fresh, 2)
    <3>1. "object" # "string"
      OBVIOUS
    <3> QED
      BY <1>5, <1>7, <2>2, <3>1
  <2>3. CASE Alloc("object") /\ UNCHANGED strings /\ Opened("key")
    <3>1. PICK type, phase : type = "object" /\ phase = "key"
      OBVIOUS
    <3>2. Alloc(type) /\ UNCHANGED strings /\ Opened(phase) /\ type = Opens(phase)
      BY <2>3, <3>1 DEF Opens
    <3> QED
      BY <1>6, <1>7, <3>1, <3>2
  <2> QED
    BY <1>9, <2>1, <2>2, <2>3 DEF ParseObject
<1>10. CASE ParseArray
  <2>1. CASE Alloc("array") /\ UNCHANGED strings /\ Deliver(Fresh, 2)
    <3>1. "array" # "string"
      OBVIOUS
    <3> QED
      BY <1>5, <1>7, <2>1, <3>1
  <2>2. CASE Alloc("array") /\ UNCHANGED strings /\ Opened("value")
    <3>1. PICK type, phase : type = "array" /\ phase = "value"
      OBVIOUS
    <3>2. Alloc(type) /\ UNCHANGED strings /\ Opened(phase) /\ type = Opens(phase)
      BY <2>2, <3>1 DEF Opens
    <3> QED
      BY <1>6, <1>7, <3>1, <3>2
  <2> QED
    BY <1>10, <2>1, <2>2 DEF ParseArray
<1>11. CASE ParseString
  <2>1. CASE Fail /\ NoAlloc
    BY <1>2, <2>1
  <2>2. CASE Alloc("string") /\ strings' = strings + 1 /\ Deliver(Fresh, 1)
    <3>1. Same("string", "string") = 1
      BY DEF Same
    <3> QED
      BY <1>3, <1>7, <2>2, <3>1
  <2> QED
    BY <1>11, <2>1, <2>2 DEF ParseString
<1>12. CASE ParseNumber
  <2>1. CASE Fail /\ NoAlloc
    BY <1>2, <2>1
  <2>2. CASE Next1 \in {"int", "real"} /\ Alloc(Next1) /\ UNCHANGED strings /\ Deliver(Fresh, 1)
    <3>1. PICK type : type = Next1
      OBVIOUS
    <3>2. type \in Types /\ type # "string"
      BY <1>7, <2>2, <3>1
    <3> QED
      BY <1>5, <2>2, <3>1, <3>2
  <2> QED
    BY <1>12, <2>1, <2>2 DEF ParseNumber
<1>13. CASE ParseLiteral
  <2>1. PICK x : x = Next1
    OBVIOUS
  <2>2. x \in Singleton /\ Deliver(x, 1) /\ UNCHANGED valueVars
    BY <1>1, <1>13, <2>1 DEF ParseLiteral, NoAlloc, valueVars
  <2> QED
    BY <1>1, <2>2, LiteralKeeps
<1>14. CASE NoValue
  BY <1>2, <1>14 DEF NoValue
<1> QED
  BY <1>8, <1>9, <1>10, <1>11, <1>12, <1>13, <1>14 DEF ParseValue

\* The value a text is for is the program's.
LEMMA ReturnedKeeps ==
  ASSUME JsonInv, ValuesOK, todo = <<>>, dec.phase = "deliver", dec.stack = <<>>, dec' = Idle,
         own' = IF dec.val \in Addr THEN [own EXCEPT ![dec.val] = @ + 1] ELSE own,
         values' = values, todo' = todo, results' = results, strings' = strings
  PROVE  JsonInv'
<1>1. PICK x : x = dec.val
  OBVIOUS
<1>2. x \in AnyValue /\ x # Nothing
  BY <1>1, DecNow, KeysNow
<1>3. DecIs(dec', "idle", <<>>, <<>>, Nothing, Nothing)
  BY DEF Idle, DecIs
<1>4. dec'.stack = dec.stack /\ dec'.val = Nothing
  BY <1>3, DecFields
<1>5. StackInv' /\ KeysInv'
  <2>1. PICK s : s = <<>>
    OBVIOUS
  <2>2. s \in Seq(Frame) /\ DOMAIN s = {} /\ 1 .. Len(s) - 1 = {}
    BY <2>1
  <2>3. DecIs(dec', "idle", s, <<>>, Nothing, Nothing)
    BY <1>3, <2>1
  <2> QED
    BY ONLY <2>1, <2>2, <2>3, DecThen
<1>6. own \in [Addr -> Nat]
  BY DEF JsonInv, ValuesTyped
<1>7. own' \in [Addr -> Nat] /\ \A u \in Addr : own'[u] = own[u] + Same(x, u)
  <2>1. CASE x \in Addr
    BY <1>1, <1>6, <2>1 DEF Same
  <2>2. CASE x \notin Addr
    BY <1>1, <1>6, <2>2 DEF Same
  <2> QED
    BY <2>1, <2>2
<1>8. ValuesTyped' /\ TodoInv'
  BY <1>7 DEF JsonInv, ValuesTyped, TodoInv
<1>9. ASSUME NEW v \in Addr
      PROVE  CountedIn(values', own', results', todo', dec', v)
  <2>1. /\ CountedIn(values, own, results, todo, dec, v)
        /\ own[v] \in Nat /\ Elements(values, v) \in Nat /\ FoundIn(results, v) \in Nat
        /\ Hits(todo, {Item("release", v)}) \in Nat
        /\ Hits(dec.stack, FramesOf(v)) \in Nat /\ Same(dec.val, v) \in Nat
    BY Counting
  <2>2. own'[v] = own[v] + Same(dec.val, v)
    BY <1>1, <1>7
  <2>3. Same(dec'.val, v) = 0
    BY <1>4 DEF Same, ValuesOK
  <2>4. values' = values /\ todo' = todo /\ results' = results /\ dec'.stack = dec.stack
    BY <1>4
  <2>5. Refs(values', own', results', todo', dec', v) = Refs(values, own, results, todo, dec, v)
    BY ONLY <2>1, <2>2, <2>3, <2>4 DEF Refs
  <2> QED
    BY ONLY <2>1, <2>4, <2>5 DEF CountedIn
<1>10. strings' = StringsIn(values') + Hits(dec'.stack, WithKey)
  BY <1>4, StringsNow
<1> QED
  BY <1>5, <1>8, <1>9, <1>10, Assembled

\* The second value for a key is released.
LEMMA SecondKeeps ==
  ASSUME JsonInv, ValuesOK, todo = <<>>, dec.phase = "deliver", FreesValue,
         dec' = [dec EXCEPT !.phase = "failing", !.val = Nothing],
         values' = values, own' = own, results' = results, strings' = strings
  PROVE  JsonInv'
<1>1. PICK x : x = dec.val
  OBVIOUS
<1>2. x \in AnyValue /\ x # Nothing
  BY <1>1, DecNow, KeysNow
<1>3. DecIs(dec', "failing", dec.stack, dec.input, Nothing, dec.source)
  BY DecNow DEF DecIs
<1>4. dec'.stack = dec.stack /\ dec'.val = Nothing
  BY <1>3, DecFields
<1>5. StackInv' /\ KeysInv'
  <2>1. PICK s : s = dec.stack
    OBVIOUS
  <2>2. s \in Seq(Frame) /\ \A i \in DOMAIN s : FrameOK(values', s[i])
    BY <2>1, DecNow
  <2>3. DecIs(dec', "failing", s, dec.input, Nothing, dec.source)
    BY <1>3, <2>1
  <2> QED
    BY ONLY <2>2, <2>3, DecThen
<1>6. todo' = ReleaseOf(x)
  BY <1>1 DEF FreesValue, FreeOnError, ReleaseOf
<1>7. /\ todo' \in Seq(Frees)
      /\ \A v : /\ Hits(todo', {Item("release", v)}) = Same(x, v)
                /\ Hits(todo', {Item("free", v)}) = 0
  BY ONLY <1>2, <1>6, ReleaseOne
<1>8. ValuesTyped' /\ TodoInv'
  BY <1>7 DEF JsonInv, ValuesTyped, TodoInv
<1>9. ASSUME NEW v \in Addr
      PROVE  CountedIn(values', own', results', todo', dec', v)
  <2>1. /\ CountedIn(values, own, results, todo, dec, v)
        /\ own[v] \in Nat /\ Elements(values, v) \in Nat /\ FoundIn(results, v) \in Nat
        /\ Hits(dec.stack, FramesOf(v)) \in Nat /\ Same(dec.val, v) \in Nat
    BY Counting
  <2>2. Hits(todo, {Item("release", v)}) = 0 /\ Hits(todo, {Item("free", v)}) = 0
    BY NoFrees
  <2>3. Hits(todo', {Item("release", v)}) = Same(dec.val, v) /\ Hits(todo', {Item("free", v)}) = 0
    BY <1>1, <1>7
  <2>4. Same(dec'.val, v) = 0
    BY <1>4 DEF Same, ValuesOK
  <2>5. values' = values /\ own' = own /\ results' = results /\ dec'.stack = dec.stack
    BY <1>4
  <2>6. Refs(values', own', results', todo', dec', v) = Refs(values, own, results, todo, dec, v)
    BY ONLY <2>1, <2>2, <2>3, <2>4, <2>5 DEF Refs
  <2> QED
    BY ONLY <2>1, <2>2, <2>3, <2>5, <2>6 DEF CountedIn
<1>10. strings' = StringsIn(values') + Hits(dec'.stack, WithKey)
  BY <1>4, StringsNow
<1> QED
  BY <1>5, <1>8, <1>9, <1>10, Assembled

\* An element, and the key of an object's, go into the array or object that
\* is being parsed.
LEMMA ElementKeeps ==
  ASSUME JsonInv, ValuesOK, todo = <<>>, dec.phase = "deliver", dec.stack # <<>>,
         values' = AddKid(values, Top.val, Top.key, dec.val),
         dec' = [dec EXCEPT !.phase = "after", !.val = Nothing,
                   !.stack[Len(dec.stack)].key = Nothing],
         own' = own, todo' = todo, results' = results, strings' = strings
  PROVE  JsonInv'
<1>1. PICK x : x = dec.val
  OBVIOUS
<1>2. PICK s : s = dec.stack
  OBVIOUS
<1>3. PICK f : f = Top
  OBVIOUS
<1>4. PICK o, k, e : o = f.val /\ k = f.key /\ e = Nothing
  OBVIOUS
<1>5. PICK t : t = Keyed(s, e)
  OBVIOUS
<1>6. /\ x \in AnyValue /\ s \in Seq(Frame) /\ s # <<>> /\ f = s[Len(s)]
      /\ f \in Frame /\ FrameOK(values, f) /\ WaitsIn(values, f)
      /\ \A i \in DOMAIN s : FrameOK(values, s[i])
      /\ \A i \in 1 .. Len(s) - 1 : WaitsIn(values, s[i])
      /\ Len(s) \in Nat /\ DOMAIN s = 1 .. Len(s) /\ Len(s) \in DOMAIN s
  BY <1>1, <1>2, <1>3, DecNow, KeysNow
<1>7. k \in Name \cup {Nothing} /\ o \in Addr /\ o \notin Singleton /\ e \in Name \cup {Nothing}
  BY <1>4, <1>6 DEF Frame, ValuesOK
<1>8. o \in DOMAIN values /\ IsHeap(values)
  BY <1>2, <1>4, <1>6, FramesThere DEF Value, JsonInv, ValuesTyped
<1>9. /\ values[o].type \in {"object", "array"}
      /\ values[o].type = "object" => k # Nothing
      /\ values[o].type = "array" => k = Nothing
  BY <1>4, <1>6 DEF FrameOK, WaitsIn
<1>10. PICK g : g = values'
  OBVIOUS
<1>11. g = AddKid(values, o, k, x)
  BY <1>1, <1>3, <1>4, <1>10
<1>12. /\ KidsChange(values, g, o)
       /\ \A w : Elements(g, w) = Elements(values, w) + Same(x, w)
       /\ StringsIn(g) = StringsIn(values) + Same(values[o].type, "object")
  <2>1. /\ x \in AnyValue /\ k \in Name \cup {Nothing} /\ o \notin Singleton
        /\ values[o].type \in {"object", "array"}
    BY <1>6, <1>7, <1>9
  <2> QED
    BY ONLY <1>8, <1>11, <2>1, ValuesOK, KidAdded
<1>13. /\ IsHeap(g) /\ DOMAIN g = DOMAIN values
       /\ \A w \in DOMAIN values : g[w].nrefs = values[w].nrefs /\ (w # o => g[w].kids = values[w].kids)
       /\ \A w \in DOMAIN values : g[w].type = values[w].type
  BY <1>12 DEF KidsChange, TypesKept
<1>14. \A v : /\ t \in Seq(Frame) /\ Len(t) = Len(s) /\ DOMAIN t = DOMAIN s
              /\ t[Len(s)].val = f.val /\ t[Len(s)].key = e
              /\ \A i \in 1 .. Len(s) - 1 : t[i] = s[i]
              /\ Hits(t, FramesOf(v)) = Hits(s, FramesOf(v))
              /\ Hits(t, WithKey) + HeldKey(f) = Hits(s, WithKey) + (IF e = Nothing THEN 0 ELSE 1)
  BY ONLY <1>5, <1>6, <1>7, KeyedFrame
<1>15. DecIs(dec', "after", t, dec.input, Nothing, dec.source)
  <2>1. PICK d : d = [dec EXCEPT !.phase = "after", !.input = dec.input, !.stack = t]
    OBVIOUS
  <2>2. DecIs(dec, dec.phase, s, dec.input, x, dec.source)
    BY <1>1, <1>2, DecNow
  <2>3. DecIs(d, "after", t, dec.input, x, dec.source)
    BY <2>1, <2>2, DecSet
  <2>4. dec' = [d EXCEPT !.val = Nothing]
    BY <1>2, <1>4, <1>5, <2>1, <2>2 DEF Keyed, DecIs
  <2> QED
    BY ONLY <2>3, <2>4 DEF DecIs
<1>16. \A i \in DOMAIN s : s[i].val \in DOMAIN values
  BY <1>2, FramesThere DEF Value
<1>17. StackInv' /\ KeysInv'
  <2>1. \A i \in DOMAIN t : FrameOK(values', t[i])
    <3> TAKE i \in DOMAIN t
    <3>1. CASE i = Len(s)
      BY <1>4, <1>8, <1>9, <1>10, <1>13, <1>14, <3>1 DEF FrameOK
    <3>2. CASE i \in 1 .. Len(s) - 1
      BY <1>6, <1>10, <1>13, <1>14, <1>16, <3>2 DEF FrameOK
    <3> QED
      BY <1>6, <1>14, <3>1, <3>2
  <2>2. \A i \in 1 .. Len(t) - 1 : WaitsIn(values', t[i])
    BY <1>6, <1>10, <1>13, <1>14, <1>16 DEF WaitsIn
  <2>3. t # <<>> /\ t[Len(t)].key = Nothing
    BY <1>4, <1>6, <1>14
  <2>4. t \in Seq(Frame)
    BY <1>14
  <2> QED
    BY ONLY <1>15, <2>1, <2>2, <2>3, <2>4, DecThen
<1>18. dec'.stack = t /\ dec'.val = Nothing
  BY ONLY <1>15, DecFields
<1>19. ValuesTyped' /\ TodoInv'
  <2>1. <<>> \in Seq(Frees)
    OBVIOUS
  <2> QED
    BY <1>10, <1>13, <2>1 DEF JsonInv, ValuesTyped, TodoInv
<1>20. values[o].nrefs > 0
  BY <1>7, <1>8, Settled DEF Value
<1>21. ASSUME NEW v \in Addr
       PROVE  CountedIn(values', own', results', todo', dec', v)
  <2>1. /\ CountedIn(values, own, results, todo, dec, v)
        /\ own[v] \in Nat /\ Elements(values, v) \in Nat /\ FoundIn(results, v) \in Nat
        /\ Hits(todo, {Item("release", v)}) \in Nat /\ Hits(todo, {Item("free", v)}) \in Nat
        /\ Hits(dec.stack, FramesOf(v)) \in Nat /\ Same(dec.val, v) \in Nat
    BY Counting
  <2>2. Elements(values', v) = Elements(values, v) + Same(dec.val, v)
    BY <1>1, <1>10, <1>12
  <2>3. Hits(dec'.stack, FramesOf(v)) = Hits(dec.stack, FramesOf(v))
    BY <1>2, <1>14, <1>18
  <2>4. Same(dec'.val, v) = 0
    BY <1>18 DEF Same, ValuesOK
  <2>5. own' = own /\ todo' = todo /\ results' = results
    OBVIOUS
  <2>6. Refs(values', own', results', todo', dec', v) = Refs(values, own, results, todo, dec, v)
    BY ONLY <2>1, <2>2, <2>3, <2>4, <2>5 DEF Refs
  <2>7. v \in DOMAIN values => values'[v].nrefs = values[v].nrefs /\ (v # o => values'[v].kids = values[v].kids)
    BY <1>10, <1>13
  <2>8. DOMAIN values' = DOMAIN values
    BY <1>10, <1>13
  <2> QED
    BY ONLY <1>20, <2>1, <2>5, <2>6, <2>7, <2>8 DEF CountedIn
<1>22. strings' = StringsIn(values') + Hits(dec'.stack, WithKey)
  <2>1. strings = StringsIn(values) + Hits(dec.stack, WithKey) /\ Hits(dec.stack, WithKey) \in Nat
    BY StringsNow
  <2>2. StringsIn(values) \in Nat
    BY <1>8, CountsType
  <2>3. StringsIn(values') = StringsIn(values) + Same(values[o].type, "object")
    BY <1>10, <1>12
  <2>4. HeldKey(f) = Same(values[o].type, "object") /\ HeldKey(f) \in Nat
    BY <1>4, <1>9 DEF HeldKey, Same
  <2>5. Hits(dec'.stack, WithKey) + HeldKey(f) = Hits(dec.stack, WithKey)
    BY <1>2, <1>4, <1>14, <1>18, <2>1
  <2>6. Hits(dec'.stack, WithKey) \in Nat
    BY <1>14, <1>18, HitsType
  <2> QED
    BY ONLY <2>1, <2>2, <2>3, <2>4, <2>5, <2>6, strings' = strings
<1> QED
  BY <1>17, <1>19, <1>21, <1>22, Assembled

LEMMA ReturnKeeps ==
  ASSUME JsonInv, ValuesOK, todo = <<>>, ReturnValue
  PROVE  JsonInv'
<1>1. dec.phase = "deliver" /\ results' = results /\ strings' = strings
  BY DEF ReturnValue
<1>2. ASSUME dec.stack = <<>>, dec' = Idle, UNCHANGED <<values, todo>>,
             own' = IF dec.val \in Addr THEN [own EXCEPT ![dec.val] = @ + 1] ELSE own
      PROVE  JsonInv'
  BY <1>1, <1>2, ReturnedKeeps
<1>3. ASSUME FreesValue, dec' = [dec EXCEPT !.phase = "failing", !.val = Nothing],
             UNCHANGED <<values, own>>
      PROVE  JsonInv'
  BY <1>1, <1>3, SecondKeeps
<1>4. ASSUME dec.stack # <<>>, values' = AddKid(values, Top.val, Top.key, dec.val),
             dec' = [dec EXCEPT !.phase = "after", !.val = Nothing,
                       !.stack[Len(dec.stack)].key = Nothing],
             UNCHANGED <<own, todo>>
      PROVE  JsonInv'
  BY <1>1, <1>4, ElementKeeps
<1> QED
  BY <1>2, <1>3, <1>4 DEF ReturnValue

-----------------------------------------------------------------------------
(* Every step keeps the invariant, and the invariant has what was to show. *)

\* What the program does between two texts.
LEMMA ProgramKeeps ==
  ASSUME JsonInv, ValuesOK, Program
  PROVE  JsonInv'
<1>1. todo = <<>> /\ dec = Idle
  BY DEF Program
<1>2. ASSUME Operation, dec' = dec
      PROVE  JsonInv'
  <2>1. ASSUME NEW type \in Leaf \cup {"object", "array"}, NewValue(type)
        PROVE  JsonInv'
    BY <1>1, <1>2, <2>1, NewKeeps
  <2>2. ASSUME NEW o \in Value, NEW v \in Given, NEW freeval \in BOOLEAN, NEW k, ObjPut(o, k, v, freeval)
        PROVE  JsonInv'
    BY <1>1, <1>2, <2>2, ObjPutKeeps
  <2>3. ASSUME NEW o \in Value, NEW v \in Given, NEW freeval \in BOOLEAN, ArrAdd(o, v, freeval)
        PROVE  JsonInv'
    BY <1>1, <1>2, <2>3, ArrAddKeeps
  <2>4. ASSUME NEW root \in Given, NEW path \in Paths, Match(root, path)
        PROVE  JsonInv'
    BY <1>1, <1>2, <2>4, MatchKeeps
  <2>5. ASSUME NEW v \in Value, AddRef(v)
        PROVE  JsonInv'
    BY <1>1, <1>2, <2>5, AddRefKeeps
  <2>6. ASSUME NEW v \in Given, FreeValue(v)
        PROVE  JsonInv'
    BY <1>1, <1>2, <2>6, FreeKeeps
  <2>7. ASSUME NEW c \in Value, NEW i \in DOMAIN values[c].kids, RemoveKid(c, i)
        PROVE  JsonInv'
    BY <1>1, <1>2, <2>7, RemoveKidKeeps
  <2>8. CASE FreeResults
    BY <1>1, <1>2, <2>8, FreeResultsKeeps
  <2>9. CASE Builds
    BY <2>1, <2>2, <2>3, <2>4, <2>9 DEF Builds
  <2> QED
    BY <1>2, <2>5, <2>6, <2>7, <2>8, <2>9 DEF Operation
<1>3. ASSUME NEW text, Decode(text)
      PROVE  JsonInv'
  BY <1>1, <1>3, DecodeKeeps
<1>4. ASSUME NEW v \in Given, EncodeFreeDecode(v)
      PROVE  JsonInv'
  BY <1>1, <1>4, EncodeFreeDecodeKeeps
<1> QED
  BY <1>2, <1>3, <1>4 DEF Program

LEMMA StepKeeps ==
  ASSUME JsonInv, ValuesOK, [JsonNext]_jsonVars
  PROVE  JsonInv'
<1>1. CASE Program
  BY <1>1, ProgramKeeps
<1>2. CASE Parser
  BY <1>2, ParseValueKeeps, ParseKeyKeeps, ReturnKeeps, ParseAfterKeeps, UnwindKeeps DEF Parser
<1>3. CASE Walking
  BY <1>3, WalkStepKeeps DEF Walking
<1>4. CASE Freeing
  BY <1>4, FreeStepKeeps DEF Freeing
<1>5. CASE jsonVars' = jsonVars
  <2>1. UNCHANGED valueVars /\ dec' = dec
    BY <1>5 DEF jsonVars
  <2> QED
    BY <2>1, SameKeeps
<1> QED
  BY <1>1, <1>2, <1>3, <1>4, <1>5 DEF JsonNext

\* At first there are the three singletons, and nothing refers to anything.
LEMMA InitCounts ==
  ASSUME JsonInit, ValuesOK
  PROVE  /\ IsHeap(values) /\ DOMAIN values = Singleton
         /\ \A v : Elements(values, v) = 0
         /\ StringsIn(values) = 0
<1>1. values = [s \in Singleton |-> [type |-> s, nrefs |-> 0, kids |-> <<>>]]
  BY DEF JsonInit, ValuesInit
<1>2. IsHeap(values) /\ DOMAIN values = Singleton
  <2>1. <<>> \in Seq(Kid)
    OBVIOUS
  <2>2. \A s \in Singleton : values[s] \in Block
    BY <1>1, <2>1 DEF Block, Types
  <2> QED
    BY <1>1, <2>2 DEF IsHeap, AnyValue
<1>3. ASSUME NEW v
      PROVE  Elements(values, v) = 0
  <2>1. \A w \in DOMAIN values : ElementSets(values, v)[w] = {}
    BY <1>1 DEF ElementSets
  <2>2. Members(ElementSets(values, v)) = {}
    BY <1>2, <2>1, HeapFamilies DEF Members
  <2> QED
    <3>1. Total(ElementSets(values, v)) = 0
      BY <1>2, <2>2, HeapFamilies, MembersFinite, FS_EmptySet
    <3>2. Elements(values, v) = Total(ElementSets(values, v))
      BY DEF Elements, ElementSets
    <3> QED
      BY ONLY <3>1, <3>2
<1>4. StringsIn(values) = 0
  <2>1. \A w \in DOMAIN values : StringSets(values)[w] = {}
    BY <1>1 DEF StringSets, StringsAt, Singleton
  <2>2. Members(StringSets(values)) = {}
    BY <1>2, <2>1, HeapFamilies DEF Members
  <2> QED
    BY <1>2, <2>2, HeapFamilies, MembersFinite, FS_EmptySet DEF StringsIn
<1> QED
  BY <1>2, <1>3, <1>4

LEMMA InitOK ==
  ASSUME JsonInit, ValuesOK
  PROVE  JsonInv
<1>1. own = [v \in Addr |-> 0] /\ results = Nothing /\ todo = <<>> /\ strings = 0 /\ dec = Idle
  BY DEF JsonInit, ValuesInit
<1>2. ValuesTyped /\ TodoInv
  <2>1. <<>> \in Seq(Frees)
    OBVIOUS
  <2> QED
    BY <1>1, <2>1, InitCounts DEF ValuesTyped, TodoInv
<1>3. dec.stack = <<>> /\ dec.val = Nothing /\ dec.phase = "idle"
  BY <1>1 DEF Idle
<1>4. StackInv /\ KeysInv
  <2>1. PICK s : s = <<>>
    OBVIOUS
  <2>2. s \in Seq(Frame) /\ DOMAIN s = {} /\ 1 .. Len(s) - 1 = {}
    BY <2>1
  <2>3. dec.stack = s
    BY <1>3, <2>1
  <2>4. DecShape
    BY <1>1 DEF DecShape, Idle
  <2> QED
    BY <1>3, <2>1, <2>2, <2>3, <2>4 DEF StackInv, KeysInv
<1>5. /\ results \in Seq(AnyValue) \cup {Nothing} /\ todo \in Todos /\ dec.stack \in Seq(Frame)
  <2>1. <<>> \in Seq(Frame) /\ <<>> \in Todos
    BY DEF Todos
  <2> QED
    BY <1>1, <1>3, <2>1
<1>6. ASSUME NEW v \in Addr
      PROVE  Counted(v)
  <2>1. /\ References(v) = Refs(values, own, results, todo, dec, v)
        /\ Pending("free", v) = Hits(todo, {Item("free", v)})
    BY <1>5, References1
  <2>2. Hits(todo, {Item("release", v)}) = 0 /\ Hits(todo, {Item("free", v)}) = 0
        /\ Hits(dec.stack, FramesOf(v)) = 0
    BY <1>1, <1>3, HitsEmpty
  <2>3. own[v] = 0 /\ FoundIn(results, v) = 0 /\ Same(dec.val, v) = 0 /\ Elements(values, v) = 0
    BY <1>1, <1>3, InitCounts DEF FoundIn, Same, ValuesOK
  <2>4. Refs(values, own, results, todo, dec, v) = 0
    BY ONLY <2>2, <2>3 DEF Refs
  <2>5. v \notin Value
    BY InitCounts DEF Value, ValuesOK
  <2> QED
    BY <2>1, <2>2, <2>4, <2>5 DEF Counted
<1>7. StringsExact
  <2>1. Hits(dec.stack, WithKey) = 0
    BY <1>3, HitsEmpty
  <2> QED
    BY <1>1, <1>5, <2>1, InitCounts, Strings1
<1> QED
  BY <1>2, <1>4, <1>6, <1>7 DEF JsonInv, AllCounted

LEMMA InvCounts ==
  ASSUME JsonInv, ValuesOK
  PROVE  RefsExact
<1>1. ASSUME NEW v \in Addr
      PROVE  IF v \in Value
             THEN values[v].nrefs = References(v) /\ (References(v) > 0 \/ Pending("free", v) = 1)
             ELSE References(v) = 0 /\ Pending("free", v) = 0
  <2>1. Counted(v)
    BY DEF JsonInv, AllCounted
  <2>2. v \in Value => values[v].nrefs \in Nat
    BY Counting
  <2> QED
    BY <2>1, <2>2 DEF Counted, Same
<1>2. ASSUME NEW v \in Singleton
      PROVE  values[v].nrefs = 0 /\ Pending("free", v) = 0
  <2>1. values[v].nrefs = 0
    <3>1. \A w \in Singleton : values[w] = [type |-> w, nrefs |-> 0, kids |-> <<>>]
      BY DEF JsonInv, ValuesTyped, IsHeap
    <3> HIDE DEF Singleton
    <3>2. values[v] = [type |-> v, nrefs |-> 0, kids |-> <<>>]
      BY ONLY <3>1, v \in Singleton
    <3> QED
      BY <3>2
  <2>2. todo \in Todos
    BY ThereType DEF JsonInv, TodoInv, Todos
  <2>3. \A i \in DOMAIN todo : todo[i] \notin {Item("free", v)}
    <3> TAKE i \in DOMAIN todo
    <3>1. v \notin Addr
      BY DEF ValuesOK
    <3>2. todo[i] \in Frees \cup Walks
      BY <2>2 DEF Todos
    <3> QED
      BY <3>1, <3>2 DEF Frees, Walks, Item
  <2>4. Hits(todo, {Item("free", v)}) = 0
    BY <2>2, <2>3, HitsSome DEF Todos
  <2>5. Pending("free", v) = Hits(todo, {Item("free", v)})
    <3>1. results \in Seq(AnyValue) \cup {Nothing} /\ dec.stack \in Seq(Frame)
      BY DEF JsonInv, ValuesTyped, StackInv
    <3> QED
      BY <2>2, <3>1, References1
  <2> QED
    BY <2>1, <2>4, <2>5
<1> QED
  BY <1>1, <1>2 DEF RefsExact

\* The invariant the counts rest on holds, for any number of values, of keys,
\* of texts and of paths: what the program, the objects and arrays, the
\* results, the active frees and matches and the parser hold has the values
\* it refers to allocated, and each of them counts exactly these references.
THEOREM JsonInvariant ==
  ASSUME ValuesOK
  PROVE  JsonSpec => []JsonInv
<1>1. JsonInit => JsonInv
  BY InitOK
<1>2. JsonInv /\ [JsonNext]_jsonVars => JsonInv'
  BY StepKeeps
<1> QED
  BY <1>1, <1>2, PTL DEF JsonSpec

\* No reference to a value is lost and none dangles: its count is the number
\* of places that refer to it, at every step of puts that fail, matches,
\* recursive releases (json_free.c) and failed decodes (json_parse_object.c,
\* json_parse_array.c), and null, true and false are never freed.
THEOREM JsonRefsExact ==
  ASSUME ValuesOK
  PROVE  JsonSpec => []RefsExact
<1>1. JsonInv => RefsExact
  BY InvCounts
<1> QED
  BY <1>1, JsonInvariant, PTL

\* Every string block that is allocated is the key of one element, the string
\* of one value or the key the parser holds, so that none is freed twice and
\* none is lost (json_objput.c, json_free.c, json_parse_object.c).
THEOREM JsonStringsExact ==
  ASSUME ValuesOK
  PROVE  JsonSpec => []StringsExact
<1>1. JsonInv => StringsExact
  BY DEF JsonInv
<1> QED
  BY <1>1, JsonInvariant, PTL
=============================================================================
