--------------------------- MODULE ContainerProofs ---------------------------
(***************************************************************************)
(* An array, a vector, a queue and a stack, of any elements, capacities    *)
(* and order of calls, implement the sequence of OwnedSeq, and a queue and *)
(* a stack serve in their order.                                           *)
(*                                                                         *)
(* For a table (array, vector) the invariant is that no element is stored  *)
(* twice: a sort picks, for each index, the element with so many below it, *)
(* which is an arrangement of the elements only if they are distinct.  For *)
(* links (queue, stack) it is that some p lists the blocks in the order of *)
(* their links, all of them and each once; the walk from the head, a       *)
(* recursive function, is shown to pass through p by induction.            *)
(***************************************************************************)
EXTENDS Containers, Induction, FiniteSetTheorems, SequenceTheorems, TLAPS

-----------------------------------------------------------------------------
(* Sequences with an element more or less. *)

\* The abstract insertion and removal, position by position.
LEMMA InsertedSeq ==
  ASSUME NEW T, NEW s \in Seq(T), NEW x \in T, NEW i \in 1 .. Len(s) + 1,
         NEW t \in Seq(T), Len(t) = Len(s) + 1,
         \A j \in 1 .. Len(s) + 1 : t[j] = IF j < i THEN s[j] ELSE IF j = i THEN x ELSE s[j - 1]
  PROVE  t = SubSeq(s, 1, i - 1) \o <<x>> \o SubSeq(s, i, Len(s))
<1> DEFINE a == SubSeq(s, 1, i - 1)  b == SubSeq(s, i, Len(s))  u == a \o <<x>> \o b
<1>1. /\ a \in Seq(T) /\ Len(a) = i - 1 /\ \A j \in 1 .. i - 1 : a[j] = s[j]
      /\ b \in Seq(T) /\ Len(b) = Len(s) + 1 - i /\ \A j \in 1 .. Len(s) + 1 - i : b[j] = s[i + j - 1]
  OBVIOUS
<1> HIDE DEF a, b
<1> DEFINE c == a \o <<x>>
<1>2. /\ c \in Seq(T) /\ Len(c) = i /\ c[i] = x /\ \A j \in 1 .. i - 1 : c[j] = s[j]
  <2>1. c = Append(a, x)
    BY <1>1, AppendIsConcat
  <2>2. LET d == Append(a, x)
        IN  /\ d \in Seq(T) /\ Len(d) = i /\ d[i] = x
            /\ \A j \in 1 .. i - 1 : d[j] = s[j]
    BY <1>1
  <2> HIDE DEF c
  <2> QED
    BY ONLY <2>1, <2>2
<1> HIDE DEF c
<1>3. /\ c \o b \in Seq(T) /\ Len(c \o b) = Len(s) + 1
      /\ \A j \in 1 .. i : (c \o b)[j] = c[j]
      /\ \A j \in i + 1 .. Len(s) + 1 : (c \o b)[j] = b[j - i]
  BY <1>1, <1>2
<1>4. \A j \in 1 .. Len(s) + 1 : t[j] = (c \o b)[j]
  <2> TAKE j \in 1 .. Len(s) + 1
  <2>1. CASE j < i
    <3>1. j \in 1 .. i - 1 /\ j \in 1 .. i
      BY <2>1
    <3> QED
      BY ONLY <1>2, <1>3, <2>1, <3>1,
         \A k \in 1 .. Len(s) + 1 : t[k] = IF k < i THEN s[k] ELSE IF k = i THEN x ELSE s[k - 1],
         j \in 1 .. Len(s) + 1
  <2>2. CASE j = i
    BY <1>2, <1>3, <2>2
  <2>3. CASE j > i
    <3>1. j \in i + 1 .. Len(s) + 1 /\ j - i \in 1 .. Len(s) + 1 - i /\ i + (j - i) - 1 = j - 1
      BY <2>3
    <3>2. (c \o b)[j] = s[j - 1]
      BY <1>1, <1>3, <3>1
    <3> QED
      BY <2>3, <3>2
  <2> HIDE DEF c
  <2>4. j < i \/ j = i \/ j > i
    OBVIOUS
  <2> QED
    BY ONLY <2>1, <2>2, <2>3, <2>4
<1>5. t = c \o b
  BY <1>3, <1>4, SeqEqual
<1> QED
  BY <1>5 DEF a, b, c

LEMMA RemovedSeq ==
  ASSUME NEW T, NEW s \in Seq(T), NEW i \in 1 .. Len(s),
         NEW t \in Seq(T), Len(t) = Len(s) - 1,
         \A j \in 1 .. Len(s) - 1 : t[j] = IF j < i THEN s[j] ELSE s[j + 1]
  PROVE  t = SubSeq(s, 1, i - 1) \o SubSeq(s, i + 1, Len(s))
<1> DEFINE a == SubSeq(s, 1, i - 1)  b == SubSeq(s, i + 1, Len(s))
<1>1. /\ a \in Seq(T) /\ Len(a) = i - 1 /\ \A j \in 1 .. i - 1 : a[j] = s[j]
      /\ b \in Seq(T) /\ Len(b) = Len(s) - i /\ \A j \in 1 .. Len(s) - i : b[j] = s[i + j]
  OBVIOUS
<1> HIDE DEF a, b
<1>2. /\ a \o b \in Seq(T) /\ Len(a \o b) = Len(s) - 1
      /\ \A j \in 1 .. i - 1 : (a \o b)[j] = a[j]
      /\ \A j \in i .. Len(s) - 1 : (a \o b)[j] = b[j - i + 1]
  BY <1>1
<1>3. \A j \in 1 .. Len(s) - 1 : t[j] = (a \o b)[j]
  <2> TAKE j \in 1 .. Len(s) - 1
  <2>1. CASE j < i
    BY <1>1, <1>2, <2>1
  <2>2. CASE j >= i
    <3>1. j \in i .. Len(s) - 1 /\ j - i + 1 \in 1 .. Len(s) - i /\ i + (j - i + 1) = j + 1
      BY <2>2
    <3>2. (a \o b)[j] = s[j + 1]
      BY <1>1, <1>2, <3>1
    <3> QED
      BY <2>2, <3>2
  <2>3. j < i \/ j >= i
    OBVIOUS
  <2> QED
    BY ONLY <2>1, <2>2, <2>3
<1>4. t = a \o b
  BY <1>2, <1>3, SeqEqual
<1> QED
  BY <1>4 DEF a, b

-----------------------------------------------------------------------------
(* Arrays and vectors: a table of 'capacity' elements, 'count' of them in use. *)

Value == Elem \cup {None}
InTable == class \in {"array", "vector"}
Table(n, e) == [i \in 1 .. n |-> e[i - 1]]
TableStored == {elements[i] : i \in 0 .. total - 1} \ {None}

TableTypes ==
  /\ live \in BOOLEAN /\ got \in Value
  /\ reserved \in 0 .. MaxCapacity /\ total \in 0 .. reserved
  /\ elements \in [0 .. reserved - 1 -> Value]

\* No element is stored twice.
TableOnce == \A i, j \in 0 .. total - 1 :
               elements[i] = elements[j] /\ elements[i] # None => i = j

TableInv == TableTypes /\ TableOnce

LEMMA TableFacts ==
  ASSUME TableInv, ParametersOK
  PROVE  /\ reserved \in Nat /\ total \in Nat /\ total <= reserved /\ MaxCapacity \in Nat
         /\ \A i \in 0 .. total - 1 : i \in 0 .. reserved - 1
         /\ \A i \in 0 .. reserved - 1 : elements[i] \in Value
         /\ TableStored \subseteq Elem
BY DEF TableInv, TableTypes, ParametersOK, TableStored, Value

LEMMA TableSeq ==
  ASSUME NEW n \in Nat, NEW e, \A i \in 0 .. n - 1 : e[i] \in Value
  PROVE  /\ Table(n, e) \in Seq(Value) /\ Len(Table(n, e)) = n
         /\ \A i \in 1 .. n : Table(n, e)[i] = e[i - 1]
         /\ {Table(n, e)[i] : i \in 1 .. n} = {e[i] : i \in 0 .. n - 1}
<1>1. \A i \in 1 .. n : i - 1 \in 0 .. n - 1
  OBVIOUS
<1>2. /\ Table(n, e) \in Seq(Value) /\ Len(Table(n, e)) = n
      /\ \A i \in 1 .. n : Table(n, e)[i] = e[i - 1]
  BY <1>1 DEF Table
<1>3. \A i \in 0 .. n - 1 : i + 1 \in 1 .. n /\ i + 1 - 1 = i
  OBVIOUS
<1>4. {Table(n, e)[i] : i \in 1 .. n} \subseteq {e[i] : i \in 0 .. n - 1}
  BY <1>1, <1>2
<1>5. \A i \in 0 .. n - 1 : e[i] = Table(n, e)[i + 1]
  BY <1>2, <1>3
<1> QED
  BY <1>2, <1>3, <1>4, <1>5

\* The list an array or a vector implements, in this state and the next.
LEMMA TableList ==
  /\ InTable => List = Table(total, elements)
  /\ InTable' => List' = Table(total', elements')
BY DEF InTable, List, Table, Array!Contents, Vector!Contents

LEMMA TableHeld ==
  ASSUME TableInv, ParametersOK, InTable
  PROVE  /\ List \in Seq(Value) /\ Len(List) = total
         /\ \A i \in 1 .. total : List[i] = elements[i - 1]
         /\ Abs!Held = TableStored
<1>1. List = Table(total, elements)
  BY TableList
<1>2. total \in Nat /\ \A i \in 0 .. total - 1 : elements[i] \in Value
  BY TableFacts
<1>3. /\ List \in Seq(Value) /\ Len(List) = total
      /\ \A i \in 1 .. total : List[i] = elements[i - 1]
      /\ {List[i] : i \in 1 .. total} = {elements[i] : i \in 0 .. total - 1}
  <2>1. /\ Table(total, elements) \in Seq(Value) /\ Len(Table(total, elements)) = total
        /\ \A i \in 1 .. total : Table(total, elements)[i] = elements[i - 1]
        /\ {Table(total, elements)[i] : i \in 1 .. total} = {elements[i] : i \in 0 .. total - 1}
    BY <1>2, TableSeq
  <2> QED
    BY <1>1, <2>1
<1> QED
  BY <1>3 DEF Abs!Held, TableStored

LEMMA TableInsert ==
  ASSUME TableInv, ParametersOK, InTable, class' = class, live' = live,
         NEW x \in (Elem \ TableStored) \cup {None}, NEW i \in 0 .. total,
         NEW cap \in Nat, total < cap, reserved <= cap, cap <= MaxCapacity,
         reserved' = cap, total' = total + 1,
         elements' = [j \in 0 .. cap - 1 |->
           IF j < i THEN elements[j]
           ELSE IF j = i THEN x
           ELSE IF j <= total THEN elements[j - 1]
           ELSE IF j < reserved THEN elements[j] ELSE None],
         cleaned' = <<>>, got' \in {None, x}
  PROVE  TableInv' /\ Abs!Insert(x)
<1>1. /\ reserved \in Nat /\ total \in Nat /\ total <= reserved /\ MaxCapacity \in Nat /\ x \in Value
      /\ \A j \in 0 .. reserved - 1 : elements[j] \in Value
  BY TableFacts DEF Value
<1> DEFINE f == [j \in 0 .. cap - 1 |->
           IF j < i THEN elements[j]
           ELSE IF j = i THEN x
           ELSE IF j <= total THEN elements[j - 1]
           ELSE IF j < reserved THEN elements[j] ELSE None]
<1>2. ASSUME NEW j \in 0 .. cap - 1
      PROVE  f[j] \in Value
  <2>1. /\ j < i => j \in 0 .. reserved - 1
        /\ j > i /\ j <= total => j - 1 \in 0 .. reserved - 1
        /\ j < reserved => j \in 0 .. reserved - 1
        /\ None \in Value
    BY <1>1 DEF Value
  <2>2. j < i \/ j = i \/ j > i
    BY <1>1
  <2> QED
    BY <1>1, <2>1, <2>2
<1>3. f \in [0 .. cap - 1 -> Value]
  BY <1>2
<1>4. \A j \in 0 .. total : f[j] = IF j < i THEN elements[j] ELSE IF j = i THEN x ELSE elements[j - 1]
  <2>1. \A j \in 0 .. total : j \in 0 .. cap - 1 /\ j <= total
    BY <1>1
  <2> QED
    BY <2>1
<1> HIDE DEF f
<1>5. elements' = f
  BY DEF f
<1>6. TableTypes'
  BY <1>1, <1>3, <1>5 DEF TableInv, TableTypes, Value
<1>7. TableOnce'
  <2> SUFFICES ASSUME NEW j \in 0 .. total, NEW k \in 0 .. total, f[j] = f[k], f[j] # None
               PROVE  j = k
    <3>1. total' - 1 = total
      BY <1>1
    <3> QED
      BY <1>5, <3>1 DEF TableOnce
  <2> DEFINE from(m) == IF m < i THEN m ELSE m - 1
  <2>1. ASSUME NEW m \in 0 .. total, m # i
        PROVE  from(m) \in 0 .. total - 1 /\ f[m] = elements[from(m)]
    BY <1>1, <1>4, <2>1
  <2>2. f[i] = x
    BY <1>4
  <2>3. ASSUME NEW m \in 0 .. total, m # i, f[m] # None
        PROVE  f[m] # x
    <3>1. f[m] \in TableStored
      BY <2>1, <2>3 DEF TableStored
    <3> QED
      BY <2>3, <3>1
  <2>4. CASE j = i \/ k = i
    BY <2>2, <2>3, <2>4
  <2>5. CASE j # i /\ k # i
    <3>1. from(j) = from(k)
      BY <2>1, <2>5 DEF TableInv, TableOnce
    <3> QED
      BY <1>1, <2>5, <3>1
  <2> QED
    BY <2>4, <2>5
<1>8. /\ List \in Seq(Value) /\ Len(List) = total
      /\ \A j \in 1 .. total : List[j] = elements[j - 1]
  BY TableHeld
<1>9. /\ List' \in Seq(Value) /\ Len(List') = total + 1
      /\ \A j \in 1 .. total + 1 : List'[j] = f[j - 1]
  <2>1. List' = Table(total + 1, f)
    BY <1>5, TableList DEF InTable
  <2>2. \A j \in 0 .. total + 1 - 1 : f[j] \in Value
    BY <1>1, <1>3
  <2> QED
    BY <1>1, <2>1, <2>2, TableSeq
<1>10. PICK k \in 1 .. Len(List) + 1 :
         List' = SubSeq(List, 1, k - 1) \o <<x>> \o SubSeq(List, k, Len(List))
  <2> DEFINE s == List  t == List'  k == i + 1
  <2>1. ASSUME NEW j \in 1 .. total + 1
        PROVE  t[j] = IF j < i + 1 THEN s[j] ELSE IF j = i + 1 THEN x ELSE s[j - 1]
    <3>1. j - 1 \in 0 .. total /\ t[j] = f[j - 1]
      BY <1>1, <1>9
    <3>2. CASE j < i + 1
      BY <1>1, <1>4, <1>8, <3>1, <3>2
    <3>3. CASE j = i + 1
      BY <1>1, <1>4, <3>1, <3>3
    <3>4. CASE j > i + 1
      <4>1. j - 1 \in 1 .. total /\ ~(j - 1 < i) /\ j - 1 # i /\ ~(j < i + 1) /\ j # i + 1
        BY <1>1, <3>4
      <4> QED
        BY <1>4, <1>8, <3>1, <4>1
    <3> QED
      BY <1>1, <3>2, <3>3, <3>4
  <2>2. s \in Seq(Value) /\ t \in Seq(Value) /\ Len(t) = Len(s) + 1 /\ Len(s) = total
    BY <1>8, <1>9
  <2>3. \A j \in 1 .. Len(s) + 1 : t[j] = IF j < k THEN s[j] ELSE IF j = k THEN x ELSE s[j - 1]
    BY <2>1, <2>2
  <2>4. x \in Value /\ k \in 1 .. Len(s) + 1
    BY <1>1, <2>2
  <2> QED
    <3> HIDE DEF s, t, k
    <3>1. t = SubSeq(s, 1, k - 1) \o <<x>> \o SubSeq(s, k, Len(s))
      BY ONLY <2>2, <2>3, <2>4, InsertedSeq
    <3> QED
      BY ONLY <2>4, <3>1 DEF s, t
<1>12. Abs!Outcome(Abs!NoElements, got')
  BY DEF Abs!Outcome, Abs!NoElements
<1>13. Abs!Insert(x)
  <2>1. \E g \in {None, x} : Abs!Outcome(Abs!NoElements, g)
    BY <1>12
  <2>2. \E j \in 1 .. Len(List) + 1 :
          List' = SubSeq(List, 1, j - 1) \o <<x>> \o SubSeq(List, j, Len(List))
    BY ONLY <1>10
  <2> QED
    BY <2>1, <2>2 DEF Abs!Insert
<1> QED
  BY <1>6, <1>7, <1>13 DEF TableInv

LEMMA TableRemove ==
  ASSUME TableInv, ParametersOK, InTable, class' = class, live' = live,
         NEW i \in 0 .. total - 1, reserved' = reserved, total' = total - 1,
         elements' = [j \in 0 .. reserved - 1 |->
           IF i <= j /\ j < total - 1 THEN elements[j + 1] ELSE elements[j]],
         cleaned' \in Abs!GivenUp(elements[i]), got' = None
  PROVE  TableInv' /\ Abs!Discard
<1>1. /\ reserved \in Nat /\ total \in Nat /\ total <= reserved /\ MaxCapacity \in Nat
      /\ \A j \in 0 .. reserved - 1 : elements[j] \in Value
  BY TableFacts
<1> DEFINE f == [j \in 0 .. reserved - 1 |->
           IF i <= j /\ j < total - 1 THEN elements[j + 1] ELSE elements[j]]
<1>2. f \in [0 .. reserved - 1 -> Value]
  <2>1. ASSUME NEW j \in 0 .. reserved - 1 PROVE f[j] \in Value
    <3>1. j < total - 1 => j + 1 \in 0 .. reserved - 1
      BY <1>1
    <3> QED
      BY <1>1, <3>1
  <2> QED
    BY <2>1
<1>3. \A j \in 0 .. total - 2 : f[j] = IF j < i THEN elements[j] ELSE elements[j + 1]
  <2>1. \A j \in 0 .. total - 2 : j \in 0 .. reserved - 1 /\ j < total - 1
    BY <1>1
  <2> QED
    BY <1>1, <2>1
<1>4. elements' = f /\ total' - 1 = total - 2 /\ total - 1 \in Nat
  BY <1>1
<1> HIDE DEF f
<1>5. TableTypes'
  BY <1>1, <1>2, <1>4 DEF TableInv, TableTypes, Value
<1>6. TableOnce'
  <2> SUFFICES ASSUME NEW j \in 0 .. total - 2, NEW k \in 0 .. total - 2, f[j] = f[k], f[j] # None
               PROVE  j = k
    BY <1>4 DEF TableOnce
  <2> DEFINE from(m) == IF m < i THEN m ELSE m + 1
  <2>1. ASSUME NEW m \in 0 .. total - 2
        PROVE  from(m) \in 0 .. total - 1 /\ f[m] = elements[from(m)]
    BY <1>1, <1>3
  <2>2. from(j) = from(k)
    BY <2>1 DEF TableInv, TableOnce
  <2> QED
    BY <1>1, <2>2
<1>7. /\ List \in Seq(Value) /\ Len(List) = total
      /\ \A j \in 1 .. total : List[j] = elements[j - 1]
  BY TableHeld
<1>8. /\ List' \in Seq(Value) /\ Len(List') = total - 1
      /\ \A j \in 1 .. total - 1 : List'[j] = f[j - 1]
  <2>1. List' = Table(total - 1, f)
    BY <1>4, TableList DEF InTable
  <2>2. \A j \in 0 .. total - 1 - 1 : f[j] \in Value
    BY <1>1, <1>2
  <2> QED
    BY ONLY <1>4, <2>1, <2>2, TableSeq
<1>9. PICK k \in 1 .. Len(List) : /\ List[k] = elements[i]
        /\ List' = SubSeq(List, 1, k - 1) \o SubSeq(List, k + 1, Len(List))
  <2> DEFINE s == List  t == List'  k == i + 1
  <2>1. s \in Seq(Value) /\ t \in Seq(Value) /\ Len(t) = Len(s) - 1 /\ Len(s) = total
    BY <1>7, <1>8
  <2>2. k \in 1 .. Len(s) /\ s[k] = elements[i]
    BY <1>1, <1>7
  <2>3. ASSUME NEW j \in 1 .. Len(s) - 1
        PROVE  t[j] = IF j < k THEN s[j] ELSE s[j + 1]
    <3>1. j - 1 \in 0 .. total - 2 /\ t[j] = f[j - 1] /\ j \in 1 .. total /\ j + 1 \in 1 .. total
      BY <1>1, <1>8, <2>1
    <3>2. t[j] = IF j - 1 < i THEN elements[j - 1] ELSE elements[j - 1 + 1]
      BY <1>3, <3>1
    <3>3. s[j] = elements[j - 1] /\ s[j + 1] = elements[j + 1 - 1]
      BY <1>7, <3>1
    <3>4. (j - 1 < i <=> j < k) /\ j - 1 + 1 = j + 1 - 1
      BY <1>1
    <3> QED
      BY ONLY <3>2, <3>3, <3>4
  <2> QED
    <3> HIDE DEF s, t, k
    <3>1. t = SubSeq(s, 1, k - 1) \o SubSeq(s, k + 1, Len(s))
      BY ONLY <2>1, <2>2, <2>3, RemovedSeq
    <3> QED
      BY ONLY <2>2, <3>1 DEF s, t
<1>10. Abs!Outcome(Abs!GivenUp(List[k]), None)
  BY <1>9 DEF Abs!Outcome
<1>11. List' = Abs!RemovedAt(k)
  BY ONLY <1>9 DEF Abs!RemovedAt
<1>12. Abs!Discard
  BY ONLY <1>9, <1>10, <1>11 DEF Abs!Discard
<1> QED
  BY <1>5, <1>6, <1>12 DEF TableInv

\* pcl_array_set of an element in use, and of one past the last.
LEMMA TableReplace ==
  ASSUME TableInv, ParametersOK, InTable, class' = class, live' = live,
         NEW x \in (Elem \ TableStored) \cup {None},
         NEW i \in 0 .. total - 1, reserved' = reserved, total' = total,
         elements' = [elements EXCEPT ![i] = x],
         cleaned' \in Abs!GivenUp(elements[i]), got' = None
  PROVE  TableInv' /\ Abs!Replace(x)
<1>1. /\ reserved \in Nat /\ total \in Nat /\ total <= reserved /\ x \in Value
      /\ \A j \in 0 .. reserved - 1 : elements[j] \in Value
      /\ i \in 0 .. reserved - 1 /\ elements \in [0 .. reserved - 1 -> Value]
  BY TableFacts DEF Value, TableInv, TableTypes
<1> DEFINE f == [elements EXCEPT ![i] = x]
<1>2. /\ f \in [0 .. reserved - 1 -> Value]
      /\ \A j \in 0 .. reserved - 1 : f[j] = IF j = i THEN x ELSE elements[j]
      /\ elements' = f
  BY <1>1
<1> HIDE DEF f
<1>3. \A j \in 0 .. total - 1 : j \in 0 .. reserved - 1 /\ f[j] \in Value
  BY <1>1, <1>2
<1>4. TableTypes'
  BY <1>1, <1>2 DEF TableInv, TableTypes, Value
<1>5. TableOnce'
  <2> SUFFICES ASSUME NEW j \in 0 .. total - 1, NEW k \in 0 .. total - 1, f[j] = f[k], f[j] # None
               PROVE  j = k
    BY <1>2 DEF TableOnce
  <2>1. \A m \in 0 .. total - 1 : elements[m] # None => elements[m] \in TableStored
    BY DEF TableStored
  <2> QED
    BY <1>2, <1>3, <2>1 DEF TableInv, TableOnce
<1>6. /\ List \in Seq(Value) /\ Len(List) = total
      /\ \A j \in 1 .. total : List[j] = elements[j - 1]
  BY TableHeld
<1>7. /\ List' \in Seq(Value) /\ Len(List') = total
      /\ \A j \in 1 .. total : List'[j] = f[j - 1]
  <2>1. List' = Table(total, f)
    BY <1>2, TableList DEF InTable
  <2> QED
    BY ONLY <1>1, <1>3, <2>1, TableSeq
<1>8. PICK k \in 1 .. Len(List) : /\ List[k] = elements[i]
                                  /\ List' = [List EXCEPT ![k] = x]
  <2> DEFINE s == List  t == List'  k == i + 1  u == [s EXCEPT ![k] = x]
  <2>1. s \in Seq(Value) /\ t \in Seq(Value) /\ Len(t) = Len(s) /\ Len(s) = total
    BY <1>6, <1>7
  <2>2. k \in 1 .. Len(s) /\ s[k] = elements[i]
    BY <1>1, <1>6
  <2>3. ASSUME NEW j \in 1 .. Len(s)
        PROVE  t[j] = IF j = k THEN x ELSE s[j]
    <3>1. j - 1 \in 0 .. total - 1 /\ j - 1 \in 0 .. reserved - 1 /\ t[j] = f[j - 1]
      BY <1>1, <1>7, <2>1
    <3>2. j \in 1 .. total /\ s[j] = elements[j - 1] /\ (j - 1 = i <=> j = k)
      BY <1>1, <1>6, <2>1
    <3> QED
      BY <1>2, <3>1, <3>2
  <2> HIDE DEF s, t, k
  <2>4. u \in Seq(Value) /\ Len(u) = Len(s) /\ \A j \in 1 .. Len(s) : u[j] = IF j = k THEN x ELSE s[j]
    BY ONLY <1>1, <2>1, <2>2
  <2> HIDE DEF u
  <2>5. t = u
    BY ONLY <2>1, <2>3, <2>4, SeqEqual
  <2> QED
    BY ONLY <2>2, <2>5 DEF s, t, u
<1>9. Abs!Outcome(Abs!GivenUp(List[k]), None)
  BY <1>8 DEF Abs!Outcome
<1>10. Abs!Replace(x)
  BY ONLY <1>8, <1>9 DEF Abs!Replace
<1> QED
  BY <1>4, <1>5, <1>10 DEF TableInv

LEMMA TableBeyond ==
  ASSUME TableInv, ParametersOK, InTable, class' = class, live' = live,
         NEW x \in (Elem \ TableStored) \cup {None},
         NEW i \in total .. reserved - 1, reserved' = reserved, total' = i + 1,
         \A j \in total .. i : elements[j] = None,
         elements' = [elements EXCEPT ![i] = x], cleaned' = <<>>, got' = None
  PROVE  TableInv' /\ Abs!StoreBeyond(x)
<1>1. /\ reserved \in Nat /\ total \in Nat /\ total <= reserved /\ x \in Value
      /\ \A j \in 0 .. reserved - 1 : elements[j] \in Value
      /\ i \in Nat /\ i \in 0 .. reserved - 1 /\ elements \in [0 .. reserved - 1 -> Value]
      /\ MaxCapacity \in Nat
  BY TableFacts DEF Value, TableInv, TableTypes
<1> DEFINE f == [elements EXCEPT ![i] = x]
<1>2. /\ f \in [0 .. reserved - 1 -> Value]
      /\ \A j \in 0 .. reserved - 1 : f[j] = IF j = i THEN x ELSE elements[j]
      /\ elements' = f
  BY <1>1
<1> HIDE DEF f
<1>3. \A j \in 0 .. i : j \in 0 .. reserved - 1 /\ f[j] \in Value
  BY <1>1, <1>2
<1>4. \A j \in 0 .. i : f[j] = IF j < total THEN elements[j] ELSE IF j = i THEN x ELSE None
  BY <1>1, <1>2, <1>3
<1>5. TableTypes'
  BY <1>1, <1>2 DEF TableInv, TableTypes, Value
<1>6. TableOnce'
  <2> SUFFICES ASSUME NEW j \in 0 .. i, NEW k \in 0 .. i, f[j] = f[k], f[j] # None
               PROVE  j = k
    <3>1. total' - 1 = i
      BY <1>1
    <3> QED
      BY <1>2, <3>1 DEF TableOnce
  <2>1. \A m \in 0 .. total - 1 : elements[m] # None => elements[m] \in TableStored
    BY DEF TableStored
  <2>2. \A m \in 0 .. i : f[m] # None =>
          (m = i /\ f[m] = x) \/ (m \in 0 .. total - 1 /\ f[m] = elements[m])
    BY <1>1, <1>4
  <2> QED
    BY <2>1, <2>2 DEF TableInv, TableOnce
<1>7. /\ List \in Seq(Value) /\ Len(List) = total
      /\ \A j \in 1 .. total : List[j] = elements[j - 1]
  BY TableHeld
<1>8. /\ List' \in Seq(Value) /\ Len(List') = i + 1
      /\ \A j \in 1 .. i + 1 : List'[j] = f[j - 1]
  <2>1. List' = Table(i + 1, f)
    BY <1>2, TableList DEF InTable
  <2>2. i + 1 \in Nat /\ \A j \in 0 .. i + 1 - 1 : f[j] \in Value
    BY <1>1, <1>3
  <2> QED
    BY ONLY <2>1, <2>2, TableSeq
<1>9. /\ Len(List') > Len(List)
      /\ List' = [j \in 1 .. Len(List') |->
           IF j <= Len(List) THEN List[j] ELSE IF j = Len(List') THEN x ELSE None]
  <2> DEFINE s == List  t == List'
  <2>1. s \in Seq(Value) /\ t \in Seq(Value) /\ Len(t) = i + 1 /\ Len(s) = total
    BY <1>7, <1>8
  <2>2. ASSUME NEW j \in 1 .. Len(t)
        PROVE  t[j] = IF j <= Len(s) THEN s[j] ELSE IF j = Len(t) THEN x ELSE None
    <3>1. j - 1 \in 0 .. i /\ t[j] = f[j - 1]
      BY <1>1, <1>8, <2>1
    <3>2. t[j] = IF j - 1 < total THEN elements[j - 1] ELSE IF j - 1 = i THEN x ELSE None
      BY <1>4, <3>1
    <3>3. /\ j - 1 < total <=> j <= Len(s)
          /\ j <= Len(s) => s[j] = elements[j - 1]
          /\ j - 1 = i <=> j = Len(t)
      BY <1>1, <1>7, <2>1
    <3> QED
      BY <3>2, <3>3
  <2> HIDE DEF s, t
  <2>3. t = [j \in 1 .. Len(t) |-> t[j]]
    BY ONLY <2>1
  <2>4. t = [j \in 1 .. Len(t) |-> IF j <= Len(s) THEN s[j] ELSE IF j = Len(t) THEN x ELSE None]
    BY ONLY <2>2, <2>3
  <2>5. Len(t) > Len(s)
    BY <1>1, <2>1
  <2> QED
    BY ONLY <2>4, <2>5 DEF s, t
<1>10. Abs!Outcome(Abs!NoElements, None)
  BY DEF Abs!Outcome, Abs!NoElements
<1>11. Abs!StoreBeyond(x)
  BY ONLY <1>9, <1>10 DEF Abs!StoreBeyond
<1> QED
  BY <1>5, <1>6, <1>11 DEF TableInv

\* The instances' operators are this module's.
LEMMA SameCardinality ==
  \A S : /\ Abs!Cardinality(S) = Cardinality(S)
         /\ Queue!Cardinality(S) = Cardinality(S)
         /\ Stack!Cardinality(S) = Cardinality(S)
         /\ Array!Cardinality(S) = Cardinality(S)
         /\ Vector!Cardinality(S) = Cardinality(S)
BY DEF Cardinality, Abs!Cardinality, Queue!Cardinality, Stack!Cardinality,
       Array!Cardinality, Vector!Cardinality

\* qsort of elements that the comparator tells apart: the result is the one
\* arrangement in the comparator's order.
Ranked(S, n) == [j \in 0 .. n - 1 |->
                   CHOOSE x \in S : Cardinality({y \in S : Rank[y] < Rank[x]}) = j]

LEMMA RankedChoice ==
  ASSUME NEW S \in SUBSET Elem, NEW n \in Nat, IsFiniteSet(S), Cardinality(S) = n, ParametersOK
  PROVE  LET f == Ranked(S, n)
         IN  /\ f \in [0 .. n - 1 -> S]
             /\ \A j, k \in 0 .. n - 1 : f[j] = f[k] => j = k
             /\ \A x \in S : \E j \in 0 .. n - 1 : f[j] = x
<1> DEFINE below(x) == {y \in S : Rank[y] < Rank[x]}
           g == [x \in S |-> Cardinality(below(x))]
           f == [j \in 0 .. n - 1 |-> CHOOSE x \in S : Cardinality(below(x)) = j]
<1>0. \A x \in S : Rank[x] \in Nat /\ \A y \in S : Rank[x] = Rank[y] => x = y
  BY DEF ParametersOK
<1>1. ASSUME NEW x \in S
      PROVE  IsFiniteSet(below(x)) /\ Cardinality(below(x)) \in 0 .. n - 1
  <2>1. below(x) \in SUBSET (S \ {x})
    BY <1>0
  <2>2. IsFiniteSet(S \ {x}) /\ Cardinality(S \ {x}) = n - 1
    BY FS_RemoveElement
  <2>3. IsFiniteSet(below(x)) /\ Cardinality(below(x)) <= n - 1
    BY <2>1, <2>2, FS_Subset
  <2> QED
    BY <2>3, FS_CardinalityType
<1>2. ASSUME NEW x \in S, NEW z \in S, Rank[x] < Rank[z]
      PROVE  g[x] < g[z]
  <2>1. below(x) \cup {x} \in SUBSET below(z) /\ x \notin below(x)
    BY <1>0, <1>2
  <2>2. Cardinality(below(x) \cup {x}) = Cardinality(below(x)) + 1
    BY <1>1, <2>1, FS_AddElement
  <2>3. Cardinality(below(x) \cup {x}) <= Cardinality(below(z))
    BY <1>1, <2>1, FS_Subset
  <2> HIDE DEF below
  <2> QED
    BY <1>1, <2>2, <2>3
<1>3. g \in [S -> 0 .. n - 1]
  BY <1>1
<1>4. \A x, z \in S : g[x] = g[z] => x = z
  <2> SUFFICES ASSUME NEW x \in S, NEW z \in S, g[x] = g[z] PROVE x = z
    OBVIOUS
  <2> HIDE DEF g
  <2>1. Rank[x] < Rank[z] \/ Rank[z] < Rank[x] \/ Rank[x] = Rank[z]
    BY <1>0
  <2>2. g[x] \in Int /\ g[z] \in Int
    BY <1>3
  <2>3. CASE Rank[x] < Rank[z]
    BY <1>2, <2>2, <2>3
  <2>4. CASE Rank[z] < Rank[x]
    BY <1>2, <2>2, <2>4
  <2> QED
    BY <1>0, <2>1, <2>3, <2>4
<1>5. \A j \in 0 .. n - 1 : \E x \in S : g[x] = j
  <2>1. g \in Injection(S, 0 .. n - 1)
    <3> HIDE DEF g
    <3> QED
      BY <1>3, <1>4 DEF Injection, IsInjective
  <2>2. IsFiniteSet(0 .. n - 1) /\ Cardinality(0 .. n - 1) = n
    BY FS_Interval
  <2>3. g \in Surjection(S, 0 .. n - 1)
    <3> HIDE DEF g
    <3> QED
      BY <2>1, <2>2, FS_Injection
  <2> QED
    <3> HIDE DEF g
    <3> QED
      BY <2>3 DEF Surjection
<1>6. \A j \in 0 .. n - 1 : f[j] \in S /\ g[f[j]] = j
  <2> TAKE j \in 0 .. n - 1
  <2>1. \E x \in S : Cardinality(below(x)) = j
    BY <1>5
  <2>2. f[j] = CHOOSE x \in S : Cardinality(below(x)) = j
    OBVIOUS
  <2> HIDE DEF below, f
  <2> QED
    BY <2>1, <2>2
<1>7. f \in [0 .. n - 1 -> S]
  BY <1>6
<1>8. f = Ranked(S, n)
  BY DEF Ranked
<1> HIDE DEF f, g
<1>9. \A x \in S : g[x] \in 0 .. n - 1 /\ f[g[x]] = x
  BY <1>3, <1>4, <1>6
<1>10. /\ f \in [0 .. n - 1 -> S]
       /\ \A j, k \in 0 .. n - 1 : f[j] = f[k] => j = k
       /\ \A x \in S : \E j \in 0 .. n - 1 : f[j] = x
  BY ONLY <1>6, <1>7, <1>9
<1> QED
  BY <1>8, <1>10

LEMMA StoredSize ==
  ASSUME TableInv, ParametersOK, None \notin {elements[i] : i \in 0 .. total - 1}
  PROVE  /\ TableStored = {elements[i] : i \in 0 .. total - 1}
         /\ TableStored \in SUBSET Elem
         /\ IsFiniteSet(TableStored) /\ Cardinality(TableStored) = total
<1>1. total \in Nat
  BY TableFacts
<1> DEFINE I == 0 .. total - 1  f == [i \in I |-> elements[i]]
<1>2. IsFiniteSet(I) /\ Cardinality(I) = total
  BY <1>1, FS_Interval
<1>3. TableStored = {elements[i] : i \in I} /\ TableStored \in SUBSET Elem
  BY TableFacts DEF TableStored
<1>4. f \in Surjection(I, TableStored)
  BY <1>3 DEF Surjection
<1>5. \A i, j \in I : f[i] = f[j] => i = j
  BY DEF TableInv, TableOnce
<1>6. f \in Injection(I, TableStored)
  <2> HIDE DEF f
  <2> QED
    BY <1>4, <1>5 DEF Surjection, Injection, IsInjective
<1>7. IsFiniteSet(TableStored) /\ Cardinality(TableStored) = Cardinality(I)
  BY <1>2, <1>4, <1>6, FS_Surjection
<1> QED
  BY <1>2, <1>3, <1>7

LEMMA TableSort ==
  ASSUME TableInv, ParametersOK, InTable, class' = class, live' = live,
         None \notin {elements[i] : i \in 0 .. total - 1},
         reserved' = reserved, total' = total,
         elements' = [j \in 0 .. reserved - 1 |->
           IF j >= total THEN elements[j]
           ELSE CHOOSE x \in TableStored :
                  Cardinality({y \in TableStored : Rank[y] < Rank[x]}) = j],
         cleaned' = <<>>, got' = None
  PROVE  TableInv' /\ Abs!Reorder
<1> DEFINE f == Ranked(TableStored, total)
<1>1. /\ reserved \in Nat /\ total \in Nat /\ total <= reserved
      /\ \A j \in 0 .. reserved - 1 : elements[j] \in Value
      /\ \A j \in 0 .. total - 1 : j \in 0 .. reserved - 1
  BY TableFacts
<1>2. /\ TableStored = {elements[i] : i \in 0 .. total - 1}
      /\ TableStored \in SUBSET Elem
      /\ IsFiniteSet(TableStored) /\ Cardinality(TableStored) = total
  BY StoredSize
<1>3. /\ f \in [0 .. total - 1 -> TableStored]
      /\ \A j, k \in 0 .. total - 1 : f[j] = f[k] => j = k
      /\ \A x \in TableStored : \E j \in 0 .. total - 1 : f[j] = x
  BY <1>1, <1>2, RankedChoice
<1>4. /\ \A j \in 0 .. total - 1 : elements'[j] = f[j]
      /\ \A j \in 0 .. reserved - 1 : j >= total => elements'[j] = elements[j]
      /\ elements' = [j \in 0 .. reserved - 1 |-> elements'[j]]
  <2> DEFINE at(j) == CHOOSE x \in TableStored :
                        Cardinality({y \in TableStored : Rank[y] < Rank[x]}) = j
             h == [j \in 0 .. reserved - 1 |-> IF j >= total THEN elements[j] ELSE at(j)]
  <2>1. elements' = h
    OBVIOUS
  <2>2. f = [j \in 0 .. total - 1 |-> at(j)]
    BY DEF Ranked
  <2> HIDE DEF at, f
  <2>3. \A j \in 0 .. total - 1 : j \in 0 .. reserved - 1 /\ ~(j >= total)
    BY <1>1
  <2>4. /\ \A j \in 0 .. total - 1 : h[j] = f[j]
        /\ \A j \in 0 .. reserved - 1 : j >= total => h[j] = elements[j]
        /\ h = [j \in 0 .. reserved - 1 |-> h[j]]
    BY ONLY <2>2, <2>3
  <2> HIDE DEF h
  <2> QED
    BY ONLY <2>1, <2>4
<1> HIDE DEF f
<1>5. elements' \in [0 .. reserved - 1 -> Value]
  <2> SUFFICES ASSUME NEW e, e = elements' PROVE e \in [0 .. reserved - 1 -> Value]
    OBVIOUS
  <2>1. ASSUME NEW j \in 0 .. reserved - 1 PROVE e[j] \in Value
    <3>1. CASE j >= total
      BY ONLY <1>1, <1>4, <2>1, <3>1, e = elements'
    <3>2. CASE j < total
      <4>1. j \in 0 .. total - 1
        BY <1>1, <3>2
      <4> QED
        BY ONLY <1>2, <1>3, <1>4, <4>1, e = elements' DEF Value
    <3> QED
      BY <1>1, <3>1, <3>2
  <2>2. e = [j \in 0 .. reserved - 1 |-> e[j]]
    BY ONLY <1>4, e = elements'
  <2> QED
    BY ONLY <2>1, <2>2
<1>6. TableTypes'
  BY ONLY <1>5, TableInv, reserved' = reserved, total' = total, live' = live, got' = None
     DEF TableInv, TableTypes, Value
<1>7. TableOnce'
  BY ONLY <1>3, <1>4, total' = total DEF TableOnce
<1>8. /\ List \in Seq(Value) /\ Len(List) = total
      /\ \A j \in 1 .. total : List[j] = elements[j - 1]
      /\ Abs!Held = TableStored
  BY TableHeld
<1>9. /\ List' \in Seq(Value) /\ Len(List') = total
      /\ \A j \in 1 .. total : List'[j] = f[j - 1]
  <2>1. List' = Table(total, elements')
    BY TableList DEF InTable
  <2>2. \A j \in 0 .. total - 1 : elements'[j] = f[j] /\ f[j] \in Value
    BY ONLY <1>2, <1>3, <1>4 DEF Value
  <2>3. /\ Table(total, elements') \in Seq(Value) /\ Len(Table(total, elements')) = total
        /\ \A j \in 1 .. total : Table(total, elements')[j] = elements'[j - 1]
    BY ONLY <1>1, <2>2, TableSeq
  <2>4. \A j \in 1 .. total : j - 1 \in 0 .. total - 1
    BY ONLY <1>1
  <2> QED
    BY ONLY <2>1, <2>2, <2>3, <2>4
<1>10. ASSUME NEW x \in TableStored
       PROVE  /\ \E k : {i \in 1 .. total : List'[i] = x} = {k}
              /\ \E k : {i \in 1 .. total : List[i] = x} = {k}
  <2>1. PICK j \in 0 .. total - 1 : f[j] = x
    BY <1>3
  <2>2. PICK m \in 0 .. total - 1 : elements[m] = x
    BY <1>2
  <2>3. \A i \in 1 .. total : i - 1 \in 0 .. total - 1
    BY ONLY <1>1
  <2>4. \A i \in 1 .. total : List'[i] = x <=> i = j + 1
    <3>1. \A i \in 1 .. total : List'[i] = x <=> i - 1 = j
      BY ONLY <1>3, <1>9, <2>1, <2>3
    <3> QED
      BY ONLY <1>1, <3>1, j \in 0 .. total - 1
  <2>5. \A i \in 1 .. total : List[i] = x <=> i = m + 1
    <3>1. \A i \in 1 .. total : List[i] = x <=> i - 1 = m
      <4>1. x # None
        BY DEF TableStored
      <4> QED
        BY ONLY <1>8, <2>2, <2>3, <4>1, TableInv DEF TableInv, TableOnce
    <3> QED
      BY ONLY <1>1, <3>1, m \in 0 .. total - 1
  <2>6. j + 1 \in 1 .. total /\ m + 1 \in 1 .. total
    BY <1>1
  <2>7. {i \in 1 .. total : List'[i] = x} = {j + 1}
    BY ONLY <2>4, <2>6
  <2>8. {i \in 1 .. total : List[i] = x} = {m + 1}
    BY ONLY <2>5, <2>6
  <2> QED
    BY ONLY <2>7, <2>8
<1>11. {i \in 1 .. total : List'[i] = None} = {} /\ {i \in 1 .. total : List[i] = None} = {}
  <2>1. \A i \in 1 .. total : i - 1 \in 0 .. total - 1
    BY ONLY <1>1
  <2>2. None \notin TableStored
    BY DEF TableStored
  <2>3. ASSUME NEW i \in 1 .. total
        PROVE  List'[i] # None /\ List[i] # None
    <3>1. List'[i] = f[i - 1] /\ List[i] = elements[i - 1]
      BY ONLY <1>8, <1>9, i \in 1 .. total
    <3>2. PICK k \in 0 .. total - 1 : k = i - 1
      BY ONLY <2>1, i \in 1 .. total
    <3>3. f[k] # None /\ elements[k] # None
      BY ONLY <1>2, <1>3, <2>2, k \in 0 .. total - 1
    <3> QED
      BY ONLY <3>1, <3>2, <3>3
  <2> QED
    BY ONLY <2>3
<1>12. \A x \in TableStored \cup {None} :
         Cardinality({i \in 1 .. total : List'[i] = x}) = Cardinality({i \in 1 .. total : List[i] = x})
  <2>1. ASSUME NEW x \in TableStored
        PROVE  Cardinality({i \in 1 .. total : List'[i] = x}) = Cardinality({i \in 1 .. total : List[i] = x})
    BY ONLY ZenonT(30), <1>10, <2>1, FS_Singleton
  <2> QED
    BY ONLY <1>11, <2>1
<1>13. Abs!Outcome(Abs!NoElements, None)
  BY DEF Abs!Outcome, Abs!NoElements
<1>14. Abs!Reorder
  <2>1. Len(List') = Len(List) /\ Len(List) = total
    BY ONLY <1>8, <1>9
  <2>2. \A x \in Abs!Held \cup {None} :
          Cardinality({i \in 1 .. Len(List) : List'[i] = x})
            = Cardinality({i \in 1 .. Len(List) : List[i] = x})
    BY ONLY <1>8, <1>12, <2>1
  <2> QED
    BY ONLY <1>13, <2>1, <2>2, SameCardinality DEF Abs!Reorder
<1> QED
  BY ONLY <1>6, <1>7, <1>14 DEF TableInv

\* Looking at an element, and an index that is refused.
LEMMA TableLook ==
  ASSUME TableInv, ParametersOK, InTable, class' = class, live' = live,
         total' = total, reserved' = reserved, elements' = elements,
         cleaned' = <<>>,
         got' = None \/ \E i \in 0 .. total - 1 : got' = elements[i]
  PROVE  TableInv' /\ Abs!Look
<1>1. List' = List
  BY TableList DEF InTable
<1>2. got' \in TableStored \cup {None} /\ got' \in Value
  BY TableFacts DEF TableStored, Value
<1>3. Abs!Held = TableStored
  BY TableHeld
<1>4. Abs!Look
  BY <1>1, <1>2, <1>3 DEF Abs!Look, Abs!Outcome, Abs!NoElements
<1> QED
  BY <1>2, <1>4 DEF TableInv, TableTypes, TableOnce

LEMMA TableClear ==
  ASSUME TableInv, ParametersOK, InTable, class' = class, live' \in BOOLEAN,
         total' = 0, \/ reserved' = reserved /\ elements' = elements
                     \/ reserved' = 0 /\ elements' = <<>>,
         cleaned' = Table(total, elements), got' = None
  PROVE  TableInv' /\ Abs!Clear
<1>1. List' = <<>>
  BY TableList DEF InTable, Table
<1>2. cleaned' = List
  BY TableList
<1>3. Abs!Clear
  BY <1>1, <1>2 DEF Abs!Clear, Abs!Outcome
<1>4. reserved \in Nat /\ MaxCapacity \in Nat
  BY TableFacts
<1>5. <<>> \in [0 .. 0 - 1 -> Value]
  OBVIOUS
<1> QED
  BY <1>3, <1>4, <1>5 DEF TableInv, TableTypes, TableOnce, Value

\* The operators of an array and of a vector are those of a table.
Grown == IF total < reserved THEN reserved
         ELSE IF reserved > 0 THEN 2 * reserved ELSE FirstCapacity

LEMMA TableOperators ==
  /\ Array!Contents = Table(total, elements) /\ Vector!Contents = Table(total, elements)
  /\ Array!Storable = (Elem \ TableStored) \cup {None}
  /\ Vector!Storable = (Elem \ TableStored) \cup {None}
  /\ Array!Stored = TableStored /\ Vector!Stored = TableStored
  /\ Array!Slots = 0 .. reserved - 1 /\ Vector!Slots = 0 .. reserved - 1
  /\ Array!GrownCapacity = Grown /\ Vector!GrownCapacity = Grown
BY DEF Table, TableStored, Grown, Array!Contents, Vector!Contents, Array!Storable, Vector!Storable,
       Array!Stored, Vector!Stored, Array!Slots, Vector!Slots, Array!GrownCapacity,
       Vector!GrownCapacity

LEMMA GrownFits ==
  ASSUME TableInv, ParametersOK
  PROVE  Grown \in Nat /\ total < Grown /\ reserved <= Grown
<1>1. reserved \in Nat /\ total \in Nat /\ total <= reserved /\ FirstCapacity \in Nat \ {0}
  BY TableFacts DEF ParametersOK
<1> QED
  BY <1>1 DEF Grown

\* A removal from an array and a set leave a NULL out.
LEMMA CleansGivenUp ==
  ASSUME NEW x
  PROVE  Array!Cleans(x) \in Abs!GivenUp(x)
BY DEF Array!Cleans, Abs!GivenUp

-----------------------------------------------------------------------------
(* Each call of an array is an operation of the sequence. *)

LEMMA ArrayInsert ==
  ASSUME TableInv, ParametersOK, class = "array", class' = class,
         NEW x \in Array!Storable, NEW i \in 0 .. total, Array!Insert(x, i)
  PROVE  TableInv' /\ live' = live /\ Abs!Insert(x)
<1> DEFINE cap == Grown
<1>1. cap \in Nat /\ total < cap /\ reserved <= cap
  BY GrownFits
<1>2. /\ cap <= MaxCapacity /\ reserved' = cap /\ total' = total + 1 /\ live' = live
      /\ cleaned' = <<>> /\ got' \in {None, x}
      /\ elements' = [j \in 0 .. cap - 1 |->
           IF j < i THEN elements[j]
           ELSE IF j = i THEN x
           ELSE IF j <= total THEN elements[j - 1]
           ELSE IF j < reserved THEN elements[j] ELSE None]
  BY TableOperators DEF Array!Insert, Array!Inserted, Array!Returns
<1> HIDE DEF cap
<1>3. x \in (Elem \ TableStored) \cup {None} /\ InTable
  BY TableOperators DEF InTable
<1> QED
  BY ONLY <1>1, <1>2, <1>3, TableInv, ParametersOK, class' = class, i \in 0 .. total, TableInsert

LEMMA ArrayRemove ==
  ASSUME TableInv, ParametersOK, class = "array", class' = class,
         NEW i \in 0 .. total - 1, Array!Remove(i)
  PROVE  TableInv' /\ live' = live /\ Abs!Discard
<1>1. /\ reserved' = reserved /\ total' = total - 1 /\ live' = live /\ got' = None
      /\ elements' = [j \in 0 .. reserved - 1 |->
           IF i <= j /\ j < total - 1 THEN elements[j + 1] ELSE elements[j]]
      /\ cleaned' = Array!Cleans(elements[i])
  BY TableOperators DEF Array!Remove, Array!Closed, Array!Returns
<1>2. cleaned' \in Abs!GivenUp(elements[i])
  BY ONLY <1>1, CleansGivenUp
<1>3. InTable
  BY DEF InTable
<1> QED
  BY ONLY <1>1, <1>2, <1>3, TableInv, ParametersOK, class' = class, i \in 0 .. total - 1, TableRemove

\* A set in range replaces; one further up stores over slots that are NULL.
LEMMA ArraySet ==
  ASSUME TableInv, ParametersOK, ~SetsBeyond, class = "array", class' = class,
         NEW x \in Array!Storable, NEW i \in 0 .. reserved - 1, Array!Set(x, i)
  PROVE  TableInv' /\ live' = live /\ (Abs!Replace(x) \/ Abs!StoreBeyond(x))
<1>1. /\ reserved' = reserved /\ live' = live /\ got' = None
      /\ total' = IF total < i + 1 THEN i + 1 ELSE total
      /\ \A j \in total .. i : elements[j] = None
      /\ elements' = [elements EXCEPT ![i] = x]
      /\ cleaned' = Array!Cleans(elements[i])
  BY TableOperators DEF Array!Set, Array!SetCount, Array!Returns
<1>2. x \in (Elem \ TableStored) \cup {None} /\ InTable
  BY TableOperators DEF InTable
<1>3. total \in Nat /\ reserved \in Nat /\ i \in Nat
  BY TableFacts
<1>4. CASE i < total
  <2>1. i \in 0 .. total - 1 /\ total' = total
    BY ONLY <1>1, <1>3, <1>4
  <2>2. cleaned' \in Abs!GivenUp(elements[i])
    BY ONLY <1>1, CleansGivenUp
  <2>3. TableInv' /\ Abs!Replace(x)
    BY ONLY <1>1, <1>2, <2>1, <2>2, TableInv, ParametersOK, class' = class, TableReplace
  <2> QED
    BY ONLY <1>1, <2>3
<1>5. CASE i >= total
  <2>1. i \in total .. reserved - 1 /\ total' = i + 1 /\ i \in total .. i
    BY ONLY <1>1, <1>3, <1>5, i \in 0 .. reserved - 1
  <2>2. cleaned' = <<>>
    BY ONLY <1>1, <2>1 DEF Array!Cleans
  <2>3. TableInv' /\ Abs!StoreBeyond(x)
    BY ONLY <1>1, <1>2, <2>1, <2>2, TableInv, ParametersOK, class' = class, TableBeyond
  <2> QED
    BY ONLY <1>1, <2>3
<1> QED
  BY ONLY <1>3, <1>4, <1>5

LEMMA ArrayLook ==
  ASSUME TableInv, ParametersOK, class = "array", class' = class,
         Array!BadIndex \/ \E i \in 0 .. total - 1 : Array!Get(i)
  PROVE  TableInv' /\ live' = live /\ Abs!Look
<1>1. /\ reserved' = reserved /\ total' = total /\ elements' = elements /\ live' = live
      /\ cleaned' = <<>>
      /\ got' = None \/ \E i \in 0 .. total - 1 : got' = elements[i]
  BY DEF Array!BadIndex, Array!Get, Array!Returns
<1>2. InTable
  BY DEF InTable
<1> QED
  BY ONLY <1>1, <1>2, TableInv, ParametersOK, class' = class, TableLook

LEMMA ArraySort ==
  ASSUME TableInv, ParametersOK, class = "array", class' = class, Array!Sort
  PROVE  TableInv' /\ live' = live /\ Abs!Reorder
<1>1. /\ None \notin {elements[i] : i \in 0 .. total - 1}
      /\ reserved' = reserved /\ total' = total /\ live' = live
      /\ cleaned' = <<>> /\ got' = None
      /\ elements' = [j \in 0 .. reserved - 1 |->
           IF j >= total THEN elements[j]
           ELSE CHOOSE x \in TableStored :
                  Cardinality({y \in TableStored : Rank[y] < Rank[x]}) = j]
  BY DEF Array!Sort, Array!Returns, Array!Slots, Array!Stored, TableStored, Array!Cardinality, Cardinality
<1>2. InTable
  BY DEF InTable
<1> QED
  BY ONLY <1>1, <1>2, TableInv, ParametersOK, class' = class, TableSort

LEMMA ArrayFree ==
  ASSUME TableInv, ParametersOK, class = "array", class' = class, Array!Free
  PROVE  TableInv' /\ live' = FALSE /\ Abs!Clear
<1>1. /\ live' = FALSE /\ live' \in BOOLEAN
      /\ total' = 0 /\ reserved' = 0 /\ elements' = <<>>
      /\ cleaned' = Table(total, elements) /\ got' = None
  BY TableOperators DEF Array!Free, Array!Returns
<1>2. InTable
  BY DEF InTable
<1> QED
  BY ONLY <1>1, <1>2, TableInv, ParametersOK, class' = class, TableClear

LEMMA ArrayStep ==
  ASSUME TableInv, ParametersOK, ~SetsBeyond, ArrayNext
  PROVE  TableInv' /\ Abs!Next
<1>1. class = "array" /\ class' = class /\ live /\ InTable
  BY DEF ArrayNext, Array!Next, InTable
<1>2. Abs!Held = TableStored
  BY <1>1, TableHeld
<1>3. CASE \E x \in Array!Storable, i \in 0 .. total : Array!Insert(x, i)
  BY ONLY <1>1, <1>2, <1>3, TableInv, ParametersOK, ArrayInsert, TableOperators DEF Abs!Next
<1>4. CASE \E i \in 0 .. total - 1 : Array!Remove(i)
  BY ONLY <1>1, <1>4, TableInv, ParametersOK, ArrayRemove DEF Abs!Next
<1>5. CASE \E x \in Array!Storable, i \in 0 .. reserved - 1 : Array!Set(x, i)
  BY ONLY <1>1, <1>2, <1>5, TableInv, ParametersOK, ~SetsBeyond, ArraySet, TableOperators
     DEF Abs!Next
<1>6. CASE Array!BadIndex \/ \E i \in 0 .. total - 1 : Array!Get(i)
  BY ONLY <1>1, <1>6, TableInv, ParametersOK, ArrayLook DEF Abs!Next
<1>7. CASE Array!Sort
  BY ONLY <1>1, <1>7, TableInv, ParametersOK, ArraySort DEF Abs!Next
<1>8. CASE Array!Free
  BY ONLY <1>1, <1>8, TableInv, ParametersOK, ArrayFree DEF Abs!Next
<1> QED
  BY ONLY <1>3, <1>4, <1>5, <1>6, <1>7, <1>8, ArrayNext, TableOperators DEF ArrayNext, Array!Next

-----------------------------------------------------------------------------
(* Each call of a vector is an operation of the sequence. *)

VectorBlock ==
  /\ exited \in BOOLEAN /\ block \in {"garbage", "NULL", "block"}
  /\ reserved > 0 => block = "block"

LEMMA VectorInsert ==
  ASSUME TableInv, VectorBlock, ParametersOK, class = "vector", class' = class,
         NEW x \in Vector!Storable, NEW i \in 0 .. total, Vector!Insert(x, i)
  PROVE  TableInv' /\ VectorBlock' /\ live' = live /\ Abs!Insert(x)
<1> DEFINE cap == Grown
<1>1. cap \in Nat /\ total < cap /\ reserved <= cap
  BY GrownFits
<1>2. /\ cap <= MaxCapacity /\ reserved' = cap /\ total' = total + 1 /\ live' = live
      /\ cleaned' = <<>> /\ got' \in {None, x}
      /\ elements' = [j \in 0 .. cap - 1 |->
           IF j < i THEN elements[j]
           ELSE IF j = i THEN x
           ELSE IF j <= total THEN elements[j - 1]
           ELSE IF j < reserved THEN elements[j] ELSE None]
  BY TableOperators DEF Vector!Insert, Vector!Inserted, Vector!Returns
<1> HIDE DEF cap
<1>3. x \in (Elem \ TableStored) \cup {None} /\ InTable
  BY TableOperators DEF InTable
<1>4. TableInv' /\ Abs!Insert(x)
  BY ONLY <1>1, <1>2, <1>3, TableInv, ParametersOK, class' = class, i \in 0 .. total, TableInsert
<1>5. VectorBlock'
  BY DEF VectorBlock, Vector!Insert
<1> QED
  BY ONLY <1>2, <1>4, <1>5

LEMMA VectorRemove ==
  ASSUME TableInv, VectorBlock, ParametersOK, class = "vector", class' = class,
         NEW i \in 0 .. total - 1, Vector!Remove(i)
  PROVE  TableInv' /\ VectorBlock' /\ live' = live /\ Abs!Discard
<1>1. /\ reserved' = reserved /\ total' = total - 1 /\ live' = live /\ got' = None
      /\ elements' = [j \in 0 .. reserved - 1 |->
           IF i <= j /\ j < total - 1 THEN elements[j + 1] ELSE elements[j]]
      /\ cleaned' = <<elements[i]>>
  BY TableOperators DEF Vector!Remove, Vector!CleansRemoved, Vector!Returns
<1>2. cleaned' \in Abs!GivenUp(elements[i])
  BY ONLY <1>1 DEF Abs!GivenUp
<1>3. InTable
  BY DEF InTable
<1>4. TableInv' /\ Abs!Discard
  BY ONLY <1>1, <1>2, <1>3, TableInv, ParametersOK, class' = class, i \in 0 .. total - 1, TableRemove
<1>5. VectorBlock'
  BY DEF VectorBlock, Vector!Remove
<1> QED
  BY ONLY <1>1, <1>4, <1>5

LEMMA VectorLook ==
  ASSUME TableInv, VectorBlock, ParametersOK, class = "vector", class' = class,
         Vector!BadPosition \/ \E i \in 0 .. total - 1 : Vector!GetSafe(i)
  PROVE  TableInv' /\ VectorBlock' /\ live' = live /\ Abs!Look
<1>1. /\ reserved' = reserved /\ total' = total /\ elements' = elements /\ live' = live
      /\ cleaned' = <<>>
      /\ got' = None \/ \E i \in 0 .. total - 1 : got' = elements[i]
  BY DEF Vector!BadPosition, Vector!GetSafe, Vector!Returns
<1>2. InTable
  BY DEF InTable
<1>3. TableInv' /\ Abs!Look
  BY ONLY <1>1, <1>2, TableInv, ParametersOK, class' = class, TableLook
<1>4. VectorBlock'
  BY DEF VectorBlock, Vector!BadPosition, Vector!GetSafe
<1> QED
  BY ONLY <1>1, <1>3, <1>4

\* Giving memory back keeps the elements in use.
LEMMA VectorCompact ==
  ASSUME TableInv, VectorBlock, ParametersOK, class = "vector", class' = class,
         Vector!Compact \/ Vector!CompactEmpty
  PROVE  TableInv' /\ VectorBlock' /\ live' = live /\ Abs!Look
<1>1. /\ reserved' = total /\ total' = total /\ live' = live
      /\ cleaned' = <<>> /\ got' = None
      /\ elements' = [j \in 0 .. total - 1 |-> elements[j]]
  <2>1. CASE Vector!Compact
    BY <2>1 DEF Vector!Compact, Vector!Returns
  <2>2. CASE Vector!CompactEmpty
    <3>1. [j \in 0 .. 0 - 1 |-> elements[j]] = <<>>
      OBVIOUS
    <3> QED
      BY <2>2, <3>1 DEF Vector!CompactEmpty, Vector!Returns
  <2> QED
    BY <2>1, <2>2
<1>2. InTable
  BY DEF InTable
<1>3. /\ reserved \in Nat /\ total \in Nat /\ total <= reserved /\ MaxCapacity \in Nat
      /\ \A j \in 0 .. total - 1 : j \in 0 .. reserved - 1 /\ elements[j] \in Value
      /\ reserved <= MaxCapacity /\ live \in BOOLEAN
  BY TableFacts DEF TableInv, TableTypes
<1>4. \A j \in 0 .. total - 1 : elements'[j] = elements[j]
  BY ONLY <1>1
<1>5. elements' \in [0 .. total - 1 -> Value]
  BY ONLY <1>1, <1>3
<1>6. TableTypes'
  BY ONLY <1>1, <1>3, <1>5 DEF TableTypes, Value
<1>7. TableOnce'
  BY ONLY <1>1, <1>4, TableInv DEF TableInv, TableOnce
<1>8. List' = List
  <2>1. List = Table(total, elements) /\ List' = Table(total, elements')
    BY <1>1, <1>2, TableList DEF InTable
  <2>2. \A i \in 1 .. total : elements'[i - 1] = elements[i - 1]
    <3>1. \A i \in 1 .. total : i - 1 \in 0 .. total - 1
      BY ONLY <1>3
    <3> QED
      BY ONLY <1>4, <3>1
  <2>3. Table(total, elements') = Table(total, elements)
    BY ONLY <2>2 DEF Table
  <2> QED
    BY ONLY <2>1, <2>3
<1>9. Abs!Look
  BY ONLY <1>1, <1>8 DEF Abs!Look, Abs!Outcome, Abs!NoElements
<1>10. VectorBlock'
  BY <1>1, <1>3 DEF VectorBlock, Vector!Compact, Vector!CompactEmpty
<1> QED
  BY ONLY <1>1, <1>6, <1>7, <1>9, <1>10 DEF TableInv

LEMMA VectorSort ==
  ASSUME TableInv, VectorBlock, ParametersOK, class = "vector", class' = class, Vector!Sort
  PROVE  TableInv' /\ VectorBlock' /\ live' = live /\ Abs!Reorder
<1>1. /\ None \notin {elements[i] : i \in 0 .. total - 1}
      /\ reserved' = reserved /\ total' = total /\ live' = live
      /\ cleaned' = <<>> /\ got' = None
      /\ elements' = [j \in 0 .. reserved - 1 |->
           IF j >= total THEN elements[j]
           ELSE CHOOSE x \in TableStored :
                  Cardinality({y \in TableStored : Rank[y] < Rank[x]}) = j]
  BY DEF Vector!Sort, Vector!Returns, Vector!Slots, Vector!Stored, TableStored,
         Vector!Cardinality, Cardinality
<1>2. InTable
  BY DEF InTable
<1>3. TableInv' /\ Abs!Reorder
  BY ONLY <1>1, <1>2, TableInv, ParametersOK, class' = class, TableSort
<1>4. VectorBlock'
  BY DEF VectorBlock, Vector!Sort
<1> QED
  BY ONLY <1>1, <1>3, <1>4

LEMMA VectorEmptied ==
  ASSUME TableInv, VectorBlock, ParametersOK, class = "vector", class' = class, live,
         Vector!Clear \/ Vector!Free
  PROVE  TableInv' /\ VectorBlock' /\ live' \in BOOLEAN /\ Abs!Clear
<1>1. /\ live' \in BOOLEAN /\ total' = 0
      /\ \/ reserved' = reserved /\ elements' = elements
         \/ reserved' = 0 /\ elements' = <<>>
      /\ cleaned' = Table(total, elements) /\ got' = None
  BY TableOperators DEF Vector!Clear, Vector!Free, Vector!Returns, TableInv, TableTypes
<1>2. InTable
  BY DEF InTable
<1>3. TableInv' /\ Abs!Clear
  BY ONLY <1>1, <1>2, TableInv, ParametersOK, class' = class, TableClear
<1>4. VectorBlock'
  <2>1. CASE Vector!Clear
    BY <2>1 DEF VectorBlock, Vector!Clear
  <2>2. CASE Vector!Free
    <3>1. exited' = exited /\ block' = "NULL" /\ reserved' = 0
      BY <2>2 DEF Vector!Free
    <3> QED
      BY ONLY <3>1, VectorBlock DEF VectorBlock
  <2> QED
    BY <2>1, <2>2
<1> QED
  BY ONLY <1>1, <1>3, <1>4

LEMMA VectorStep ==
  ASSUME TableInv, VectorBlock, ParametersOK, VectorNext
  PROVE  TableInv' /\ VectorBlock' /\ [Abs!Next]_(Abs!seqVars)
<1>1. class = "vector" /\ class' = class /\ live /\ InTable
  BY DEF VectorNext, Vector!Next, InTable
<1>2. Abs!Held = TableStored /\ live \in BOOLEAN
  BY <1>1, TableHeld DEF TableInv, TableTypes
<1>3. CASE \E x \in Vector!Storable, i \in 0 .. total : Vector!Insert(x, i)
  BY ONLY <1>1, <1>2, <1>3, TableInv, VectorBlock, ParametersOK, VectorInsert, TableOperators
     DEF Abs!Next
<1>4. CASE \E i \in 0 .. total - 1 : Vector!Remove(i)
  BY ONLY <1>1, <1>4, TableInv, VectorBlock, ParametersOK, VectorRemove DEF Abs!Next
<1>5. CASE Vector!BadPosition \/ \E i \in 0 .. total - 1 : Vector!GetSafe(i)
  BY ONLY <1>1, <1>5, TableInv, VectorBlock, ParametersOK, VectorLook DEF Abs!Next
<1>6. CASE Vector!Compact \/ Vector!CompactEmpty
  BY ONLY <1>1, <1>6, TableInv, VectorBlock, ParametersOK, VectorCompact DEF Abs!Next
<1>7. CASE Vector!Sort
  BY ONLY <1>1, <1>7, TableInv, VectorBlock, ParametersOK, VectorSort DEF Abs!Next
<1>8. CASE Vector!Clear \/ Vector!Free
  <2>1. TableInv' /\ VectorBlock' /\ Abs!Clear
    BY ONLY <1>1, <1>8, TableInv, VectorBlock, ParametersOK, VectorEmptied
  <2>2. live' = live \/ live' = FALSE
    BY <1>8 DEF Vector!Clear, Vector!Free
  <2> QED
    BY ONLY <1>1, <2>1, <2>2 DEF Abs!Next
<1>9. CASE Vector!UsesGarbage
  <2>1. /\ List' = List /\ live' = live /\ cleaned' = cleaned /\ got' = got
        /\ total' = total /\ reserved' = reserved /\ elements' = elements
        /\ exited' = TRUE /\ block' = block
    BY <1>1, <1>9, TableList DEF Vector!UsesGarbage, InTable
  <2> QED
    BY ONLY <2>1, TableInv, VectorBlock
       DEF TableInv, TableTypes, TableOnce, VectorBlock, Abs!seqVars
<1> QED
  BY ONLY <1>3, <1>4, <1>5, <1>6, <1>7, <1>8, <1>9, VectorNext DEF VectorNext, Vector!Next

-----------------------------------------------------------------------------
(* Queues and stacks: blocks linked from a first one to NULL. *)

Chains == INSTANCE Links WITH NULL <- None

\* p lists the blocks of h in the order of their links: all of them, each once.
Chain(h, first, n, p) ==
  /\ DOMAIN h \subseteq Node
  /\ \A m \in DOMAIN h : h[m].value \in Value
  /\ p \in [1 .. n -> DOMAIN h]
  /\ \A m \in DOMAIN h : \E i \in 1 .. n : p[i] = m
  /\ \A i, j \in 1 .. n : p[i] = p[j] => i = j
  /\ first = IF n = 0 THEN None ELSE p[1]
  /\ \A i \in 1 .. n : h[p[i]].next = IF i < n THEN p[i + 1] ELSE None

\* The walk from the first block passes through p and then stays at NULL.
LEMMA ChainVisits ==
  ASSUME ParametersOK, NEW h, NEW first, NEW n \in Nat, NEW p, Chain(h, first, n, p)
  PROVE  Chains!Visits(h, first) = [k \in Nat |-> IF k < n THEN p[k + 1] ELSE None]
<1> DEFINE w == [k \in Nat |-> IF k < n THEN p[k + 1] ELSE None]
           step(f) == [k \in Nat |->
             IF k = 0 THEN first ELSE IF f[k - 1] = None THEN None ELSE h[f[k - 1]].next]
<1>1. \A i \in 1 .. n : p[i] # None
  BY DEF Chain, ParametersOK
<1>2. ASSUME NEW k \in Nat
      PROVE  w[k] = IF k = 0 THEN first
                    ELSE IF w[k - 1] = None THEN None ELSE h[w[k - 1]].next
  <2>1. CASE k = 0
    BY <2>1 DEF Chain
  <2>2. CASE k # 0
    <3>1. k - 1 \in Nat /\ k - 1 + 1 = k
      BY <2>2
    <3>2. CASE k - 1 < n
      <4>1. k \in 1 .. n /\ w[k - 1] = p[k]
        BY <3>1, <3>2
      <4>2. h[p[k]].next = IF k < n THEN p[k + 1] ELSE None
        BY <4>1 DEF Chain
      <4>3. w[k] = IF k < n THEN p[k + 1] ELSE None
        OBVIOUS
      <4> HIDE DEF w
      <4> QED
        BY ONLY <1>1, <2>2, <4>1, <4>2, <4>3
    <3>3. CASE ~(k - 1 < n)
      <4>1. ~(k < n)
        BY <3>1, <3>3
      <4> QED
        BY <2>2, <3>1, <3>3, <4>1
    <3> QED
      BY <3>2, <3>3
  <2> QED
    BY <2>1, <2>2
<1>3. w = step(w)
  <2>1. w = [k \in Nat |-> w[k]]
    OBVIOUS
  <2> HIDE DEF w
  <2> QED
    BY ONLY <1>2, <2>1
<1>4. PICK f : f = step(f) /\ Chains!Visits(h, first) = f
  <2>1. \E f : f = step(f)
    BY <1>3
  <2> QED
    BY <2>1 DEF Chains!Visits
<1> DEFINE same == {k \in Nat : f[k] = w[k]}
<1>5. \A k \in Nat : f[k] = IF k = 0 THEN first
                            ELSE IF f[k - 1] = None THEN None ELSE h[f[k - 1]].next
  BY ONLY <1>4
<1>6. f = [k \in Nat |-> f[k]] /\ w = [k \in Nat |-> w[k]]
  BY <1>4
<1> HIDE DEF w
<1>7. 0 \in same
  BY ONLY <1>2, <1>5
<1>8. ASSUME NEW k \in Nat, k \in same
      PROVE  k + 1 \in same
  <2>1. k + 1 \in Nat /\ k + 1 # 0 /\ k + 1 - 1 = k
    OBVIOUS
  <2>2. f[k + 1] = IF f[k] = None THEN None ELSE h[f[k]].next
    BY ONLY <1>5, <2>1
  <2>3. w[k + 1] = IF w[k] = None THEN None ELSE h[w[k]].next
    BY ONLY <1>2, <2>1
  <2> QED
    BY ONLY <1>8, <2>1, <2>2, <2>3
<1>9. \A k \in Nat : f[k] = w[k]
  <2> HIDE DEF same
  <2>1. \A k \in Nat : k \in same
    BY ONLY <1>7, <1>8, NatInductionOn
  <2> QED
    BY ONLY <2>1 DEF same
<1>10. f = w
  BY ONLY <1>6, <1>9
<1> QED
  BY <1>4, <1>10 DEF w

LEMMA ChainSize ==
  ASSUME ParametersOK, NEW h, NEW first, NEW n \in Nat, NEW p, Chain(h, first, n, p)
  PROVE  IsFiniteSet(DOMAIN h) /\ Cardinality(DOMAIN h) = n
<1>1. IsFiniteSet(1 .. n) /\ Cardinality(1 .. n) = n
  BY FS_Interval
<1>2. p \in Surjection(1 .. n, DOMAIN h)
  BY DEF Chain, Surjection
<1>3. p \in Injection(1 .. n, DOMAIN h)
  BY DEF Chain, Injection, IsInjective
<1> QED
  BY <1>1, <1>2, <1>3, FS_Surjection

\* What the walk reaches, and the values it reads on the way.
Walked(h, first, n, p) ==
  /\ Chains!Reached(h, first) = 0 .. n - 1
  /\ {Chains!Visits(h, first)[k] : k \in 0 .. n - 1} = DOMAIN h
  /\ Chains!Visits(h, first)[n] = None
  /\ n > 0 => Chains!Visits(h, first)[n - 1] = p[n]
  /\ Chains!Values(h, first) = [i \in 1 .. n |-> h[p[i]].value]

LEMMA ChainWalked ==
  ASSUME ParametersOK, NEW h, NEW first, NEW n \in Nat, NEW p, Chain(h, first, n, p)
  PROVE  Walked(h, first, n, p)
<1> DEFINE v == Chains!Visits(h, first)
<1>1. v = [k \in Nat |-> IF k < n THEN p[k + 1] ELSE None]
  BY ChainVisits
<1> HIDE DEF v
<1>2. \A k \in 0 .. n - 1 : k \in Nat /\ k < n /\ k + 1 \in 1 .. n /\ v[k] = p[k + 1]
  BY <1>1
<1>3. \A S : Chains!Cardinality(S) = Cardinality(S)
  BY DEF Chains!Cardinality, Cardinality
<1>4. Chains!Reached(h, first) = {k \in 0 .. n - 1 : v[k] # None}
  BY <1>3, ChainSize DEF Chains!Reached, v
<1>5. \A i \in 1 .. n : p[i] # None /\ p[i] \in DOMAIN h
  BY DEF Chain, ParametersOK
<1>6. Chains!Reached(h, first) = 0 .. n - 1
  BY ONLY <1>2, <1>4, <1>5
<1>7. {v[k] : k \in 0 .. n - 1} = DOMAIN h
  <2>1. \A m \in DOMAIN h : \E k \in 0 .. n - 1 : v[k] = m
    <3> TAKE m \in DOMAIN h
    <3>1. PICK i \in 1 .. n : p[i] = m
      BY DEF Chain
    <3>2. i - 1 \in 0 .. n - 1 /\ i - 1 + 1 = i
      OBVIOUS
    <3> QED
      BY ONLY <1>2, <3>1, <3>2
  <2>2. \A k \in 0 .. n - 1 : v[k] \in DOMAIN h
    BY ONLY <1>2, <1>5
  <2> DEFINE D == DOMAIN h
  <2>3. /\ \A m \in D : \E k \in 0 .. n - 1 : v[k] = m
        /\ \A k \in 0 .. n - 1 : v[k] \in D
    BY ONLY <2>1, <2>2
  <2> HIDE DEF D
  <2>4. {v[k] : k \in 0 .. n - 1} = D
    BY ONLY <2>3
  <2> QED
    BY ONLY <2>4 DEF D
<1>8. Chains!Values(h, first) = [i \in 1 .. n |-> h[p[i]].value]
  <2>1. Chains!Cardinality(Chains!Reached(h, first)) = n
    BY <1>3, <1>6, FS_Interval
  <2>2. Chains!Values(h, first) = [i \in 1 .. n |-> h[v[i - 1]].value]
    BY ONLY <2>1 DEF Chains!Values, v
  <2>3. \A i \in 1 .. n : v[i - 1] = p[i]
    <3>1. \A i \in 1 .. n : i - 1 \in 0 .. n - 1 /\ i - 1 + 1 = i
      OBVIOUS
    <3> QED
      BY ONLY <1>2, <3>1
  <2> QED
    BY ONLY <2>2, <2>3
<1>9. v[n] = None /\ (n > 0 => v[n - 1] = p[n])
  BY <1>1
<1> QED
  BY <1>6, <1>7, <1>8, <1>9 DEF v, Walked

\* Both kinds walk their links so.
LEMMA ChainOperators ==
  /\ Queue!Visit = Chains!Visits(heap, head) /\ Stack!Visit = Chains!Visits(heap, head)
  /\ Queue!Reach = Chains!Reached(heap, head) /\ Stack!Reach = Chains!Reached(heap, head)
  /\ Queue!Contents = Chains!Values(heap, head) /\ Stack!Contents = Chains!Values(heap, head)
BY DEF Queue!Visit, Stack!Visit, Queue!Visits, Stack!Visits, Chains!Visits,
       Queue!Reach, Stack!Reach, Queue!Reached, Stack!Reached, Chains!Reached,
       Queue!Contents, Stack!Contents, Queue!Values, Stack!Values, Chains!Values,
       Queue!Cardinality, Stack!Cardinality, Chains!Cardinality

\* Blocks added in front and at the end, and the first one freed: the heap and
\* the order of its blocks afterwards.
PushedHeap(h, first, b, x) == [m \in DOMAIN h \cup {b} |->
  IF m = b THEN [next |-> first, value |-> x] ELSE h[m]]
PushedOrder(p, n, b) == [i \in 1 .. n + 1 |-> IF i = 1 THEN b ELSE p[i - 1]]

AddedHeap(h, last, b, x) == [m \in DOMAIN h \cup {b} |->
  IF m = b THEN [next |-> None, value |-> x]
  ELSE IF m = last THEN [next |-> b, value |-> h[m].value]
  ELSE h[m]]
AddedOrder(p, n, b) == [i \in 1 .. n + 1 |-> IF i = n + 1 THEN b ELSE p[i]]

PoppedHeap(h, first) == [m \in DOMAIN h \ {first} |-> h[m]]
PoppedOrder(p, n) == [i \in 1 .. n - 1 |-> p[i + 1]]

\* The values of chain q of g are those of chain p of h with one more in front,
\* with one more at the end, without the first.
Prepends(h, p, n, x, g, q) ==
  \A i \in 1 .. n + 1 : g[q[i]].value = IF i = 1 THEN x ELSE h[p[i - 1]].value
Appends(h, p, n, x, g, q) ==
  \A i \in 1 .. n + 1 : g[q[i]].value = IF i = n + 1 THEN x ELSE h[p[i]].value
Drops(h, p, n, g, q) ==
  \A i \in 1 .. n - 1 : g[q[i]].value = h[p[i + 1]].value

LEMMA ChainPush ==
  ASSUME ParametersOK, NEW h, NEW first, NEW n \in Nat, NEW p, Chain(h, first, n, p),
         NEW b \in Node \ DOMAIN h, NEW x \in Value,
         NEW g, g = PushedHeap(h, first, b, x),
         NEW q, q = PushedOrder(p, n, b)
  PROVE  /\ Chain(g, b, n + 1, q)
         /\ Prepends(h, p, n, x, g, q)
<1> DEFINE D == DOMAIN h  E == DOMAIN g
<1>0. /\ g = [m \in DOMAIN h \cup {b} |->
             IF m = b THEN [next |-> first, value |-> x] ELSE h[m]]
      /\ q = [i \in 1 .. n + 1 |-> IF i = 1 THEN b ELSE p[i - 1]]
  BY DEF PushedHeap, PushedOrder
<1>1. /\ D \subseteq Node /\ b \in Node /\ b \notin D /\ E = D \cup {b}
      /\ \A m \in D : h[m].value \in Value
      /\ \A i \in 1 .. n : p[i] \in D
      /\ \A m \in D : \E i \in 1 .. n : p[i] = m
      /\ \A i, j \in 1 .. n : p[i] = p[j] => i = j
      /\ first = IF n = 0 THEN None ELSE p[1]
      /\ \A i \in 1 .. n : h[p[i]].next = IF i < n THEN p[i + 1] ELSE None
  BY <1>0 DEF Chain
<1>2. /\ g[b].next = first /\ g[b].value = x
      /\ \A m \in D : g[m] = h[m]
  BY <1>0, <1>1
<1>3. q[1] = b /\ \A i \in 2 .. n + 1 : i - 1 \in 1 .. n /\ q[i] = p[i - 1] /\ q[i] \in D
  <2>1. \A i \in 2 .. n + 1 : i - 1 \in 1 .. n /\ i \in 1 .. n + 1 /\ i # 1
    OBVIOUS
  <2>2. 1 \in 1 .. n + 1
    OBVIOUS
  <2> QED
    BY ONLY <1>1, <2>1, <2>2, <1>0
<1>4. \A i \in 1 .. n + 1 : i = 1 \/ i \in 2 .. n + 1
  OBVIOUS
<1>5. q \in [1 .. n + 1 -> E]
  <2>1. \A i \in 1 .. n + 1 : q[i] \in E
    BY ONLY <1>1, <1>3, <1>4
  <2>2. q = [i \in 1 .. n + 1 |-> q[i]]
    BY ONLY <1>0
  <2> HIDE DEF E
  <2> QED
    BY ONLY <2>1, <2>2
<1>6. \A m \in E : \E i \in 1 .. n + 1 : q[i] = m
  <2> TAKE m \in E
  <2>1. CASE m = b
    BY <1>3, <2>1
  <2>2. CASE m \in D
    <3>1. PICK i \in 1 .. n : p[i] = m
      BY ONLY <1>1, <2>2
    <3>2. i + 1 \in 2 .. n + 1 /\ i + 1 - 1 = i /\ i + 1 \in 1 .. n + 1
      OBVIOUS
    <3>3. q[i + 1] = m
      BY ONLY <1>3, <3>1, <3>2
    <3> QED
      BY ONLY <3>2, <3>3
  <2> QED
    BY ONLY <1>1, <2>1, <2>2, m \in E
<1>7. \A i, j \in 1 .. n + 1 : q[i] = q[j] => i = j
  <2> SUFFICES ASSUME NEW i \in 1 .. n + 1, NEW j \in 1 .. n + 1, q[i] = q[j] PROVE i = j
    OBVIOUS
  <2>1. CASE i = 1 \/ j = 1
    BY ONLY <1>1, <1>3, <1>4, <2>1, q[i] = q[j], i \in 1 .. n + 1, j \in 1 .. n + 1
  <2>2. CASE i \in 2 .. n + 1 /\ j \in 2 .. n + 1
    <3>1. i - 1 = j - 1
      BY ONLY <1>1, <1>3, <2>2, q[i] = q[j]
    <3> QED
      BY <3>1
  <2> QED
    BY ONLY <1>4, <2>1, <2>2, i \in 1 .. n + 1, j \in 1 .. n + 1
<1>8. \A i \in 1 .. n + 1 : g[q[i]].next = IF i < n + 1 THEN q[i + 1] ELSE None
  <2> TAKE i \in 1 .. n + 1
  <2>1. CASE i = 1
    <3>1. n > 0 => 2 \in 2 .. n + 1 /\ 2 - 1 = 1 /\ 1 + 1 = 2
      OBVIOUS
    <3>2. n > 0 => q[2] = p[1]
      BY ONLY <1>3, <3>1
    <3>3. g[q[1]].next = first
      BY ONLY <1>2, <1>3
    <3> QED
      BY ONLY <1>1, <2>1, <3>1, <3>2, <3>3, n \in Nat
  <2>2. CASE i \in 2 .. n + 1
    <3>1. i - 1 \in 1 .. n /\ (i - 1 < n <=> i < n + 1) /\ i - 1 + 1 = i
          /\ (i < n + 1 => i + 1 \in 2 .. n + 1 /\ i + 1 - 1 = i)
      BY <2>2
    <3>2. g[q[i]].next = h[p[i - 1]].next
      BY ONLY <1>2, <1>3, <2>2
    <3>3. h[p[i - 1]].next = IF i - 1 < n THEN p[i - 1 + 1] ELSE None
      BY ONLY <1>1, <3>1
    <3>4. i < n + 1 => q[i + 1] = p[i]
      BY ONLY <1>3, <3>1
    <3> QED
      BY ONLY <3>1, <3>2, <3>3, <3>4
  <2> QED
    BY <1>4, <2>1, <2>2
<1>9. \A m \in E : g[m].value \in Value
  BY ONLY <1>1, <1>2, x \in Value
<1>10. Chain(g, b, n + 1, q)
  <2>1. E \subseteq Node /\ b = (IF n + 1 = 0 THEN None ELSE q[1])
    BY ONLY <1>1, <1>3, n \in Nat
  <2> QED
    BY ONLY <1>5, <1>6, <1>7, <1>8, <1>9, <2>1 DEF Chain
<1>11. \A i \in 1 .. n + 1 : g[q[i]].value = IF i = 1 THEN x ELSE h[p[i - 1]].value
  BY ONLY <1>2, <1>3, <1>4
<1> QED
  BY ONLY <1>10, <1>11 DEF Prepends

LEMMA ChainAdd ==
  ASSUME ParametersOK, NEW h, NEW first, NEW n \in Nat, NEW p, Chain(h, first, n, p),
         NEW last, last = IF n = 0 THEN None ELSE p[n],
         NEW b \in Node \ DOMAIN h, NEW x \in Value,
         NEW g, g = AddedHeap(h, last, b, x),
         NEW q, q = AddedOrder(p, n, b)
  PROVE  /\ Chain(g, IF last = None THEN b ELSE first, n + 1, q) /\ q[n + 1] = b
         /\ Appends(h, p, n, x, g, q)
<1> DEFINE D == DOMAIN h  E == DOMAIN g
<1>0. /\ g = [m \in DOMAIN h \cup {b} |->
             IF m = b THEN [next |-> None, value |-> x]
             ELSE IF m = last THEN [next |-> b, value |-> h[m].value]
             ELSE h[m]]
      /\ q = [i \in 1 .. n + 1 |-> IF i = n + 1 THEN b ELSE p[i]]
  BY DEF AddedHeap, AddedOrder
<1>1. /\ D \subseteq Node /\ b \in Node /\ b \notin D /\ E = D \cup {b} /\ None \notin Node
      /\ \A m \in D : h[m].value \in Value
      /\ \A i \in 1 .. n : p[i] \in D
      /\ \A m \in D : \E i \in 1 .. n : p[i] = m
      /\ \A i, j \in 1 .. n : p[i] = p[j] => i = j
      /\ first = IF n = 0 THEN None ELSE p[1]
      /\ \A i \in 1 .. n : h[p[i]].next = IF i < n THEN p[i + 1] ELSE None
  BY <1>0 DEF Chain, ParametersOK
<1>2. /\ g[b].next = None /\ g[b].value = x
      /\ \A m \in D : /\ g[m].value = h[m].value
                      /\ g[m].next = IF m = last THEN b ELSE h[m].next
  BY <1>0, <1>1
<1>3. q[n + 1] = b /\ \A i \in 1 .. n : q[i] = p[i] /\ q[i] \in D
  <2>1. \A i \in 1 .. n : i \in 1 .. n + 1 /\ i # n + 1
    OBVIOUS
  <2>2. n + 1 \in 1 .. n + 1
    OBVIOUS
  <2> QED
    BY ONLY <1>1, <2>1, <2>2, <1>0
<1>4. \A i \in 1 .. n + 1 : i = n + 1 \/ i \in 1 .. n
  OBVIOUS
<1>5. q \in [1 .. n + 1 -> E]
  <2>1. \A i \in 1 .. n + 1 : q[i] \in E
    BY ONLY <1>1, <1>3, <1>4
  <2>2. q = [i \in 1 .. n + 1 |-> q[i]]
    BY ONLY <1>0
  <2> HIDE DEF E
  <2> QED
    BY ONLY <2>1, <2>2
<1>6. \A m \in E : \E i \in 1 .. n + 1 : q[i] = m
  <2> TAKE m \in E
  <2>1. CASE m = b
    BY <1>3, <2>1
  <2>2. CASE m \in D
    <3>1. PICK i \in 1 .. n : p[i] = m
      BY ONLY <1>1, <2>2
    <3>2. i \in 1 .. n + 1
      OBVIOUS
    <3> QED
      BY ONLY <1>3, <3>1, <3>2
  <2> QED
    BY ONLY <1>1, <2>1, <2>2, m \in E
<1>7. \A i, j \in 1 .. n + 1 : q[i] = q[j] => i = j
  BY ONLY <1>1, <1>3, <1>4
<1>8. \A i \in 1 .. n + 1 : g[q[i]].next = IF i < n + 1 THEN q[i + 1] ELSE None
  <2> TAKE i \in 1 .. n + 1
  <2>1. CASE i = n + 1
    BY ONLY <1>2, <1>3, <2>1, n \in Nat
  <2>2. CASE i \in 1 .. n
    <3>1. n > 0 /\ n \in 1 .. n /\ last = p[n] /\ i < n + 1
      BY <2>2
    <3>2. p[i] = last <=> i = n
      BY ONLY <1>1, <2>2, <3>1
    <3>3. g[q[i]].next = IF i = n THEN b ELSE h[p[i]].next
      BY ONLY <1>1, <1>2, <1>3, <2>2, <3>2
    <3>4. CASE i = n
      BY ONLY <1>3, <3>1, <3>3, <3>4
    <3>5. CASE i # n
      <4>1. i < n /\ i + 1 \in 1 .. n
        BY <2>2, <3>5
      <4>2. h[p[i]].next = p[i + 1]
        BY ONLY <1>1, <2>2, <4>1
      <4> QED
        BY ONLY <1>3, <3>1, <3>3, <3>5, <4>1, <4>2
    <3> QED
      BY <3>4, <3>5
  <2> QED
    BY <1>4, <2>1, <2>2
<1>9. \A m \in E : g[m].value \in Value
  BY ONLY <1>1, <1>2, x \in Value
<1>10. Chain(g, IF last = None THEN b ELSE first, n + 1, q)
  <2>1. n > 0 => 1 \in 1 .. n /\ n \in 1 .. n
    OBVIOUS
  <2>2. last = None <=> n = 0
    BY <1>1, <2>1
  <2>3. E \subseteq Node
    BY ONLY <1>1
  <2>4. (IF last = None THEN b ELSE first) = (IF n + 1 = 0 THEN None ELSE q[1])
    BY ONLY <1>1, <1>3, <2>1, <2>2, n \in Nat
  <2> QED
    BY ONLY <1>5, <1>6, <1>7, <1>8, <1>9, <2>3, <2>4 DEF Chain
<1>11. \A i \in 1 .. n + 1 : g[q[i]].value = IF i = n + 1 THEN x ELSE h[p[i]].value
  BY ONLY <1>2, <1>3, <1>4
<1> QED
  BY ONLY <1>3, <1>10, <1>11 DEF Appends

LEMMA ChainPop ==
  ASSUME ParametersOK, NEW h, NEW first, NEW n \in Nat, n > 0, NEW p, Chain(h, first, n, p),
         NEW g, g = PoppedHeap(h, first),
         NEW q, q = PoppedOrder(p, n)
  PROVE  /\ Chain(g, h[first].next, n - 1, q) /\ first = p[1] /\ first \in DOMAIN h
         /\ h[first].next = None <=> n = 1
         /\ Drops(h, p, n, g, q)
<1> DEFINE D == DOMAIN h  E == DOMAIN g
<1>0. /\ g = [m \in DOMAIN h \ {first} |-> h[m]]
      /\ q = [i \in 1 .. n - 1 |-> p[i + 1]]
  BY DEF PoppedHeap, PoppedOrder
<1>1. /\ D \subseteq Node /\ E = D \ {first} /\ None \notin Node
      /\ \A m \in D : h[m].value \in Value
      /\ \A i \in 1 .. n : p[i] \in D
      /\ \A m \in D : \E i \in 1 .. n : p[i] = m
      /\ \A i, j \in 1 .. n : p[i] = p[j] => i = j
      /\ first = p[1]
      /\ \A i \in 1 .. n : h[p[i]].next = IF i < n THEN p[i + 1] ELSE None
  <2>1. E = D \ {first}
    BY <1>0
  <2>2. n # 0
    OBVIOUS
  <2> HIDE DEF E
  <2> QED
    BY ONLY <2>1, <2>2, ParametersOK, Chain(h, first, n, p) DEF Chain, ParametersOK
<1>2. 1 \in 1 .. n /\ n - 1 \in Nat /\ \A i \in 1 .. n - 1 : i \in 1 .. n /\ i + 1 \in 1 .. n /\ i + 1 # 1
  OBVIOUS
<1>3. \A m \in E : g[m] = h[m]
  BY <1>0
<1>4. \A i \in 1 .. n - 1 : q[i] = p[i + 1] /\ q[i] \in E
  BY ONLY <1>1, <1>2, <1>0
<1>5. q \in [1 .. n - 1 -> E]
  <2>1. q = [i \in 1 .. n - 1 |-> q[i]]
    BY ONLY <1>0
  <2> HIDE DEF E
  <2> QED
    BY ONLY <1>4, <2>1
<1>6. \A m \in E : \E i \in 1 .. n - 1 : q[i] = m
  <2> TAKE m \in E
  <2>1. PICK i \in 1 .. n : p[i] = m
    BY ONLY <1>1, m \in E
  <2>2. i # 1
    BY ONLY <1>1, <2>1, m \in E
  <2>3. i - 1 \in 1 .. n - 1 /\ i - 1 + 1 = i
    BY <2>2
  <2> QED
    BY ONLY <1>4, <2>1, <2>3
<1>7. \A i, j \in 1 .. n - 1 : q[i] = q[j] => i = j
  <2> SUFFICES ASSUME NEW i \in 1 .. n - 1, NEW j \in 1 .. n - 1, q[i] = q[j] PROVE i = j
    OBVIOUS
  <2>1. i + 1 = j + 1
    BY ONLY <1>1, <1>2, <1>4, q[i] = q[j], i \in 1 .. n - 1, j \in 1 .. n - 1
  <2> QED
    BY <2>1
<1>8. \A i \in 1 .. n - 1 : g[q[i]].next = IF i < n - 1 THEN q[i + 1] ELSE None
  <2> TAKE i \in 1 .. n - 1
  <2>1. g[q[i]].next = h[p[i + 1]].next
    BY ONLY <1>3, <1>4, i \in 1 .. n - 1
  <2>2. h[p[i + 1]].next = IF i + 1 < n THEN p[i + 1 + 1] ELSE None
    BY ONLY <1>1, <1>2, i \in 1 .. n - 1
  <2>3. (i + 1 < n <=> i < n - 1) /\ (i < n - 1 => i + 1 \in 1 .. n - 1)
    OBVIOUS
  <2> QED
    BY ONLY <1>4, <2>1, <2>2, <2>3
<1>9. \A m \in E : g[m].value \in Value
  BY ONLY <1>1, <1>3
<1>10. h[first].next = IF 1 < n THEN p[1 + 1] ELSE None
  BY ONLY <1>1, <1>2
<1>11. n > 1 => 1 \in 1 .. n - 1
  OBVIOUS
<1>12. h[first].next = (IF n - 1 = 0 THEN None ELSE q[1])
  BY ONLY <1>4, <1>10, <1>11, n \in Nat, n > 0
<1>13. Chain(g, h[first].next, n - 1, q)
  <2>1. E \subseteq Node
    BY ONLY <1>1
  <2> QED
    BY ONLY <1>5, <1>6, <1>7, <1>8, <1>9, <1>12, <2>1 DEF Chain
<1>14. h[first].next = None <=> n = 1
  BY ONLY <1>1, <1>4, <1>11, <1>12, n \in Nat, n > 0
<1>15. \A i \in 1 .. n - 1 : g[q[i]].value = h[p[i + 1]].value
  BY ONLY <1>3, <1>4
<1> QED
  BY ONLY <1>1, <1>2, <1>13, <1>14, <1>15 DEF Drops

\* s holds the values of the chain.
Reads(h, p, n, s) ==
  /\ s \in Seq(Value) /\ Len(s) = n
  /\ \A i \in 1 .. n : s[i] = h[p[i]].value
  /\ {s[i] : i \in 1 .. n} = {h[m].value : m \in DOMAIN h}

LEMMA ChainSeq ==
  ASSUME ParametersOK, NEW h, NEW first, NEW n \in Nat, NEW p, Chain(h, first, n, p)
  PROVE  Reads(h, p, n, Chains!Values(h, first))
<1> DEFINE s == Chains!Values(h, first)
<1>1. s = [i \in 1 .. n |-> h[p[i]].value]
  <2>1. Walked(h, first, n, p)
    BY ChainWalked
  <2> QED
    BY <2>1 DEF Walked
<1> HIDE DEF s
<1> DEFINE D == DOMAIN h
<1>2. /\ \A i \in 1 .. n : p[i] \in D
      /\ \A m \in D : \E i \in 1 .. n : p[i] = m
      /\ \A m \in D : h[m].value \in Value
  BY DEF Chain
<1> HIDE DEF D
<1>3. \A i \in 1 .. n : s[i] = h[p[i]].value /\ s[i] \in Value
  BY ONLY <1>1, <1>2
<1>4. s \in Seq(Value) /\ Len(s) = n
  BY ONLY <1>1, <1>3, n \in Nat
<1>5. {s[i] : i \in 1 .. n} = {h[m].value : m \in D}
  BY ONLY <1>2, <1>3
<1> QED
  BY ONLY <1>3, <1>4, <1>5 DEF D, s, Reads

InChain == class \in {"queue", "stack"}

LEMMA ChainLists ==
  /\ InChain => List = Chains!Values(heap, head)
  /\ InChain' => List' = Chains!Values(heap', head')
  /\ Queue!Contents = Chains!Values(heap, head) /\ Stack!Contents = Chains!Values(heap, head)
  /\ Queue!Contents' = Chains!Values(heap', head') /\ Stack!Contents' = Chains!Values(heap', head')
<1>1. InChain => List = Chains!Values(heap, head)
  BY ChainOperators DEF InChain, List
<1>2. /\ Queue!Contents' = Chains!Values(heap', head')
      /\ Stack!Contents' = Chains!Values(heap', head')
  BY DEF Queue!Contents, Stack!Contents, Queue!Values, Stack!Values, Chains!Values,
         Queue!Visits, Stack!Visits, Chains!Visits, Queue!Reached, Stack!Reached, Chains!Reached,
         Queue!Cardinality, Stack!Cardinality, Chains!Cardinality
<1>3. InChain' => List' = Chains!Values(heap', head')
  BY <1>2 DEF InChain, List
<1> QED
  BY <1>1, <1>2, <1>3, ChainOperators

\* The inductive invariant: the blocks form one chain of 'size' blocks from the
\* head, and the tail of a queue is its last block.
Linked(p) ==
  /\ Chain(heap, head, size, p)
  /\ class = "queue" => tail = IF size = 0 THEN None ELSE p[size]

ChainInv == size \in Nat /\ \E p : Linked(p)

HeapStored == {heap[m].value : m \in DOMAIN heap} \ {None}

LEMMA ChainHeld ==
  ASSUME ParametersOK, InChain, size \in Nat, NEW p, Linked(p)
  PROVE  /\ List \in Seq(Value) /\ Len(List) = size
         /\ \A i \in 1 .. size : List[i] = heap[p[i]].value
         /\ Abs!Held = HeapStored
<1>1. Chain(heap, head, size, p) /\ List = Chains!Values(heap, head)
  BY ChainLists DEF Linked
<1>2. /\ List \in Seq(Value) /\ Len(List) = size
      /\ \A i \in 1 .. size : List[i] = heap[p[i]].value
      /\ {List[i] : i \in 1 .. size} = {heap[m].value : m \in DOMAIN heap}
  <2>1. Reads(heap, p, size, List)
    BY ONLY <1>1, ParametersOK, size \in Nat, ChainSeq
  <2> QED
    BY ONLY <2>1 DEF Reads
<1> QED
  BY ONLY <1>2 DEF Abs!Held, HeapStored

\* The invariant says more than the checked one.
LEMMA ChainShape ==
  ASSUME ParametersOK, ChainInv
  PROVE  (class = "queue" => Queue!LinksOK) /\ (class = "stack" => Stack!LinksOK)
<1>1. PICK p : Linked(p)
  BY DEF ChainInv
<1> DEFINE v == Chains!Visits(heap, head)
<1>2. /\ {v[k] : k \in 0 .. size - 1} = DOMAIN heap /\ v[size] = None
      /\ size > 0 => v[size - 1] = p[size]
      /\ Cardinality(DOMAIN heap) = size
  <2>1. Chain(heap, head, size, p) /\ size \in Nat
    BY <1>1 DEF ChainInv, Linked
  <2>2. Walked(heap, head, size, p)
    BY ONLY <2>1, ParametersOK, ChainWalked
  <2> QED
    BY ONLY <2>1, <2>2, ParametersOK, ChainSize DEF Walked
<1>3. Queue!Visit = v /\ Stack!Visit = v
  BY ChainOperators
<1> HIDE DEF v
<1>4. size \in Nat /\ (class = "queue" => tail = IF size = 0 THEN None ELSE p[size])
  BY <1>1 DEF ChainInv, Linked
<1>5. Queue!Cardinality(DOMAIN heap) = size /\ Stack!Cardinality(DOMAIN heap) = size
  BY <1>2, SameCardinality
<1> QED
  BY ONLY <1>2, <1>3, <1>4, <1>5 DEF Queue!LinksOK, Stack!LinksOK

-----------------------------------------------------------------------------
(* What a step of the links means for the list. *)

\* An element more in front, and one more at the end.
LEMMA ListPushed ==
  ASSUME NEW s \in Seq(Value), NEW t \in Seq(Value), NEW x \in Value, Len(t) = Len(s) + 1,
         \A j \in 1 .. Len(s) + 1 : t[j] = IF j = 1 THEN x ELSE s[j - 1]
  PROVE  /\ \E i \in 1 .. Len(s) + 1 : t = SubSeq(s, 1, i - 1) \o <<x>> \o SubSeq(s, i, Len(s))
         /\ Tail(t) = s
<1>1. 1 \in 1 .. Len(s) + 1
  OBVIOUS
<1>2. \A j \in 1 .. Len(s) + 1 : t[j] = IF j < 1 THEN s[j] ELSE IF j = 1 THEN x ELSE s[j - 1]
  OBVIOUS
<1>3. t = SubSeq(s, 1, 1 - 1) \o <<x>> \o SubSeq(s, 1, Len(s))
  BY ONLY <1>1, <1>2, InsertedSeq, s \in Seq(Value), t \in Seq(Value), x \in Value,
     Len(t) = Len(s) + 1
<1>4. Tail(t) = s
  <2>1. Tail(t) \in Seq(Value) /\ Len(Tail(t)) = Len(s)
        /\ \A j \in 1 .. Len(s) : Tail(t)[j] = t[j + 1]
    OBVIOUS
  <2>2. \A j \in 1 .. Len(s) : j + 1 \in 1 .. Len(s) + 1 /\ j + 1 # 1 /\ j + 1 - 1 = j
    OBVIOUS
  <2>3. \A j \in 1 .. Len(s) : Tail(t)[j] = s[j]
    BY <2>1, <2>2
  <2> QED
    BY ONLY <2>1, <2>3, SeqEqual, s \in Seq(Value)
<1> QED
  BY ONLY <1>1, <1>3, <1>4

LEMMA ListAdded ==
  ASSUME NEW s \in Seq(Value), NEW t \in Seq(Value), NEW x \in Value, Len(t) = Len(s) + 1,
         \A j \in 1 .. Len(s) + 1 : t[j] = IF j = Len(s) + 1 THEN x ELSE s[j]
  PROVE  /\ \E i \in 1 .. Len(s) + 1 : t = SubSeq(s, 1, i - 1) \o <<x>> \o SubSeq(s, i, Len(s))
         /\ SubSeq(t, 1, Len(s)) = s
<1> DEFINE n == Len(s) + 1
<1>1. n \in 1 .. Len(s) + 1
  OBVIOUS
<1>2. \A j \in 1 .. Len(s) + 1 : t[j] = IF j < n THEN s[j] ELSE IF j = n THEN x ELSE s[j - 1]
  OBVIOUS
<1> HIDE DEF n
<1>3. t = SubSeq(s, 1, n - 1) \o <<x>> \o SubSeq(s, n, Len(s))
  BY ONLY <1>1, <1>2, InsertedSeq, s \in Seq(Value), t \in Seq(Value), x \in Value,
     Len(t) = Len(s) + 1
<1>4. SubSeq(t, 1, Len(s)) = s
  <2> DEFINE u == SubSeq(t, 1, Len(s))
  <2>1. u \in Seq(Value) /\ Len(u) = Len(s) /\ \A j \in 1 .. Len(s) : u[j] = t[j]
    OBVIOUS
  <2>2. \A j \in 1 .. Len(s) : j \in 1 .. Len(s) + 1 /\ j # Len(s) + 1
    OBVIOUS
  <2> HIDE DEF u
  <2>3. \A j \in 1 .. Len(s) : u[j] = s[j]
    BY <2>1, <2>2
  <2>4. u = s
    BY ONLY <2>1, <2>3, SeqEqual, s \in Seq(Value)
  <2> QED
    BY <2>4 DEF u
<1> QED
  BY ONLY <1>1, <1>3, <1>4

LEMMA ListPopped ==
  ASSUME NEW s \in Seq(Value), NEW t \in Seq(Value), Len(s) > 0, Len(t) = Len(s) - 1,
         \A j \in 1 .. Len(s) - 1 : t[j] = s[j + 1]
  PROVE  /\ 1 \in 1 .. Len(s) /\ t = SubSeq(s, 1, 1 - 1) \o SubSeq(s, 1 + 1, Len(s))
         /\ t = Tail(s)
<1>1. 1 \in 1 .. Len(s)
  OBVIOUS
<1>2. \A j \in 1 .. Len(s) - 1 : t[j] = IF j < 1 THEN s[j] ELSE s[j + 1]
  OBVIOUS
<1>3. t = SubSeq(s, 1, 1 - 1) \o SubSeq(s, 1 + 1, Len(s))
  BY ONLY <1>1, <1>2, RemovedSeq, s \in Seq(Value), t \in Seq(Value), Len(t) = Len(s) - 1
<1>4. /\ Tail(s) \in Seq(Value) /\ Len(Tail(s)) = Len(s) - 1
      /\ \A j \in 1 .. Len(s) - 1 : Tail(s)[j] = s[j + 1]
  OBVIOUS
<1>5. \A j \in 1 .. Len(s) - 1 : t[j] = Tail(s)[j]
  BY ONLY <1>4, \A j \in 1 .. Len(s) - 1 : t[j] = s[j + 1]
<1>6. t = Tail(s)
  BY ONLY <1>4, <1>5, SeqEqual, t \in Seq(Value), Len(t) = Len(s) - 1
<1> QED
  BY ONLY <1>1, <1>3, <1>6

-----------------------------------------------------------------------------
(* Each call of a queue and of a stack is an operation of the sequence. *)

\* The list after a step to a chain q of n blocks.
LEMMA ChainAfter ==
  ASSUME ParametersOK, InChain, class' = class, NEW n \in Nat, NEW q,
         Chain(heap', head', n, q), size' = n,
         (class = "queue") => tail' = IF n = 0 THEN None ELSE q[n]
  PROVE  ChainInv' /\ Reads(heap', q, n, List')
<1>1. ChainInv'
  <2>1. Linked(q)'
    BY DEF Linked, Chain, Value
  <2> QED
    BY <2>1 DEF ChainInv
<1>2. List' = Chains!Values(heap', head')
  BY ChainLists DEF InChain
<1>3. Reads(heap', q, n, Chains!Values(heap', head'))
  BY ONLY ParametersOK, n \in Nat, Chain(heap', head', n, q), ChainSeq
<1> QED
  BY ONLY <1>1, <1>2, <1>3

LEMMA ChainInserts ==
  ASSUME NEW x, live' = live, cleaned' = <<>>, got' = None,
         \E i \in 1 .. Len(List) + 1 :
           List' = SubSeq(List, 1, i - 1) \o <<x>> \o SubSeq(List, i, Len(List))
  PROVE  Abs!Insert(x)
<1>1. \E g \in {None, x} : Abs!Outcome(Abs!NoElements, g)
  BY DEF Abs!Outcome, Abs!NoElements
<1> QED
  BY ONLY <1>1, \E i \in 1 .. Len(List) + 1 :
           List' = SubSeq(List, 1, i - 1) \o <<x>> \o SubSeq(List, i, Len(List))
     DEF Abs!Insert

LEMMA QueueAdd ==
  ASSUME ChainInv, ParametersOK, class = "queue", class' = class,
         NEW x \in (Elem \ HeapStored) \cup {None}, Queue!Add(x)
  PROVE  ChainInv' /\ live' = live /\ Abs!Insert(x) /\ Queue!FifoStep
<1>1. PICK p : Linked(p)
  BY DEF ChainInv
<1>2. size \in Nat /\ Chain(heap, head, size, p) /\ tail = (IF size = 0 THEN None ELSE p[size])
  BY <1>1 DEF ChainInv, Linked
<1>3. PICK b \in Node \ DOMAIN heap :
        /\ heap' = AddedHeap(heap, tail, b, x)
        /\ size' = size + 1 /\ head' = (IF tail = None THEN b ELSE head) /\ tail' = b
        /\ cleaned' = <<>> /\ got' = None /\ live' = live
  BY DEF Queue!Add, Queue!LinkedAtTail, Queue!Returns, AddedHeap
<1> DEFINE q == AddedOrder(p, size, b)
<1>4. x \in Value /\ InChain
  BY DEF Value, InChain
<1>5. /\ Chain(heap', head', size + 1, q) /\ q[size + 1] = b
      /\ \A i \in 1 .. size + 1 : heap'[q[i]].value = IF i = size + 1 THEN x ELSE heap[p[i]].value
  <2>1. /\ Chain(heap', IF tail = None THEN b ELSE head, size + 1, q) /\ q[size + 1] = b
        /\ Appends(heap, p, size, x, heap', q)
    <3> HIDE DEF q
    <3>1. q = AddedOrder(p, size, b)
      BY DEF q
    <3> QED
      BY ONLY <1>2, <1>3, <1>4, <3>1, ParametersOK, ChainAdd
  <2> HIDE DEF q
  <2> QED
    BY ONLY <1>3, <2>1 DEF Appends
<1> HIDE DEF q
<1>6. ChainInv' /\ Reads(heap', q, size + 1, List')
  <2>1. size + 1 \in Nat /\ size + 1 # 0
    BY <1>2
  <2> QED
    BY ONLY <1>3, <1>4, <1>5, <2>1, ParametersOK, class' = class, ChainAfter
<1>7. /\ List \in Seq(Value) /\ Len(List) = size
      /\ \A i \in 1 .. size : List[i] = heap[p[i]].value
  BY ONLY <1>1, <1>2, <1>4, ParametersOK, ChainHeld
<1>8. /\ List' \in Seq(Value) /\ Len(List') = Len(List) + 1
      /\ \A j \in 1 .. Len(List) + 1 : List'[j] = IF j = Len(List) + 1 THEN x ELSE List[j]
  <2>1. \A j \in 1 .. size + 1 : j # size + 1 => j \in 1 .. size
    BY <1>2
  <2> QED
    BY ONLY <1>5, <1>6, <1>7, <2>1 DEF Reads
<1>9. /\ \E i \in 1 .. Len(List) + 1 :
           List' = SubSeq(List, 1, i - 1) \o <<x>> \o SubSeq(List, i, Len(List))
      /\ SubSeq(List', 1, Len(List)) = List
  BY ONLY <1>4, <1>7, <1>8, ListAdded
<1>10. Abs!Insert(x)
  BY ONLY <1>3, <1>9, ChainInserts
<1>11. Queue!FifoStep
  <2>1. Queue!Contents = List /\ Queue!Contents' = List'
    BY <1>4, ChainLists DEF InChain
  <2>2. ~(size' < size)
    BY <1>2, <1>3
  <2> QED
    BY ONLY <1>3, <1>7, <1>8, <1>9, <2>1, <2>2 DEF Queue!FifoStep
<1> QED
  BY ONLY <1>3, <1>6, <1>10, <1>11

\* A chain without its first block: for both kinds.
LEMMA ChainTakes ==
  ASSUME ParametersOK, InChain, class' = class, live' = live, size > 0, size \in Nat,
         NEW p, Chain(heap, head, size, p), class = "queue" => tail = p[size],
         head' = heap[head].next, size' = size - 1, heap' = PoppedHeap(heap, head),
         class = "queue" => tail' = IF heap[head].next = None THEN None ELSE tail,
         cleaned' = <<>>, got' = heap[head].value
  PROVE  ChainInv' /\ Abs!Take /\ Len(List) = size /\ got' = List[1] /\ List' = Tail(List)
<1> DEFINE q == PoppedOrder(p, size)
<1>1. q = PoppedOrder(p, size) /\ size - 1 \in Nat
  OBVIOUS
<1>2. q = [i \in 1 .. size - 1 |-> p[i + 1]]
  BY DEF PoppedOrder
<1> HIDE DEF q
<1>3. /\ Chain(heap', head', size - 1, q) /\ head = p[1] /\ head \in DOMAIN heap
      /\ heap[head].next = None <=> size = 1
      /\ Drops(heap, p, size, heap', q)
  BY ONLY ParametersOK, size \in Nat, size > 0, Chain(heap, head, size, p), <1>1,
     heap' = PoppedHeap(heap, head), head' = heap[head].next, ChainPop
<1>4. class = "queue" => tail' = IF size - 1 = 0 THEN None ELSE q[size - 1]
  <2>1. size # 1 => size - 1 \in 1 .. size - 1 /\ size - 1 + 1 = size /\ size - 1 # 0
    OBVIOUS
  <2>2. size # 1 => q[size - 1] = p[size]
    BY ONLY <1>2, <2>1
  <2> QED
    BY ONLY <1>3, <2>1, <2>2, class = "queue" => tail = p[size],
       class = "queue" => tail' = IF heap[head].next = None THEN None ELSE tail
<1>5. ChainInv' /\ Reads(heap', q, size - 1, List')
  BY ONLY ParametersOK, InChain, class' = class, <1>1, <1>3, <1>4, size' = size - 1, ChainAfter
<1>6. /\ List \in Seq(Value) /\ Len(List) = size
      /\ \A i \in 1 .. size : List[i] = heap[p[i]].value
  <2>1. Linked(p)
    BY DEF Linked
  <2> QED
    BY ONLY <2>1, ParametersOK, InChain, size \in Nat, ChainHeld
<1>7. /\ List' \in Seq(Value) /\ Len(List') = Len(List) - 1 /\ Len(List) > 0
      /\ \A j \in 1 .. Len(List) - 1 : List'[j] = List[j + 1]
  <2>1. \A j \in 1 .. size - 1 : j + 1 \in 1 .. size
    OBVIOUS
  <2> QED
    BY ONLY <1>3, <1>5, <1>6, <2>1, size > 0 DEF Reads, Drops
<1>8. /\ 1 \in 1 .. Len(List) /\ List' = SubSeq(List, 1, 1 - 1) \o SubSeq(List, 1 + 1, Len(List))
      /\ List' = Tail(List)
  BY ONLY <1>6, <1>7, ListPopped
<1>9. got' = List[1]
  BY ONLY <1>3, <1>6, <1>8, got' = heap[head].value
<1>10. Abs!Take
  <2>1. List' = Abs!RemovedAt(1)
    BY ONLY <1>8 DEF Abs!RemovedAt
  <2>2. Abs!Outcome(Abs!NoElements, List[1])
    BY <1>9 DEF Abs!Outcome, Abs!NoElements
  <2> QED
    BY ONLY <1>8, <2>1, <2>2 DEF Abs!Take
<1> QED
  BY ONLY <1>5, <1>6, <1>8, <1>9, <1>10

LEMMA ChainLook ==
  ASSUME ParametersOK, ChainInv, InChain, class' = class, live' = live,
         heap' = heap, head' = head, tail' = tail, size' = size,
         cleaned' = <<>>, got' = IF size = 0 THEN None ELSE heap[head].value
  PROVE  ChainInv' /\ Abs!Look
<1>1. PICK p : Linked(p)
  BY DEF ChainInv
<1>2. ChainInv'
  BY DEF ChainInv, Linked, Chain, Value
<1>3. List' = List
  BY ChainLists DEF InChain
<1>4. Abs!Held = HeapStored /\ size \in Nat
  BY <1>1, ChainHeld DEF ChainInv
<1>5. got' \in HeapStored \cup {None}
  <2>1. CASE size = 0
    BY <2>1
  <2>2. CASE size # 0
    <3>1. 1 \in 1 .. size
      BY <1>4, <2>2
    <3>2. head \in DOMAIN heap
      BY ONLY <1>1, <2>2, <3>1 DEF Linked, Chain
    <3> QED
      BY <2>2, <3>2 DEF HeapStored
  <2> QED
    BY <2>1, <2>2
<1>6. Abs!Look
  <2>1. Abs!Outcome(Abs!NoElements, got')
    BY DEF Abs!Outcome, Abs!NoElements
  <2> QED
    BY ONLY <1>3, <1>4, <1>5, <2>1 DEF Abs!Look
<1> QED
  BY ONLY <1>2, <1>6

\* Clearing frees every block: the walk from the head meets them all.
LEMMA ChainClears ==
  ASSUME ParametersOK, ChainInv, InChain, class' = class,
         heap' = [m \in DOMAIN heap \ {Chains!Visits(heap, head)[k] :
                                         k \in Chains!Reached(heap, head)} |-> heap[m]],
         head' = None, size' = 0, class = "queue" => tail' = None,
         cleaned' = Chains!Values(heap, head), got' = None
  PROVE  ChainInv' /\ Abs!Clear
<1>1. PICK p : Linked(p)
  BY DEF ChainInv
<1>2. Chain(heap, head, size, p) /\ size \in Nat
  BY <1>1 DEF Linked, ChainInv
<1>3. Walked(heap, head, size, p)
  BY ONLY <1>2, ParametersOK, ChainWalked
<1>4. DOMAIN heap' = {}
  BY <1>3 DEF Walked
<1>5. Chain(heap', head', 0, <<>>)
  BY <1>4 DEF Chain
<1>6. ChainInv' /\ Reads(heap', <<>>, 0, List')
  <2>1. 0 \in Nat /\ (class = "queue" => tail' = IF 0 = 0 THEN None ELSE <<>>[0])
    OBVIOUS
  <2> QED
    BY ONLY <1>5, <2>1, ParametersOK, InChain, class' = class, size' = 0, ChainAfter
<1>7. List' = <<>>
  BY ONLY <1>6 DEF Reads
<1>8. cleaned' = List
  BY ChainLists
<1> QED
  BY <1>6, <1>7, <1>8 DEF Abs!Clear, Abs!Outcome

\* The values a queue and a stack hold.
LEMMA ChainStored == Queue!Stored = HeapStored /\ Stack!Stored = HeapStored
BY DEF Queue!Stored, Stack!Stored, HeapStored

LEMMA QueueStep ==
  ASSUME ChainInv, ParametersOK, QueueNext
  PROVE  ChainInv' /\ Abs!Next /\ Queue!FifoStep
<1>1. class = "queue" /\ class' = class /\ live /\ InChain
  BY DEF QueueNext, Queue!Next, InChain
<1>2. PICK p : Linked(p)
  BY DEF ChainInv
<1>3. size \in Nat /\ Chain(heap, head, size, p) /\ tail = (IF size = 0 THEN None ELSE p[size])
  BY <1>1, <1>2 DEF ChainInv, Linked
<1>4. Abs!Held = HeapStored
  BY ONLY <1>1, <1>2, <1>3, ParametersOK, ChainHeld
<1>5. /\ Queue!Contents = List /\ Queue!Contents' = List'
      /\ Queue!Contents = Chains!Values(heap, head)
      /\ Queue!Visit = Chains!Visits(heap, head) /\ Queue!Reach = Chains!Reached(heap, head)
  BY <1>1, ChainLists, ChainOperators DEF InChain
<1>6. CASE \E x \in (Elem \ Queue!Stored) \cup {None} : Queue!Add(x)
  <2>1. PICK x \in (Elem \ HeapStored) \cup {None} : Queue!Add(x)
    BY <1>6, ChainStored
  <2>2. ChainInv' /\ live' = live /\ Abs!Insert(x) /\ Queue!FifoStep
    BY ONLY <1>1, <2>1, ChainInv, ParametersOK, QueueAdd
  <2> QED
    BY ONLY <1>1, <1>4, <2>1, <2>2 DEF Abs!Next
<1>7. CASE Queue!Remove
  <2>1. /\ head' = heap[head].next /\ size' = size - 1 /\ heap' = PoppedHeap(heap, head)
        /\ tail' = (IF heap[head].next = None THEN None ELSE tail)
        /\ cleaned' = <<>> /\ got' = heap[head].value /\ live' = live /\ size > 0
    BY <1>7 DEF Queue!Remove, Queue!TailAfter, Queue!Returns, PoppedHeap
  <2>2. tail = p[size]
    BY ONLY <1>3, <2>1
  <2>3. ChainInv' /\ Abs!Take /\ Len(List) = size /\ got' = List[1] /\ List' = Tail(List)
    BY ONLY <1>1, <1>3, <2>1, <2>2, ParametersOK, ChainTakes
  <2>4. Queue!FifoStep
    <3>1. ~(size' > size)
      BY <1>3, <2>1
    <3> QED
      BY ONLY <1>5, <2>3, <3>1 DEF Queue!FifoStep
  <2> QED
    BY ONLY <1>1, <2>1, <2>3, <2>4 DEF Abs!Next
<1>8. CASE Queue!Peek
  <2>1. /\ live' = live /\ heap' = heap /\ head' = head /\ tail' = tail /\ size' = size
        /\ cleaned' = <<>> /\ got' = IF size = 0 THEN None ELSE heap[head].value
    BY <1>8 DEF Queue!Peek, Queue!Returns
  <2>2. ChainInv' /\ Abs!Look
    BY ONLY <1>1, <2>1, ChainInv, ParametersOK, ChainLook
  <2>3. Queue!FifoStep
    <3>1. ~(size' > size) /\ ~(size' < size)
      BY <1>3, <2>1
    <3> QED
      BY ONLY <3>1 DEF Queue!FifoStep
  <2> QED
    BY ONLY <1>1, <2>1, <2>2, <2>3 DEF Abs!Next
<1>9. CASE Queue!Clear \/ Queue!Free
  <2>1. /\ heap' = [m \in DOMAIN heap \ {Chains!Visits(heap, head)[k] :
                                         k \in Chains!Reached(heap, head)} |-> heap[m]]
        /\ head' = None /\ size' = 0 /\ tail' = None
        /\ cleaned' = Chains!Values(heap, head) /\ got' = None
        /\ live' = live \/ live' = FALSE
    BY <1>5, <1>9 DEF Queue!Clear, Queue!Free, Queue!Emptied, Queue!Returns
  <2>2. ChainInv' /\ Abs!Clear
    BY ONLY <1>1, <2>1, ChainInv, ParametersOK, ChainClears
  <2>3. Queue!FifoStep
    <3>1. ~(size' > size)
      BY <1>3, <2>1
    <3> QED
      BY ONLY <2>1, <3>1 DEF Queue!FifoStep
  <2> QED
    BY ONLY <1>1, <2>1, <2>2, <2>3 DEF Abs!Next
<1> QED
  BY ONLY <1>6, <1>7, <1>8, <1>9, QueueNext DEF QueueNext, Queue!Next

LEMMA StackPush ==
  ASSUME ChainInv, ParametersOK, class = "stack", class' = class,
         NEW x \in (Elem \ HeapStored) \cup {None}, Stack!Push(x)
  PROVE  ChainInv' /\ live' = live /\ Abs!Insert(x) /\ Stack!LifoStep
<1>1. PICK p : Linked(p)
  BY DEF ChainInv
<1>2. size \in Nat /\ Chain(heap, head, size, p)
  BY <1>1 DEF ChainInv, Linked
<1>3. PICK b \in Node \ DOMAIN heap :
        /\ heap' = PushedHeap(heap, head, b, x)
        /\ size' = size + 1 /\ head' = b
        /\ cleaned' = <<>> /\ got' = None /\ live' = live
  BY DEF Stack!Push, Stack!OldHead, Stack!Returns, PushedHeap
<1> DEFINE q == PushedOrder(p, size, b)
<1>4. x \in Value /\ InChain /\ q = PushedOrder(p, size, b)
  BY DEF Value, InChain
<1> HIDE DEF q
<1>5. Chain(heap', head', size + 1, q) /\ Prepends(heap, p, size, x, heap', q)
  <2>1. Chain(heap', b, size + 1, q) /\ Prepends(heap, p, size, x, heap', q)
    BY ONLY <1>2, <1>3, <1>4, ParametersOK, ChainPush
  <2> QED
    BY ONLY <1>3, <2>1
<1>6. ChainInv' /\ Reads(heap', q, size + 1, List')
  <2>1. size + 1 \in Nat /\ (class = "queue" => tail' = IF size + 1 = 0 THEN None ELSE q[size + 1])
    BY <1>2
  <2> QED
    BY ONLY <1>3, <1>4, <1>5, <2>1, ParametersOK, class' = class, ChainAfter
<1>7. /\ List \in Seq(Value) /\ Len(List) = size
      /\ \A i \in 1 .. size : List[i] = heap[p[i]].value
  BY ONLY <1>1, <1>2, <1>4, ParametersOK, ChainHeld
<1>8. /\ List' \in Seq(Value) /\ Len(List') = Len(List) + 1
      /\ \A j \in 1 .. Len(List) + 1 : List'[j] = IF j = 1 THEN x ELSE List[j - 1]
  <2>1. \A j \in 1 .. size + 1 : j # 1 => j - 1 \in 1 .. size
    BY <1>2
  <2> QED
    BY ONLY SMTT(20), <1>5, <1>6, <1>7, <2>1 DEF Reads, Prepends
<1>9. /\ \E i \in 1 .. Len(List) + 1 :
           List' = SubSeq(List, 1, i - 1) \o <<x>> \o SubSeq(List, i, Len(List))
      /\ Tail(List') = List
  BY ONLY <1>4, <1>7, <1>8, ListPushed
<1>10. Abs!Insert(x)
  BY ONLY <1>3, <1>9, ChainInserts
<1>11. Stack!LifoStep
  <2>1. Stack!Contents = List /\ Stack!Contents' = List'
    BY <1>4, ChainLists DEF InChain
  <2>2. ~(size' < size)
    BY <1>2, <1>3
  <2> QED
    BY ONLY <1>9, <2>1, <2>2 DEF Stack!LifoStep
<1> QED
  BY ONLY <1>3, <1>6, <1>10, <1>11

LEMMA StackStep ==
  ASSUME ChainInv, ParametersOK, StackNext
  PROVE  ChainInv' /\ Abs!Next /\ Stack!LifoStep
<1>1. class = "stack" /\ class' = class /\ live /\ InChain /\ tail' = tail
  BY DEF StackNext, Stack!Next, InChain
<1>2. PICK p : Linked(p)
  BY DEF ChainInv
<1>3. size \in Nat /\ Chain(heap, head, size, p) /\ class # "queue"
  BY <1>1, <1>2 DEF ChainInv, Linked
<1>4. Abs!Held = HeapStored
  BY ONLY <1>1, <1>2, <1>3, ParametersOK, ChainHeld
<1>5. /\ Stack!Contents = List /\ Stack!Contents' = List'
      /\ Stack!Contents = Chains!Values(heap, head)
      /\ Stack!Visit = Chains!Visits(heap, head) /\ Stack!Reach = Chains!Reached(heap, head)
  BY <1>1, ChainLists, ChainOperators DEF InChain
<1>6. CASE \E x \in (Elem \ Stack!Stored) \cup {None} : Stack!Push(x)
  <2>1. PICK x \in (Elem \ HeapStored) \cup {None} : Stack!Push(x)
    BY <1>6, ChainStored
  <2>2. ChainInv' /\ live' = live /\ Abs!Insert(x) /\ Stack!LifoStep
    BY ONLY <1>1, <2>1, ChainInv, ParametersOK, StackPush
  <2> QED
    BY ONLY <1>1, <1>4, <2>1, <2>2 DEF Abs!Next
<1>7. CASE Stack!Pop
  <2>1. /\ head' = heap[head].next /\ size' = size - 1 /\ heap' = PoppedHeap(heap, head)
        /\ cleaned' = <<>> /\ got' = heap[head].value /\ live' = live /\ size > 0
    BY <1>7 DEF Stack!Pop, Stack!Returns, PoppedHeap
  <2>2. /\ class = "queue" => tail = p[size]
        /\ class = "queue" => tail' = IF heap[head].next = None THEN None ELSE tail
    BY ONLY <1>3
  <2>3. ChainInv' /\ Abs!Take /\ Len(List) = size /\ got' = List[1] /\ List' = Tail(List)
    BY ONLY <1>1, <1>3, <2>1, <2>2, ParametersOK, ChainTakes
  <2>4. Stack!LifoStep
    <3>1. ~(size' > size)
      BY <1>3, <2>1
    <3> QED
      BY ONLY <1>5, <2>3, <3>1 DEF Stack!LifoStep
  <2> QED
    BY ONLY <1>1, <2>1, <2>3, <2>4 DEF Abs!Next
<1>8. CASE Stack!Peek
  <2>1. /\ live' = live /\ heap' = heap /\ head' = head /\ size' = size
        /\ cleaned' = <<>> /\ got' = IF size = 0 THEN None ELSE heap[head].value
    BY <1>8 DEF Stack!Peek, Stack!Returns
  <2>2. ChainInv' /\ Abs!Look
    BY ONLY <1>1, <2>1, ChainInv, ParametersOK, ChainLook
  <2>3. Stack!LifoStep
    <3>1. ~(size' > size) /\ ~(size' < size)
      BY <1>3, <2>1
    <3> QED
      BY ONLY <3>1 DEF Stack!LifoStep
  <2> QED
    BY ONLY <1>1, <2>1, <2>2, <2>3 DEF Abs!Next
<1>9. CASE Stack!Clear \/ Stack!Free
  <2>1. /\ heap' = [m \in DOMAIN heap \ {Chains!Visits(heap, head)[k] :
                                         k \in Chains!Reached(heap, head)} |-> heap[m]]
        /\ head' = None /\ size' = 0
        /\ cleaned' = Chains!Values(heap, head) /\ got' = None
        /\ live' = live \/ live' = FALSE
    BY <1>5, <1>9 DEF Stack!Clear, Stack!Free, Stack!Emptied, Stack!Returns
  <2>2. ChainInv' /\ Abs!Clear
    BY ONLY <1>1, <1>3, <2>1, ChainInv, ParametersOK, ChainClears
  <2>3. Stack!LifoStep
    <3>1. ~(size' > size)
      BY <1>3, <2>1
    <3> QED
      BY ONLY <2>1, <3>1 DEF Stack!LifoStep
  <2> QED
    BY ONLY <1>1, <2>1, <2>2, <2>3 DEF Abs!Next
<1> QED
  BY ONLY <1>6, <1>7, <1>8, <1>9, StackNext DEF StackNext, Stack!Next

-----------------------------------------------------------------------------
(* The container as a whole. *)

KindOK == class \in {"array", "vector", "queue", "stack"}

\* The links need nothing of the caller; the tables need the discipline of
\* pcl_array_set.
LinkedInv == KindOK /\ (InChain => ChainInv)

ContainerInv ==
  /\ LinkedInv
  /\ InTable => TableInv
  /\ class = "vector" => VectorBlock

LEMMA ContainerStarts ==
  ASSUME ParametersOK, ContainerInit
  PROVE  ContainerInv /\ Abs!Init
<1>1. CASE (class = "array" /\ Array!Init) \/ (class = "vector" /\ Vector!Init)
  <2>1. /\ InTable /\ ~InChain /\ live = TRUE /\ total = 0 /\ reserved \in Capacities
        /\ elements = [i \in 0 .. reserved - 1 |-> None] /\ cleaned = <<>> /\ got = None
    BY <1>1, TableOperators DEF Array!Init, Vector!Init, InTable, InChain
  <2>2. reserved \in 0 .. MaxCapacity /\ MaxCapacity \in Nat
    BY <2>1 DEF ParametersOK
  <2>3. TableInv
    BY ONLY <2>1, <2>2 DEF TableInv, TableTypes, TableOnce, Value
  <2>4. Table(0, elements) = <<>>
    BY DEF Table
  <2>5. Abs!Init
    BY ONLY <2>1, <2>4, TableList DEF Abs!Init
  <2>6. class = "vector" => VectorBlock
    <3> SUFFICES ASSUME class = "vector" PROVE VectorBlock
      OBVIOUS
    <3>1. exited = FALSE /\ block = IF reserved = 0 THEN "garbage" ELSE "block"
      BY <1>1 DEF Vector!Init
    <3>2. reserved > 0 => reserved # 0
      BY ONLY <2>2
    <3>3. exited \in BOOLEAN
      BY ONLY <3>1
    <3> QED
      BY ONLY <3>1, <3>2, <3>3 DEF VectorBlock
  <2> QED
    BY <1>1, <2>1, <2>3, <2>5, <2>6 DEF ContainerInv, LinkedInv, KindOK
<1>2. CASE (class = "queue" /\ Queue!Init) \/ (class = "stack" /\ Stack!Init /\ tail = None)
  <2>1. /\ InChain /\ ~InTable /\ live = TRUE /\ heap = <<>> /\ head = None /\ tail = None
        /\ size = 0 /\ cleaned = <<>> /\ got = None /\ class # "vector" /\ KindOK
    BY <1>2 DEF Queue!Init, Stack!Init, InTable, InChain, KindOK
  <2>2. DOMAIN heap = {} /\ DOMAIN <<>> = {} /\ 1 .. 0 = {} /\ 0 \in Nat
    BY ONLY <2>1
  <2>3. Chain(heap, head, 0, <<>>)
    BY ONLY <2>1, <2>2 DEF Chain
  <2>4. Linked(<<>>) /\ ChainInv
    BY ONLY <2>1, <2>2, <2>3 DEF Linked, ChainInv
  <2>5. List \in Seq(Value) /\ Len(List) = 0
    BY ONLY <2>1, <2>2, <2>4, ParametersOK, ChainHeld
  <2>6. Abs!Init
    BY ONLY <2>1, <2>5 DEF Abs!Init
  <2> QED
    BY ONLY <2>1, <2>4, <2>6 DEF ContainerInv, LinkedInv
<1>3. \/ (class = "array" /\ Array!Init) \/ (class = "vector" /\ Vector!Init)
      \/ (class = "queue" /\ Queue!Init) \/ (class = "stack" /\ Stack!Init /\ tail = None)
  BY ONLY ContainerInit DEF ContainerInit
<1> QED
  BY ONLY <1>1, <1>2, <1>3

\* The links keep their shape, and serve in their order, whatever the caller does.
LEMMA LinkedStep ==
  ASSUME ParametersOK, LinkedInv, [ContainerNext]_containerVars
  PROVE  /\ LinkedInv'
         /\ [/\ class = "queue" => Queue!FifoStep
             /\ class = "stack" => Stack!LifoStep]_containerVars
<1>1. CASE UNCHANGED containerVars
  BY <1>1 DEF containerVars, listVars, LinkedInv, KindOK, InChain, ChainInv, Linked, Chain, Value
<1>2. CASE ArrayNext \/ VectorNext
  BY <1>2 DEF ArrayNext, VectorNext, LinkedInv, KindOK, InChain
<1>3. CASE QueueNext
  <2>1. class = "queue" /\ class' = class
    BY <1>3 DEF QueueNext
  <2>2. ChainInv' /\ Queue!FifoStep
    BY <1>3, <2>1, QueueStep DEF LinkedInv, InChain
  <2> QED
    BY ONLY <2>1, <2>2, LinkedInv DEF LinkedInv, KindOK
<1>4. CASE StackNext
  <2>1. class = "stack" /\ class' = class
    BY <1>4 DEF StackNext
  <2>2. ChainInv' /\ Stack!LifoStep
    BY <1>4, <2>1, StackStep DEF LinkedInv, InChain
  <2> QED
    BY ONLY <2>1, <2>2, LinkedInv DEF LinkedInv, KindOK
<1> QED
  BY <1>1, <1>2, <1>3, <1>4 DEF ContainerNext

LEMMA ContainerStep ==
  ASSUME ParametersOK, ~SetsBeyond, ContainerInv, [ContainerNext]_containerVars
  PROVE  ContainerInv' /\ [Abs!Next]_(Abs!seqVars)
<1>1. LinkedInv'
  BY LinkedStep DEF ContainerInv
<1>2. CASE UNCHANGED containerVars
  <2>1. /\ class' = class /\ live' = live /\ cleaned' = cleaned /\ got' = got
        /\ total' = total /\ reserved' = reserved /\ elements' = elements
        /\ block' = block /\ exited' = exited
        /\ heap' = heap /\ head' = head
    BY <1>2 DEF containerVars, tableVars, blockVars, listVars
  <2>2. List' = List
    <3>1. InTable => List' = List
      BY ONLY <2>1, TableList DEF InTable
    <3>2. InChain => List' = List
      BY ONLY <2>1, ChainLists DEF InChain
    <3> QED
      BY ONLY <3>1, <3>2, ContainerInv DEF ContainerInv, LinkedInv, KindOK, InTable, InChain
  <2>3. (InTable => TableInv)' /\ (class = "vector" => VectorBlock)'
    BY ONLY <2>1, ContainerInv
       DEF ContainerInv, InTable, TableInv, TableTypes, TableOnce, VectorBlock, Value
  <2> QED
    BY ONLY <1>1, <2>1, <2>2, <2>3 DEF ContainerInv, Abs!seqVars
<1>3. CASE ArrayNext
  <2>1. class = "array" /\ class' = class /\ InTable
    BY <1>3 DEF ArrayNext, InTable
  <2>2. TableInv' /\ Abs!Next
    BY <1>3, <2>1, ArrayStep DEF ContainerInv
  <2> QED
    BY ONLY <1>1, <2>1, <2>2 DEF ContainerInv
<1>4. CASE VectorNext
  <2>1. class = "vector" /\ class' = class /\ InTable
    BY <1>4 DEF VectorNext, InTable
  <2>2. TableInv' /\ VectorBlock' /\ [Abs!Next]_(Abs!seqVars)
    BY ONLY <1>4, <2>1, ParametersOK, ContainerInv, VectorStep DEF ContainerInv
  <2> QED
    BY ONLY <1>1, <2>1, <2>2 DEF ContainerInv
<1>5. CASE QueueNext \/ StackNext
  <2>1. InChain /\ class' = class /\ ~InTable /\ class # "vector"
    BY <1>5 DEF QueueNext, StackNext, InChain, InTable
  <2>2. ChainInv
    BY ONLY <2>1, ContainerInv DEF ContainerInv, LinkedInv
  <2>3. Abs!Next
    BY ONLY <1>5, <2>2, ParametersOK, QueueStep, StackStep
  <2> QED
    BY ONLY <1>1, <2>1, <2>3 DEF ContainerInv, InTable
<1> QED
  BY ONLY <1>2, <1>3, <1>4, <1>5, [ContainerNext]_containerVars DEF ContainerNext

\* The links of a queue and a stack have their shape, for every parameter.
THEOREM LinkedInvariant ==
  ASSUME ParametersOK
  PROVE  ContainerSpec => []LinkedInv
<1>1. ContainerInit => LinkedInv
  BY ContainerStarts DEF ContainerInv
<1>2. LinkedInv /\ [ContainerNext]_containerVars => LinkedInv'
  BY LinkedStep
<1> QED
  BY <1>1, <1>2, PTL DEF ContainerSpec

\* The fields of every container are within their types and bounds, and the
\* links have their shape, as long as pcl_array_set keeps to vacant slots.
THEOREM ContainersInvariant ==
  ASSUME ParametersOK, ~SetsBeyond
  PROVE  ContainerSpec => [](ContainerInv /\ ContainersOK)
<1>1. ContainerInit => ContainerInv
  BY ContainerStarts
<1>2. ContainerInv /\ [ContainerNext]_containerVars => ContainerInv'
  BY ContainerStep
<1>3. ContainerInv => ContainersOK
  <2> SUFFICES ASSUME ContainerInv PROVE ContainersOK
    OBVIOUS
  <2>1. class = "array" => Array!TypeOK
    BY TableOperators DEF ContainerInv, InTable, TableInv, TableTypes, Array!TypeOK, Value
  <2>2. class = "vector" => Vector!TypeOK
    BY TableOperators DEF ContainerInv, InTable, TableInv, TableTypes, VectorBlock,
                          Vector!TypeOK, Value
  <2>3. class \in {"queue", "stack"} => ChainInv
    BY DEF ContainerInv, LinkedInv, InChain
  <2> QED
    BY ONLY <2>1, <2>2, <2>3, ParametersOK, ChainShape DEF ContainersOK
<1> QED
  BY <1>1, <1>2, <1>3, PTL DEF ContainerSpec

\* Whichever container it is, it implements the sequence that owns its elements.
THEOREM ContainersOwn ==
  ASSUME ParametersOK, ~SetsBeyond
  PROVE  ContainerSpec => ImplementsOwnedSeq
<1>1. ContainerInit => ContainerInv /\ Abs!Init
  BY ContainerStarts
<1>2. ContainerInv /\ [ContainerNext]_containerVars => ContainerInv' /\ [Abs!Next]_(Abs!seqVars)
  BY ContainerStep
<1> QED
  BY <1>1, <1>2, PTL DEF ContainerSpec, ImplementsOwnedSeq, Abs!Spec

\* A queue serves the oldest element, a stack the newest.
THEOREM ContainersServe ==
  ASSUME ParametersOK
  PROVE  ContainerSpec => ServedInOrder
<1>1. ContainerInit => LinkedInv
  BY ContainerStarts DEF ContainerInv
<1>2. LinkedInv /\ [ContainerNext]_containerVars => LinkedInv'
  BY LinkedStep
<1>3. LinkedInv /\ [ContainerNext]_containerVars =>
        [/\ class = "queue" => Queue!FifoStep
         /\ class = "stack" => Stack!LifoStep]_containerVars
  BY LinkedStep
<1> QED
  BY <1>1, <1>2, <1>3, PTL DEF ContainerSpec, ServedInOrder
=============================================================================
