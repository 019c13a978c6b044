------------------------------ MODULE PclArray ------------------------------
(***************************************************************************)
(* pcl_array_t (src/array): a table of pointers the array owns.  A pointer *)
(* the array has given up can come back: the allocator reuses it.          *)
(* Operations on a freed array are not modelled: the pointer is dead.      *)
(***************************************************************************)
EXTENDS Naturals, Integers, Sequences, FiniteSets

CONSTANTS
  Elem, NULL,
  Rank,          \* the order of the caller's comparator, a function on Elem
  Capacities,    \* initial capacities the caller asks for
  FirstCapacity, \* what an empty table grows to (8 in array_insert.c)
  MaxCapacity,   \* bound: the caller inserts only while this is not passed
  SetsBeyond     \* FALSE: pcl_array_set is not used on slots a removal vacated

VARIABLES live, count, capacity, elements, cleaned, got

arrayVars == <<live, count, capacity, elements, cleaned, got>>

Slots == 0 .. capacity - 1
Stored == {elements[i] : i \in 0 .. count - 1} \ {NULL}
Storable == (Elem \ Stored) \cup {NULL}

Init ==
  /\ live = TRUE
  /\ count = 0
  /\ capacity \in Capacities
  /\ elements = [i \in Slots |-> NULL]
  /\ cleaned = <<>> /\ got = NULL

Contents == [i \in 1 .. count |-> elements[i - 1]]
Returns(c, g) == cleaned' = c /\ got' = g

-----------------------------------------------------------------------------
GrownCapacity ==
  IF count < capacity THEN capacity
  ELSE IF capacity > 0 THEN 2 * capacity ELSE FirstCapacity

\* The table with x at index i, the rest of the elements moved up.
ForgetsToMove(x, i) == [j \in 0 .. GrownCapacity - 1 |->
  IF j = i THEN x ELSE IF j < count THEN elements[j] ELSE NULL]
Inserted(x, i) == [j \in 0 .. GrownCapacity - 1 |->
  IF j < i THEN elements[j]
  ELSE IF j = i THEN x
  ELSE IF j <= count THEN elements[j - 1]
  ELSE IF j < capacity THEN elements[j] ELSE NULL]

Insert(x, i) ==
  /\ GrownCapacity <= MaxCapacity
  /\ capacity' = GrownCapacity
  /\ elements' = Inserted(x, i)
  /\ count' = count + 1
  /\ Returns(<<>>, NULL)
  /\ UNCHANGED live

\* The elements above i move down; the slot the last one leaves keeps it.
MovesOneTooFew(i) == [j \in Slots |->
  IF i <= j /\ j < count - 2 THEN elements[j + 1] ELSE elements[j]]
Closed(i) == [j \in Slots |->
  IF i <= j /\ j < count - 1 THEN elements[j + 1] ELSE elements[j]]

\* An element that is not NULL goes to the cleanup handler.
Cleans(x) == IF x = NULL THEN <<>> ELSE <<x>>

Remove(i) ==
  /\ i \in 0 .. count - 1
  /\ elements' = Closed(i)
  /\ count' = count - 1
  /\ Returns(Cleans(elements[i]), NULL)
  /\ UNCHANGED <<live, capacity>>

SetCount(i) == IF count < i + 1 THEN i + 1 ELSE count

Set(x, i) ==
  /\ i \in Slots
  /\ SetsBeyond \/ \A j \in count .. i : elements[j] = NULL
  /\ elements' = [elements EXCEPT ![i] = x]
  /\ count' = SetCount(i)
  /\ Returns(Cleans(elements[i]), NULL)
  /\ UNCHANGED <<live, capacity>>

\* pcl_array_get, and pcl_array_indexof followed by it.
Get(i) ==
  /\ i \in 0 .. count - 1
  /\ Returns(<<>>, elements[i])
  /\ UNCHANGED <<live, count, capacity, elements>>

\* EINDEX, of a removal, a set or a get; nothing changes.
BadIndex ==
  /\ Returns(<<>>, NULL)
  /\ UNCHANGED <<live, count, capacity, elements>>

\* qsort over the first count slots.
Sort ==
  /\ NULL \notin {elements[i] : i \in 0 .. count - 1}
  /\ elements' = [j \in Slots |->
       IF j >= count THEN elements[j]
       ELSE CHOOSE x \in Stored :
              Cardinality({y \in Stored : Rank[y] < Rank[x]}) = j]
  /\ Returns(<<>>, NULL)
  /\ UNCHANGED <<live, count, capacity>>

\* pcl_array_free passes every element to the handler, NULL ones included.
Free ==
  /\ live' = FALSE
  /\ count' = 0 /\ capacity' = 0 /\ elements' = <<>>
  /\ Returns(Contents, NULL)

Next ==
  /\ live
  /\ \/ \E x \in Storable, i \in 0 .. count : Insert(x, i)
     \/ \E i \in 0 .. count - 1 : Remove(i) \/ Get(i)
     \/ \E x \in Storable, i \in Slots : Set(x, i)
     \/ BadIndex
     \/ Sort
     \/ Free

Spec == Init /\ [][Next]_arrayVars

-----------------------------------------------------------------------------
TypeOK ==
  /\ live \in BOOLEAN
  /\ capacity \in 0 .. MaxCapacity
  /\ count \in 0 .. capacity
  /\ elements \in [Slots -> Elem \cup {NULL}]
  /\ got \in Elem \cup {NULL}

\* "If setting an element past count, all elements between count and index
\* will be NULL" (include/pcl/array.h:134): only a set adds more than one.
PadsWithNullStep == \A j \in count .. count' - 2 : elements'[j] = NULL
=============================================================================
