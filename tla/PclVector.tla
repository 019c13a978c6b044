----------------------------- MODULE PclVector -----------------------------
(***************************************************************************)
(* pcl_vector_t (src/vector): elements stored by value in one block.  An   *)
(* element stands for the resources inside it, which the cleanup handler   *)
(* releases; NULL is the zeroed element.  The block pointer of a vector    *)
(* created with capacity 0 is not initialised, and realloc to 0 bytes is a *)
(* memory error: what follows may be the end of the process.               *)
(***************************************************************************)
EXTENDS Naturals, Integers, Sequences, FiniteSets

CONSTANTS
  Elem, NULL,
  Rank,          \* the order of the caller's comparator, a function on Elem
  Capacities,    \* initial capacities the caller asks for
  FirstCapacity, \* what an empty block grows to (8 in vector_insert.c)
  MaxCapacity    \* bound: the caller inserts only while this is not passed

VARIABLES
  live, count, capacity, elements, cleaned, got,
  block,         \* v->elems: "garbage", "NULL" or "block"
  exited         \* the process is gone: exit(1) of the memory handler, or a
                 \* realloc or free of an uninitialised pointer

vectorVars == <<live, count, capacity, elements, cleaned, got, block, exited>>

Slots == 0 .. capacity - 1
Stored == {elements[i] : i \in 0 .. count - 1} \ {NULL}
Storable == (Elem \ Stored) \cup {NULL}
Returns(c, g) == cleaned' = c /\ got' = g
Contents == [i \in 1 .. count |-> elements[i - 1]]

Init ==
  /\ live = TRUE /\ exited = FALSE
  /\ count = 0
  /\ capacity \in Capacities
  /\ block = IF capacity = 0 THEN "garbage" ELSE "block"
  /\ elements = [i \in Slots |-> NULL]
  /\ cleaned = <<>> /\ got = NULL

-----------------------------------------------------------------------------
GrownCapacity ==
  IF count < capacity THEN capacity
  ELSE IF capacity > 0 THEN 2 * capacity ELSE FirstCapacity

Inserted(x, i) == [j \in 0 .. GrownCapacity - 1 |->
  IF j < i THEN elements[j]
  ELSE IF j = i THEN x
  ELSE IF j <= count THEN elements[j - 1]
  ELSE IF j < capacity THEN elements[j] ELSE NULL]

Insert(x, i) ==
  /\ GrownCapacity <= MaxCapacity
  /\ capacity' = GrownCapacity
  /\ block' = "block"
  /\ elements' = Inserted(x, i)
  /\ count' = count + 1
  /\ Returns(<<>>, x)
  /\ UNCHANGED <<live, exited>>

\* A position above count: NULL, or -1 from a removal; nothing changes.
BadPosition ==
  /\ Returns(<<>>, NULL)
  /\ UNCHANGED <<live, count, capacity, elements, block, exited>>

CleansLast(i) == <<elements[count - 1]>>
CleansRemoved(i) == <<elements[i]>>

Remove(i) ==
  /\ elements' = [j \in Slots |->
       IF i <= j /\ j < count - 1 THEN elements[j + 1] ELSE elements[j]]
  /\ count' = count - 1
  /\ Returns(CleansRemoved(i), NULL)
  /\ UNCHANGED <<live, capacity, block, exited>>

GetSafe(i) ==
  /\ Returns(<<>>, elements[i])
  /\ UNCHANGED <<live, count, capacity, elements, block, exited>>

Clear ==
  /\ count' = 0
  /\ Returns(Contents, NULL)
  /\ UNCHANGED <<live, capacity, elements, block, exited>>

Compact ==
  /\ 0 < count /\ count < capacity
  /\ capacity' = count
  /\ elements' = [j \in 0 .. count - 1 |-> elements[j]]
  /\ Returns(<<>>, NULL)
  /\ UNCHANGED <<live, count, block, exited>>

\* realloc(p, 0) frees the block and returns NULL; pcl_realloc_trace calls the
\* memory handler, and the application's own handler may return.
CompactEmpty ==
  /\ count = 0 /\ count < capacity
  /\ capacity' = 0 /\ elements' = <<>> /\ block' = "NULL"
  /\ exited' \in BOOLEAN
  /\ Returns(<<>>, NULL)
  /\ UNCHANGED <<live, count>>

\* pcl_vector_insert or pcl_vector_free of an uninitialised block pointer that
\* is not NULL by chance.
UsesGarbage ==
  /\ block = "garbage"
  /\ exited' = TRUE
  /\ UNCHANGED <<live, count, capacity, elements, cleaned, got, block>>

Sort ==
  /\ NULL \notin {elements[i] : i \in 0 .. count - 1}
  /\ elements' = [j \in Slots |->
       IF j >= count THEN elements[j]
       ELSE CHOOSE x \in Stored :
              Cardinality({y \in Stored : Rank[y] < Rank[x]}) = j]
  /\ Returns(<<>>, NULL)
  /\ UNCHANGED <<live, count, capacity, block, exited>>

Free ==
  /\ live' = FALSE
  /\ count' = 0 /\ capacity' = 0 /\ elements' = <<>> /\ block' = "NULL"
  /\ Returns(Contents, NULL)
  /\ UNCHANGED exited

Next ==
  /\ live /\ ~exited
  /\ \/ \E x \in Storable, i \in 0 .. count : Insert(x, i)
     \/ \E i \in 0 .. count - 1 : Remove(i) \/ GetSafe(i)
     \/ BadPosition \/ Clear \/ Compact \/ CompactEmpty \/ UsesGarbage
     \/ Sort \/ Free

Spec == Init /\ [][Next]_vectorVars

-----------------------------------------------------------------------------
TypeOK ==
  /\ live \in BOOLEAN /\ exited \in BOOLEAN
  /\ capacity \in 0 .. MaxCapacity
  /\ count \in 0 .. capacity
  /\ elements \in [Slots -> Elem \cup {NULL}]
  /\ block \in {"garbage", "NULL", "block"}
  /\ capacity > 0 => block = "block"
=============================================================================
