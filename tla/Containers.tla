----------------------------- MODULE Containers -----------------------------
(***************************************************************************)
(* One container of one class - an array, a vector, a queue or a stack -   *)
(* under every sequence of calls.  The classes share the variables of      *)
(* their common fields (total and reserved are the count and the capacity  *)
(* of a table); a field the class does not have keeps its initial value.   *)
(***************************************************************************)
EXTENDS Integers, Sequences, FiniteSets

CONSTANTS Elem, None, Rank, Capacities, FirstCapacity, MaxCapacity, SetsBeyond, Node

VARIABLES class, live, cleaned, got,
          total, reserved, elements, block, exited, heap, head, tail, size

tableVars == <<total, reserved, elements>>
blockVars == <<block, exited>>
listVars == <<heap, head, tail, size>>
containerVars == <<class, live, cleaned, got, tableVars, blockVars, listVars>>

Array == INSTANCE PclArray WITH NULL <- None, count <- total, capacity <- reserved
Vector == INSTANCE PclVector WITH NULL <- None, count <- total, capacity <- reserved
Queue == INSTANCE PclQueue WITH NULL <- None
Stack == INSTANCE PclStack WITH NULL <- None

\* The caller's comparator tells any two elements apart, and no capacity it asks
\* for passes the bound.
ParametersOK ==
  /\ None \notin Elem \cup Node
  /\ Rank \in [Elem -> Nat] /\ \A x, y \in Elem : Rank[x] = Rank[y] => x = y
  /\ MaxCapacity \in Nat /\ Capacities \subseteq 0 .. MaxCapacity
  /\ FirstCapacity \in Nat \ {0}

-----------------------------------------------------------------------------
NoTable == total = 0 /\ reserved = 0 /\ elements = <<>>
NoBlock == block = "NULL" /\ exited = FALSE
NoList == heap = <<>> /\ head = None /\ tail = None /\ size = 0

ContainerInit ==
  \/ class = "array" /\ Array!Init /\ NoBlock /\ NoList
  \/ class = "vector" /\ Vector!Init /\ NoList
  \/ class = "queue" /\ Queue!Init /\ NoTable /\ NoBlock
  \/ class = "stack" /\ Stack!Init /\ NoTable /\ NoBlock /\ tail = None

ArrayNext == class = "array" /\ Array!Next /\ UNCHANGED <<class, blockVars, listVars>>
VectorNext == class = "vector" /\ Vector!Next /\ UNCHANGED <<class, listVars>>
QueueNext == class = "queue" /\ Queue!Next /\ UNCHANGED <<class, tableVars, blockVars>>
StackNext == class = "stack" /\ Stack!Next /\ UNCHANGED <<class, tableVars, blockVars, tail>>

ContainerNext == ArrayNext \/ VectorNext \/ QueueNext \/ StackNext

ContainerSpec == ContainerInit /\ [][ContainerNext]_containerVars

-----------------------------------------------------------------------------
\* The fields of an array and a vector have their types and their indices their
\* bounds; the links of a queue and a stack have their shape.
ContainersOK ==
  /\ class = "array" => Array!TypeOK
  /\ class = "vector" => Vector!TypeOK
  /\ class = "queue" => Queue!LinksOK
  /\ class = "stack" => Stack!LinksOK

List == CASE class = "array" -> Array!Contents
          [] class = "vector" -> Vector!Contents
          [] class = "queue" -> Queue!Contents
          [] class = "stack" -> Stack!Contents
          [] OTHER -> <<>>

Abs == INSTANCE OwnedSeq WITH list <- List, NULL <- None

\* Whichever container it is, it is a sequence that owns its elements: an
\* element is stored once and given up once - handed to the cleanup handler or
\* back to the caller - in every order of calls.  Clearing and freeing hand over
\* all that is stored, NULLs too: so does array_free.c:42, though array.h:170 says
\* it leaves them out.  (The memmoves and growth of array_insert.c,
\* array_remove.c, vector_insert.c and vector_remove.c, the links of
\* queue_add.c, queue_remove.c, stack_push.c and stack_pop.c, and what clearing,
\* compacting and freeing hand to the handler.)
ImplementsOwnedSeq == Abs!Spec

\* A queue is first in first out (queue_add.c, queue_remove.c), a stack last in
\* first out (stack_push.c, stack_pop.c).
ServedInOrder == [][/\ class = "queue" => Queue!FifoStep
                   /\ class = "stack" => Stack!LifoStep]_containerVars
=============================================================================
