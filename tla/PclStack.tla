------------------------------ MODULE PclStack ------------------------------
(***************************************************************************)
(* pcl_stack_t (src/stack): a singly linked list pushed and popped at the  *)
(* head.  "heap" holds the stack_item blocks that are allocated.           *)
(***************************************************************************)
EXTENDS Links

CONSTANTS
  Elem,
  Node           \* addresses of stack_item blocks; also a bound on the size

VARIABLES live, cleaned, got, heap, head, size

stackVars == <<live, cleaned, got, heap, head, size>>

Visit == Visits(heap, head)
Reach == Reached(heap, head)
Contents == Values(heap, head)
Stored == {heap[n].value : n \in DOMAIN heap} \ {NULL}
Returns(c, g) == cleaned' = c /\ got' = g

Init ==
  /\ live = TRUE
  /\ heap = <<>> /\ head = NULL /\ size = 0
  /\ cleaned = <<>> /\ got = NULL

-----------------------------------------------------------------------------
\* sitem->next must be the old head, read before s->head is overwritten.
CutsOff(n) == NULL
OldHead(n) == head

Push(x) == \E n \in Node \ DOMAIN heap :
  /\ heap' = [m \in DOMAIN heap \cup {n} |->
       IF m = n THEN [next |-> OldHead(n), value |-> x] ELSE heap[m]]
  /\ head' = n
  /\ size' = size + 1
  /\ Returns(<<>>, NULL)
  /\ UNCHANGED live

Pop ==
  /\ size > 0
  /\ head' = heap[head].next
  /\ size' = size - 1
  /\ heap' = [m \in DOMAIN heap \ {head} |-> heap[m]]
  /\ Returns(<<>>, heap[head].value)
  /\ UNCHANGED live

\* pcl_stack_peek, and pcl_stack_pop of an empty stack.
Peek ==
  /\ Returns(<<>>, IF size = 0 THEN NULL ELSE heap[head].value)
  /\ UNCHANGED <<live, heap, head, size>>

Emptied ==
  /\ Returns(Contents, NULL)
  /\ heap' = [m \in DOMAIN heap \ {Visit[k] : k \in Reach} |-> heap[m]]
  /\ size' = 0 /\ head' = NULL

Clear == Emptied /\ UNCHANGED live
Free == Emptied /\ live' = FALSE

Next ==
  /\ live
  /\ \/ \E x \in (Elem \ Stored) \cup {NULL} : Push(x)
     \/ Pop \/ Peek \/ Clear \/ Free

Spec == Init /\ [][Next]_stackVars

-----------------------------------------------------------------------------
\* head, size and the links agree, and every allocated block is in the list.
LinksOK ==
  /\ size = Cardinality(DOMAIN heap)
  /\ Visit[size] = NULL
  /\ {Visit[k] : k \in 0 .. size - 1} = DOMAIN heap

\* Last in, first out: items enter and leave at the top, the rest stays.
LifoStep ==
  /\ size' < size /\ got' # NULL => got' = Contents[1] /\ Contents' = Tail(Contents)
  /\ size' > size => Tail(Contents') = Contents
=============================================================================
