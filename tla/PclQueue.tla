------------------------------ MODULE PclQueue ------------------------------
(***************************************************************************)
(* pcl_queue_t (src/queue): a singly linked list with head, tail and size. *)
(* "heap" holds the queue_item blocks that are allocated.                  *)
(***************************************************************************)
EXTENDS Links

CONSTANTS
  Elem,
  Node           \* addresses of queue_item blocks; also a bound on the size

VARIABLES live, cleaned, got, heap, head, tail, size

queueVars == <<live, cleaned, got, heap, head, tail, size>>

Visit == Visits(heap, head)
Reach == Reached(heap, head)
Contents == Values(heap, head)
Stored == {heap[n].value : n \in DOMAIN heap} \ {NULL}
Returns(c, g) == cleaned' = c /\ got' = g

Init ==
  /\ live = TRUE
  /\ heap = <<>> /\ head = NULL /\ tail = NULL /\ size = 0
  /\ cleaned = <<>> /\ got = NULL

-----------------------------------------------------------------------------
LinksNothing(n, x) == [m \in DOMAIN heap \cup {n} |->
  IF m = n THEN [next |-> NULL, value |-> x] ELSE heap[m]]
LinkedAtTail(n, x) == [m \in DOMAIN heap \cup {n} |->
  IF m = n THEN [next |-> NULL, value |-> x]
  ELSE IF m = tail THEN [next |-> n, value |-> heap[m].value]
  ELSE heap[m]]

Add(x) == \E n \in Node \ DOMAIN heap :
  /\ heap' = LinkedAtTail(n, x)
  /\ size' = size + 1
  /\ head' = IF tail = NULL THEN n ELSE head
  /\ tail' = n
  /\ Returns(<<>>, NULL)
  /\ UNCHANGED live

TailStays(next) == tail
TailAfter(next) == IF next = NULL THEN NULL ELSE tail

Remove ==
  /\ size > 0
  /\ head' = heap[head].next
  /\ tail' = TailAfter(heap[head].next)
  /\ size' = size - 1
  /\ heap' = [m \in DOMAIN heap \ {head} |-> heap[m]]
  /\ Returns(<<>>, heap[head].value)
  /\ UNCHANGED live

\* pcl_queue_peek, and pcl_queue_remove of an empty queue.
Peek ==
  /\ Returns(<<>>, IF size = 0 THEN NULL ELSE heap[head].value)
  /\ UNCHANGED <<live, heap, head, tail, size>>

\* The loop of pcl_queue_clear frees the nodes it reaches from the head.
Emptied ==
  /\ Returns(Contents, NULL)
  /\ heap' = [m \in DOMAIN heap \ {Visit[k] : k \in Reach} |-> heap[m]]
  /\ size' = 0 /\ head' = NULL /\ tail' = NULL

Clear == Emptied /\ UNCHANGED live
Free == Emptied /\ live' = FALSE

Next ==
  /\ live
  /\ \/ \E x \in (Elem \ Stored) \cup {NULL} : Add(x)
     \/ Remove \/ Peek \/ Clear \/ Free

Spec == Init /\ [][Next]_queueVars

-----------------------------------------------------------------------------
\* head, tail, size and the links agree, and every block that is allocated is
\* in the list: none is leaked, none is used after it was freed.
LinksOK ==
  /\ size = Cardinality(DOMAIN heap)
  /\ Visit[size] = NULL
  /\ {Visit[k] : k \in 0 .. size - 1} = DOMAIN heap
  /\ tail = IF size = 0 THEN NULL ELSE Visit[size - 1]

\* First in, first out: an item leaves at the front and enters at the back.
FifoStep ==
  /\ size' < size /\ got' # NULL => got' = Contents[1] /\ Contents' = Tail(Contents)
  /\ size' > size => Len(Contents') = size' /\ SubSeq(Contents', 1, size) = Contents
=============================================================================
