-------------------------------- MODULE Links --------------------------------
(* The singly linked lists of src/queue and src/stack: blocks [next, value] *)
(* of a heap, followed from a first one.                                    *)
EXTENDS Naturals, Sequences, FiniteSets

CONSTANT NULL

\* The k-th node after the first one, or NULL.
Visits(heap, first) ==
  LET node[k \in Nat] ==
        IF k = 0 THEN first
        ELSE IF node[k - 1] = NULL THEN NULL ELSE heap[node[k - 1]].next
  IN  node

Reached(heap, first) ==
  {k \in 0 .. Cardinality(DOMAIN heap) - 1 : Visits(heap, first)[k] # NULL}

Values(heap, first) ==
  [i \in 1 .. Cardinality(Reached(heap, first)) |-> heap[Visits(heap, first)[i - 1]].value]
=============================================================================
