------------------------------ MODULE OwnedSeq ------------------------------
(***************************************************************************)
(* What the sequential containers of libpcl promise (array.h, vector.h,    *)
(* queue.h, and the stack): a sequence of elements that the container owns *)
(* from the call that stores them to the call that gives them up.  An      *)
(* element is given up once: handed to the cleanup handler, or back to the *)
(* caller.  A NULL element is stored like any other; a call that empties   *)
(* the container hands it to the handler, one that removes or replaces it  *)
(* may leave it out (an array's do, a vector's does not).                  *)
(***************************************************************************)
EXTENDS Naturals, Sequences, FiniteSets

CONSTANTS
  Elem,       \* element pointers (or the resources a vector element holds)
  NULL        \* the NULL pointer

VARIABLES
  list,       \* the elements, in order
  live,       \* the container exists
  cleaned,    \* what the last call passed to the cleanup handler, in order
  got         \* what the last call returned to the caller, or NULL

seqVars == <<list, live, cleaned, got>>

Held == {list[i] : i \in 1 .. Len(list)} \ {NULL}

\* What the handler may get of an element that is given up.
GivenUp(x) == {<<x>>} \cup (IF x = NULL THEN {<<>>} ELSE {})
NoElements == {<<>>}
Outcome(handed, g) == cleaned' \in handed /\ got' = g

RemovedAt(i) == SubSeq(list, 1, i - 1) \o SubSeq(list, i + 1, Len(list))

Init == list = <<>> /\ live = TRUE /\ cleaned = <<>> /\ got = NULL

Insert(x) == \E i \in 1 .. Len(list) + 1 :
  /\ list' = SubSeq(list, 1, i - 1) \o <<x>> \o SubSeq(list, i, Len(list))
  /\ \E g \in {NULL, x} : Outcome(NoElements, g)

Discard == \E i \in 1 .. Len(list) :
  /\ list' = RemovedAt(i)
  /\ Outcome(GivenUp(list[i]), NULL)

Take == \E i \in 1 .. Len(list) :
  /\ list' = RemovedAt(i)
  /\ Outcome(NoElements, list[i])

Replace(x) == \E i \in 1 .. Len(list) :
  /\ list' = [list EXCEPT ![i] = x]
  /\ Outcome(GivenUp(list[i]), NULL)

\* Storing past the end fills the gap with NULL.
StoreBeyond(x) ==
  /\ Len(list') > Len(list)
  /\ list' = [i \in 1 .. Len(list') |->
       IF i <= Len(list) THEN list[i] ELSE IF i = Len(list') THEN x ELSE NULL]
  /\ Outcome(NoElements, NULL)

Look ==
  /\ UNCHANGED list
  /\ \E g \in Held \cup {NULL} : Outcome(NoElements, g)

Reorder ==
  /\ Len(list') = Len(list)
  /\ \A x \in Held \cup {NULL} :
       Cardinality({i \in 1 .. Len(list) : list'[i] = x})
         = Cardinality({i \in 1 .. Len(list) : list[i] = x})
  /\ Outcome(NoElements, NULL)

Clear == list' = <<>> /\ Outcome({list}, NULL)

Next ==
  /\ live
  /\ \/ /\ UNCHANGED live
        /\ \/ \E x \in (Elem \ Held) \cup {NULL} :
                Insert(x) \/ Replace(x) \/ StoreBeyond(x)
           \/ Discard \/ Take \/ Look \/ Reorder \/ Clear
     \/ live' = FALSE /\ Clear

Spec == Init /\ [][Next]_seqVars
=============================================================================
