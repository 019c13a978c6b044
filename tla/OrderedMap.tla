----------------------------- MODULE OrderedMap -----------------------------
(***************************************************************************)
(* What a PCL hash table promises its caller (include/pcl/htable.h): a map *)
(* from key texts to entries that iterates in insertion order, in which a  *)
(* replaced entry keeps its place.  A key pointer stands for the pair      *)
(* (key, value) handed over with it: the code always moves the two         *)
(* together.                                                               *)
(***************************************************************************)
EXTENDS Naturals, Sequences

CONSTANTS
  Key,        \* key pointers the caller can allocate
  text,       \* the bytes each key pointer points at: what key_equals compares
  NULL        \* the NULL pointer

VARIABLES
  order,      \* keys held by the map, in insertion order
  call,       \* the API call in progress, or "none"
  arg,        \* its key argument
  unique,     \* its 'unique' argument
  ret         \* the outcome of the last call, "pending" while one is in progress

mapVars == <<order, call, arg, unique, ret>>

Held == {order[i] : i \in DOMAIN order}
SameText(k) == {h \in Held : text[h] = text[k]}

Init ==
  /\ order = <<>>
  /\ call = "none" /\ arg = NULL /\ unique = FALSE /\ ret = "done"

\* The caller enters pcl_htable_put, _lookup or _remove.  A key that is put
\* must still belong to the caller.
Begin ==
  /\ call = "none"
  /\ ret' = "pending"
  /\ \E c \in {"put", "get", "remove"}, k \in Key, u \in BOOLEAN :
       /\ c = "put" => k \notin Held
       /\ u => c = "put"
       /\ call' = c /\ arg' = k /\ unique' = u
  /\ UNCHANGED order

Return(out) ==
  /\ ret' = out
  /\ call' = "none" /\ arg' = NULL /\ unique' = FALSE

Put ==
  /\ call = "put"
  /\ \/ /\ SameText(arg) = {}
        /\ Return("added")
        /\ order' = Append(order, arg)
     \/ /\ SameText(arg) = {}
        /\ Return("ERANGE")
        /\ UNCHANGED order
     \/ /\ SameText(arg) # {} /\ unique
        /\ Return("EEXIST")
        /\ UNCHANGED order
     \/ /\ SameText(arg) # {} /\ ~unique
        /\ Return("replaced")
        /\ order' = [i \in DOMAIN order |->
                       IF text[order[i]] = text[arg] THEN arg ELSE order[i]]

Get ==
  /\ call = "get"
  /\ Return(IF SameText(arg) = {} THEN "ENOTFOUND" ELSE "found")
  /\ UNCHANGED order

RemovedAt(i) == SubSeq(order, 1, i - 1) \o SubSeq(order, i + 1, Len(order))

Remove ==
  /\ call = "remove"
  /\ \/ /\ SameText(arg) = {}
        /\ Return("absent")
        /\ UNCHANGED order
     \/ /\ Return("removed")
        /\ \E i \in DOMAIN order :
             text[order[i]] = text[arg] /\ order' = RemovedAt(i)

\* pcl_htable_clear, and pcl_htable_free followed by a new pcl_htable.
Empty ==
  /\ call = "none"
  /\ Return("done")
  /\ order' = <<>>

Next == Begin \/ Put \/ Get \/ Remove \/ Empty

Spec == Init /\ [][Next]_mapVars
=============================================================================
