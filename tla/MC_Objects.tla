----------------------------- MODULE MC_Objects -----------------------------
(* One object of one kind, chosen in the initial state: a container, the   *)
(* error object of a thread, a buffer, a hash table that is iterated, or a *)
(* kind of MC_Json.  The variables of the other kinds keep initial values. *)
EXTENDS Containers, ErrorState, MC_Json, HTableIter, PclBuf

CONSTANTS v1, v2, v3, n1, n2, n3, n4, e1, e2, s1,
          k1, k1b, k2, k3, k4

\* ErrorState: two codes, one errno and one site are enough to tell an error
\* from the one that replaces it and from the same error traced.
Codes == {e1, e2}
OsCodes == {2}
Sites == {s1}
Documents == {[err |-> e2, oserr |-> 2, strace |-> <<s1, s1>>]}

\* PclBuf: a text, a NUL inside a blob, and capacities that are met exactly.
SomeChars == {0, 1, 2}
SomeTexts == {<<>>, <<1>>, <<1, 2>>}
SomeBlobs == {<<1>>, <<2, NUL, 1>>}

SomeElements == {v1, v2, v3}
RankOf == [x \in SomeElements |-> IF x = v1 THEN 1 ELSE IF x = v2 THEN 2 ELSE 3]
Nodes == {n1, n2, n3, n4}
SomeCapacities == {0, 1, 3}

\* HTableIter: two pointers to one text, two texts of one hash code, three in
\* one bucket; a table that grows once, or is full.
SomeKeys == {k1, k1b, k2, k3, k4}
TextOf == k1 :> 1 @@ k1b :> 1 @@ k2 :> 2 @@ k3 :> 3 @@ k4 :> 4
HashOf == k1 :> 1 @@ k1b :> 1 @@ k2 :> 1 @@ k3 :> 5 @@ k4 :> 2
Loads == {<<3, 4>>}

loopVars == <<capacity, count, count_used, entries, entry_lookup, max_loadfac, held, pc,
              call, arg, unique, ret, cur, prev, rehash, index, due, returned, compacted>>
allVars == <<which, containerVars, bufVars, loopVars, jsonVars, textVars, errorVars>>

ASSUME ContainerAssumption == ParametersOK
ASSUME JsonAssumption == ValuesOK

NoContainer ==
  class = "none" /\ live = TRUE /\ cleaned = <<>> /\ got = None /\ NoTable /\ NoBlock /\ NoList
NoBuffer == made = FALSE /\ mode = NULL /\ pos = 0 /\ len = 0 /\ cells = <<>> /\ overrun = FALSE

NoLoop ==
  /\ capacity = 0 /\ count = 0 /\ count_used = 0 /\ entries = <<>> /\ entry_lookup = <<>>
  /\ max_loadfac = NULL
  /\ held = {} /\ pc = NULL /\ call = NULL /\ arg = NULL /\ unique = NULL /\ ret = NULL
  /\ cur = 0 /\ prev = 0 /\ rehash = NULL
  /\ index = 0 /\ due = {} /\ returned = {} /\ compacted = FALSE

\* KindInit chooses its kinds itself.
OneInit ==
  /\ ErrorInit
  /\ \/ /\ which \in {"container", "error", "buffer", "loop"} /\ JsonInit /\ NoText
     \/ KindInit
  /\ IF which = "container" THEN ContainerInit ELSE NoContainer
  /\ IF which = "buffer" THEN BufInit ELSE NoBuffer
  /\ IF which = "loop" THEN IterInit ELSE NoLoop

OfContainer ==
  /\ which = "container" /\ ContainerNext
  /\ UNCHANGED <<which, bufVars, loopVars, jsonVars, textVars, errorVars>>
OfBuffer ==
  /\ which = "buffer" /\ BufNext
  /\ UNCHANGED <<which, containerVars, loopVars, jsonVars, textVars, errorVars>>
OfError ==
  /\ which = "error" /\ ErrorNext
  /\ UNCHANGED <<which, containerVars, bufVars, loopVars, jsonVars, textVars>>
OfLoop ==
  /\ which = "loop" /\ IterNext
  /\ UNCHANGED <<which, containerVars, bufVars, jsonVars, textVars, errorVars>>
OfJson ==
  KindNext /\ UNCHANGED <<containerVars, bufVars, loopVars, errorVars>>

OneNext == OfContainer \/ OfBuffer \/ OfError \/ OfLoop \/ OfJson
OneSpec == OneInit /\ [][OneNext]_allVars

\* "If setting an element past count, all elements between count and index
\* will be NULL" (include/pcl/array.h:134).
PadsWithNull == [][class = "array" => Array!PadsWithNullStep]_allVars
=============================================================================
