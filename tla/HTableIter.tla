----------------------------- MODULE HTableIter -----------------------------
(***************************************************************************)
(* pcl_htable_iter over a table that changes while it is iterated: between *)
(* two steps of the loop                                                   *)
(*    int index = 0;  while((ent = pcl_htable_iter(ht, &index))) ...       *)
(* its body may call any operation of the table.  The index is a position  *)
(* in entries[], and a rehash moves the entries without telling it.        *)
(***************************************************************************)
EXTENDS HTable

VARIABLES
  index,     \* the caller's index, Over when no loop is running
  due,       \* ghost: texts in the table since the loop began, not returned yet
  returned,  \* ghost: texts returned by the loop and in the table ever since
  compacted  \* ghost: a rehash has squeezed removed entries out since

Over == -2
iterVars == <<index, due, returned, compacted>>

TextsOf(ents, slots) == {text[ents[i].key] : i \in slots}
AllLive == Live(entries, count_used)

IterInit == Init /\ index = Over /\ due = {} /\ returned = {} /\ compacted = FALSE

StartLoop ==
  /\ pc = "idle" /\ index = Over
  /\ index' = 0 /\ due' = TextsOf(entries, AllLive)
  /\ returned' = {} /\ compacted' = FALSE
  /\ UNCHANGED vars

\* The slots pcl_htable_iter still looks at.
Ahead == {i \in AllLive : i >= index}

\* Mutant of IterReturns: the caller's index is counted up, not set.
CountsUp(i) ==
  /\ pc = "idle" /\ index # Over
  /\ i \in Ahead /\ \A j \in Ahead : i <= j
  /\ index' = index + 1
  /\ due' = due \ TextsOf(entries, {i})
  /\ returned' = returned \cup TextsOf(entries, {i})
  /\ UNCHANGED <<vars, compacted>>

\* The entry returned is the first live one at or after the index.
IterReturns(i) ==
  /\ pc = "idle" /\ index # Over
  /\ i \in Ahead /\ \A j \in Ahead : i <= j
  /\ index' = i + 1
  /\ due' = due \ TextsOf(entries, {i})
  /\ returned' = returned \cup TextsOf(entries, {i})
  /\ UNCHANGED <<vars, compacted>>

\* Mutant of IterEnds: the loop stops at the first removed entry.
EndsAtHole ==
  /\ pc = "idle" /\ index # Over
  /\ index < count_used => entries[index].key = NULL
  /\ index' = Over /\ returned' = {}
  /\ UNCHANGED <<vars, due, compacted>>

\* NULL: the index is at count_used, or only removed entries follow.
IterEnds ==
  /\ pc = "idle" /\ index # Over
  /\ Ahead = {}
  /\ index' = Over /\ returned' = {}
  /\ UNCHANGED <<vars, due, compacted>>

\* The loop's body uses the table.  A text that is removed is neither due nor
\* returned any more: put again, it is a new entry.
TableStep ==
  /\ Next
  /\ LET present == TextsOf(entries', Live(entries', count_used'))
     IN  due' = due \cap present /\ returned' = returned \cap present
  /\ compacted' = (compacted \/ (pc = "rehash" /\ pc' # "rehash" /\ count_used' < count_used))
  /\ UNCHANGED index

IterNext ==
  \/ StartLoop
  \/ \E i \in AllLive : IterReturns(i)
  \/ IterEnds
  \/ TableStep

IterSpec == IterInit /\ [][IterNext]_<<vars, iterVars>>

-----------------------------------------------------------------------------
\* Until a rehash has squeezed removed entries out, every text that has been in
\* the table since the loop began is returned already or still ahead of the
\* index: puts, replacements, removals, even a rehash of a table without holes,
\* make the loop of pcl_htable_iter skip nothing; at its end nothing is due.
LoopMissesNothing ==
  ~compacted => due \subseteq IF index = Over THEN {} ELSE TextsOf(entries, Ahead)

\* The loop returns no entry twice, whatever its body does to the table: an entry
\* that was returned never gets ahead of the index again, not even by a rehash.
LoopNeverRepeats ==
  index # Over => returned \cap TextsOf(entries, Ahead) = {}
=============================================================================
