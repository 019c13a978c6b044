------------------------------ MODULE DirTree -------------------------------
(***************************************************************************)
(* pcl_mkdirs and pcl_rmdir_r (src/dir) on a tree that several processes   *)
(* change at the same time: one step per mkdir, opendir, readdir, unlink   *)
(* and rmdir.  In between, other programs put any entry in place of        *)
(* another, a symbolic link in place of a directory too.                   *)
(***************************************************************************)
EXTENDS Naturals, Sequences

CONSTANTS
  Name,      \* names of entries
  MaxParts,  \* components of a path
  Makers,    \* processes that call pcl_mkdirs
  Wanted,    \* the paths they make
  Root,      \* the directory pcl_rmdir_r is asked to remove
  LinkTo,    \* where every symbolic link leads
  Trees,     \* the trees at the beginning
  Touched,   \* paths where other programs make, replace and remove entries
  MaxCalls,  \* bound: calls of pcl_mkdirs of one process
  MaxTouches \* bound: what other programs do

Path == UNION {[1 .. n -> Name] : n \in 1 .. MaxParts}
Kind == {"none", "dir", "file", "link"}

ASSUME TreeAssumption ==
  /\ MaxParts \in Nat /\ MaxCalls \in Nat /\ MaxTouches \in Nat
  /\ Wanted \cup Touched \cup {Root, LinkTo} \subseteq Path
  /\ Trees \subseteq [Path -> Kind]

VARIABLES
  tree,     \* path |-> kind of the entry
  making,   \* maker |-> its call of pcl_mkdirs
  path,     \* the path buffer of pcl_rmdir_r
  frames,   \* its active rmdir_r calls, the innermost last
  removal,  \* "none", "running" or the result
  alone,    \* nothing has come in between: no one else, no failure of readdir,
            \* no entry whose type the file system does not tell
  disturbed,\* entries that others have made or removed since it runs
  swapped,  \* others have put a link on its way, or beneath it since it runs
  touches   \* what other programs have done so far

callVars == <<path, frames, removal>>
removalVars == <<callVars, alone, disturbed, swapped>>
treeVars == <<tree, making, removalVars, touches>>

Under(p, q) == Len(p) <= Len(q) /\ SubSeq(q, 1, Len(p)) = p
Parent(p) == SubSeq(p, 1, Len(p) - 1)

\* The removed directory is named by its own path, not through a link.
ASSUME RootAssumption ==
  \A t \in Trees : \A i \in 1 .. Len(Root) : t[SubSeq(Root, 1, i)] # "link"

\* No path through a link is too long.
ASSUME LinkAssumption == \A w \in Wanted : Len(LinkTo) + Len(w) <= MaxParts + 1

\* What path p leads to: links on the way are followed, a last one is not.
Followed(t, p) == IF p \in Path /\ t[p] = "link" THEN LinkTo ELSE p
Resolved(p) ==
  LET To[n \in 0 .. Len(p)] ==
        IF n = 0 THEN <<>> ELSE Append(Followed(tree, To[n - 1]), p[n])
  IN  To[Len(p)]
KindOf(p) == IF p = <<>> THEN "dir" ELSE IF p \in Path THEN tree[p] ELSE "none"
Children(d) == {n \in Name : KindOf(Append(d, n)) # "none"}

\* A call: the components it has made, its result, and whether an entry was
\* removed since it began.
NoMaking == [path |-> <<>>, done |-> 0, result |-> "none", calls |-> 0, lost |-> FALSE]
Making(m) == making[m].result = "running"

TreeInit ==
  /\ tree \in Trees
  /\ making = [m \in Makers |-> NoMaking]
  /\ path = Root /\ frames = <<>> /\ removal = "none"
  /\ alone = TRUE /\ disturbed = {} /\ swapped = FALSE /\ touches = 0

\* Others have made or removed the entries of S.
Disturb(S) ==
  alone' = FALSE /\ disturbed' = IF frames = <<>> THEN {} ELSE disturbed \cup S
Lost(mk) == [m \in Makers |-> [mk[m] EXCEPT !.lost = TRUE]]

-----------------------------------------------------------------------------
(* pcl_mkdirs. *)
BeginMkdirs(m) == \E p \in Wanted :
  /\ ~Making(m) /\ making[m].calls < MaxCalls
  /\ making' = [making EXCEPT ![m] =
       [path |-> p, done |-> 0, result |-> "running", calls |-> @.calls + 1, lost |-> FALSE]]
  /\ UNCHANGED <<tree, removalVars, touches>>

\* mkdir(2) of path p.
MkdirResult(p) ==
  LET q == Resolved(p)
      d == KindOf(Parent(q))
  IN  IF d = "none" THEN "ENOENT" ELSE IF d # "dir" THEN "ENOTDIR"
      ELSE IF KindOf(q) # "none" THEN "EEXIST" ELSE "0"

\* Mutant of GoesOn: what another process has made is a failure.
MustBeNew(r) == r = "0"
\* After which results of pcl_mkdir the loop goes on.
GoesOn(r) == r \in {"0", "EEXIST"}

MkdirStep(m) ==
  LET c == making[m]
      p == SubSeq(c.path, 1, c.done + 1)
      r == MkdirResult(p)
  IN  /\ Making(m)
      /\ \/ /\ r = "0"
            /\ tree' = [tree EXCEPT ![Resolved(p)] = "dir"] /\ Disturb({Resolved(p)})
         \/ r # "0" /\ UNCHANGED <<tree, alone, disturbed>>
      /\ making' = [making EXCEPT
           ![m].done = IF GoesOn(r) THEN @ + 1 ELSE @,
           ![m].result = IF ~GoesOn(r) THEN "failed" ELSE IF p = c.path THEN "0" ELSE @]
      /\ UNCHANGED <<callVars, swapped, touches>>

-----------------------------------------------------------------------------
(* pcl_rmdir_r.  A frame is a call of rmdir_r: the length of its path in   *)
(* the buffer, the directory its stream is open on, the entries that had   *)
(* when it was opened, and the names reported.                             *)
Deepest == frames[Len(frames)]
Reached == SubSeq(path, 1, Deepest.len)
Entered(p) == [len |-> Len(p), open |-> FALSE, dir |-> <<>>, listed |-> <<>>, seen |-> {}]
Disturbed(n) == Append(Deepest.dir, n) \in disturbed

BeginRemoval ==
  /\ removal = "none" /\ removal' = "running"
  /\ frames' = <<Entered(Root)>> /\ path' = Root
  /\ alone' = TRUE /\ disturbed' = {}
  /\ UNCHANGED <<tree, making, swapped, touches>>

\* Every active call closes its stream, cuts the path and returns -1.
Unwind ==
  /\ removal' = "failed" /\ frames' = <<>> /\ path' = Root
  /\ UNCHANGED <<tree, making, disturbed, swapped, touches>>
Fail == Unwind /\ UNCHANGED alone

\* pcl_opendir of the path in the buffer, links followed.
Opendir ==
  LET d == Followed(tree, Resolved(path))
      listed == [n \in Children(d) |-> KindOf(Append(d, n))]
  IN  /\ frames # <<>> /\ ~Deepest.open
      /\ \/ /\ KindOf(d) = "dir"
            /\ frames' = [frames EXCEPT ![Len(frames)] =
                 [@ EXCEPT !.open = TRUE, !.dir = d, !.listed = listed]]
            /\ UNCHANGED <<tree, making, path, removal, alone, disturbed, swapped, touches>>
         \/ KindOf(d) # "dir" /\ Fail

\* Mutant of Enters: a link to a directory is entered.
EntersLinks(kind) == kind \in {"dir", "link"}
Enters(kind) == kind = "dir"

\* What pcl_readdir may say of an entry: its type of when the directory was
\* opened or of now, or "unknown" when the file system does not tell the type.
EntryTypes(n) ==
  LET then == IF n \in DOMAIN Deepest.listed THEN {Deepest.listed[n]} ELSE {}
      known == (then \cup {KindOf(Append(Deepest.dir, n))}) \ {"none"}
  IN  IF known = {} THEN {} ELSE known \cup {"unknown"}

Delete(p) == tree' = [tree EXCEPT ![p] = "none"] /\ making' = Lost(making)

\* The next entry.  A directory is entered, anything else is unlinked.  One that
\* others have made again may be reported again.
Report(n) ==
  /\ frames # <<>> /\ Deepest.open
  /\ n \notin Deepest.seen \/ Disturbed(n)
  /\ \E kind \in EntryTypes(n) :
       LET p == Append(Reached, n)
           q == Resolved(p)
           reported == [frames EXCEPT ![Len(frames)].seen = @ \cup {n}]
       IN  /\ alone' = (alone /\ kind # "unknown")
           /\ \/ /\ Enters(kind)
                 /\ path' = p /\ frames' = Append(reported, Entered(p))
                 /\ UNCHANGED <<tree, making, removal, disturbed, swapped, touches>>
              \/ /\ ~Enters(kind) /\ KindOf(q) \notin {"dir", "none"}
                 /\ Delete(q) /\ path' = p /\ frames' = reported
                 /\ UNCHANGED <<removal, disturbed, swapped, touches>>
              \/ ~Enters(kind) /\ KindOf(q) \in {"dir", "none"} /\ Unwind

\* pcl_readdir fails with anything but PCL_ENOMORE.
ReadError == frames # <<>> /\ Deepest.open /\ Unwind /\ alone' = FALSE

\* Mutant of Cut: the last entry's name stays in the buffer.
KeepsName == path
Cut == Reached

\* The stream has ended, having reported every entry others left alone: rmdir,
\* and back to the loop of the call that entered.
Rmdir ==
  LET d == Resolved(Cut)
  IN  /\ frames # <<>> /\ Deepest.open
      /\ \A n \in DOMAIN Deepest.listed : n \in Deepest.seen \/ Disturbed(n)
      /\ \/ /\ KindOf(d) = "dir" /\ Children(d) = {}
            /\ Delete(d) /\ path' = Cut
            /\ frames' = SubSeq(frames, 1, Len(frames) - 1)
            /\ removal' = IF Len(frames) = 1 THEN "0" ELSE removal
            /\ UNCHANGED <<alone, disturbed, swapped, touches>>
         \/ (KindOf(d) # "dir" \/ Children(d) # {}) /\ Fail

\* Another program puts an entry of another kind at p, or moves what is there
\* away with all that is under it.
Touch(p) == \E kind \in Kind \ {tree[p]} :
  /\ touches < MaxTouches /\ touches' = touches + 1
  /\ KindOf(Parent(p)) = "dir"
  /\ tree' = [q \in Path |-> IF q = p THEN kind ELSE IF Under(p, q) THEN "none" ELSE tree[q]]
  /\ making' = IF \A q \in Path : Under(p, q) => tree[q] = "none" THEN making ELSE Lost(making)
  /\ Disturb({q \in Path : Under(p, q)})
  /\ swapped' = (swapped \/ (kind = "link" /\ (Under(p, Root) \/ (frames # <<>> /\ Under(Root, p)))))
  /\ UNCHANGED callVars

Remover == BeginRemoval \/ Opendir \/ (\E n \in Name : Report(n)) \/ ReadError \/ Rmdir

TreeNext ==
  \/ \E m \in Makers : BeginMkdirs(m) \/ MkdirStep(m)
  \/ Remover
  \/ \E p \in Touched : Touch(p)

TreeSpec == TreeInit /\ [][TreeNext]_treeVars

-----------------------------------------------------------------------------
\* A step of pcl_rmdir_r: what changes in the tree, and what it ends with.
ByRemover == frames # <<>> /\ frames # frames'
RemovesBeneathStep ==
  ByRemover /\ ~swapped =>
    /\ \A p \in Path : tree[p] # tree'[p] => Under(Root, p) /\ tree'[p] = "none"
    /\ removal' = "0" => tree'[Root] = "none" /\ path' = Root
    /\ removal' = "failed" /\ alone' => KindOf(Root) # "dir"

\* Unless others put a symbolic link on the way to the directory, or beneath it
\* while it is being removed, pcl_rmdir_r removes nothing that is not under it,
\* not through a link that was there either, and it ends well only when the
\* directory itself is gone.  When nobody comes in between and readdir tells
\* every entry and its type it ends well: every entry and every level is gone
\* before the level above is removed (rmdir_r.c:37-84).  (An entry that becomes
\* a link between its readdir and the opendir of it is followed.)
RemovesBeneath == [][RemovesBeneathStep]_treeVars

\* A step that ends a call of pcl_mkdirs.
There(p) == KindOf(Resolved(p)) # "none"
LeadsToDir(p) == KindOf(Followed(tree, Resolved(p))) = "dir"
MkdirsMeetStep == \A m \in Makers :
  Making(m) /\ making'[m].result # "running" /\ ~making[m].lost =>
    LET c == making[m]  Above == {SubSeq(c.path, 1, i) : i \in 1 .. Len(c.path) - 1}
    IN  IF \E p \in Above : There(p) /\ ~LeadsToDir(p)
        THEN making'[m].result = "failed"
        ELSE /\ making'[m].result = "0"
             /\ \A p \in Above : LeadsToDir(p)
             /\ tree'[Resolved(c.path)] # "none"

\* Processes that make overlapping paths do not disturb each other: as long as
\* nothing is removed or replaced, pcl_mkdirs fails exactly when a component
\* above the last is there and leads to no directory.  Otherwise all above the
\* last lead to one when it returns 0, and the last is there: as a directory, or
\* as whatever it was before, a plain file too (mkdirs.c:69-84; dir.h:190 says
\* "Same as unix mkdir -p", which fails for a file).
MkdirsMeet == [][MkdirsMeetStep]_treeVars
=============================================================================
