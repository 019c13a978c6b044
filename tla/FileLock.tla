------------------------------ MODULE FileLock ------------------------------
(***************************************************************************)
(* pcl_file_open, pcl_file_lock and pcl_file_close (src/file) for objects  *)
(* of several processes on one file.  On Unix a lock is fcntl's: it is the *)
(* process's, not the object's, and closing any descriptor of the file     *)
(* gives it up.  All an object knows of it is a flag, PCL_FF_FLOCK.        *)
(***************************************************************************)
EXTENDS Naturals, FiniteSets

CONSTANTS
  NoFile,        \* an object that is not there
  Process,       \* the processes that open the file
  Slots,         \* bound: the objects of one process
  MaxOpens       \* bound: calls of pcl_file_open and pcl_file_lock

Lock == {"none", "read", "write"}
Record == [reads : BOOLEAN, writes : BOOLEAN, flag : BOOLEAN,
           at : {"open", "opening", "locking"}, asked : Lock]

ASSUME FileAssumption == NoFile \notin Record /\ MaxOpens \in Nat

VARIABLES
  files,         \* object |-> its Record, or NoFile
  held,          \* the kernel: process |-> "none", "read" or "write"
  mine,          \* what the object's last fcntl left, "unknown" once another
                 \* object of its process locks, unlocks or closes the file
  opens

fileVars == <<files, held, mine, opens>>

Object == Process \X Slots
Owner(o) == o[1]
Siblings(o) == {s \in Object : Owner(s) = Owner(o) /\ s # o}
IsOpen(o) == files[o] # NoFile

FileInit ==
  /\ files = [o \in Object |-> NoFile]
  /\ held = [p \in Process |-> "none"]
  /\ mine = [o \in Object |-> "unknown"]
  /\ opens = 0

-----------------------------------------------------------------------------
\* fcntl: a lock needs a descriptor open for it, and no other process's lock
\* in its way.
Granted(o) ==
  LET lock == files[o].asked IN
  \/ lock = "none"
  \/ /\ IF lock = "read" THEN files[o].reads ELSE files[o].writes
     /\ \A q \in Process \ {Owner(o)} :
          held[q] = "none" \/ (held[q] = "read" /\ lock = "read")

\* The process has the lock now, whatever its other objects asked for.
Holds(o, lock) ==
  /\ held' = [held EXCEPT ![Owner(o)] = lock]
  /\ mine' = [s \in Object |-> IF s = o THEN lock
                               ELSE IF s \in Siblings(o) THEN "unknown" ELSE mine[s]]

\* A descriptor of the file is closed: the process's lock is gone.
Gone(o) ==
  /\ files' = [files EXCEPT ![o] = NoFile]
  /\ held' = [held EXCEPT ![Owner(o)] = "none"]
  /\ mine' = [s \in Object |-> IF Owner(s) = Owner(o) THEN "unknown" ELSE mine[s]]

\* The flags of the open are set once the file is locked: an open waits for
\* its lock, with PCL_O_NONBLOCK as well.
OpenFile(o, access, lock) ==
  /\ ~IsOpen(o) /\ opens < MaxOpens
  /\ files' = [files EXCEPT ![o] =
       [reads |-> access # "write", writes |-> access # "read", flag |-> FALSE,
        at |-> IF lock = "none" THEN "open" ELSE "opening", asked |-> lock]]
  /\ opens' = opens + 1
  /\ UNCHANGED <<held, mine>>

\* pcl_file_lock.
BeginLock(o, lock) ==
  /\ IsOpen(o) /\ files[o].at = "open" /\ opens < MaxOpens
  /\ files' = [files EXCEPT ![o].at = "locking", ![o].asked = lock]
  /\ opens' = opens + 1
  /\ UNCHANGED <<held, mine>>

Waiting(o) == IsOpen(o) /\ files[o].at \in {"opening", "locking"}

Flagged(o) ==
  files' = [files EXCEPT ![o].at = "open", ![o].flag = (files[o].asked # "none")]

Locked(o) ==
  /\ Waiting(o) /\ Granted(o)
  /\ Flagged(o) /\ Holds(o, files[o].asked)
  /\ UNCHANGED opens

\* fcntl fails: the descriptor is not open for the lock, F_SETLK would have to
\* wait, or a signal or a deadlock ends the wait of F_SETLKW.  An open that
\* fails closes its object.
FlagsFirst(o) ==
  files' = [files EXCEPT ![o].at = "open", ![o].flag = (files[o].asked # "none")]
Unflagged(o) == files' = [files EXCEPT ![o].at = "open"]
LockRefused(o) ==
  /\ Waiting(o) /\ ~Granted(o)
  /\ \/ files[o].at = "opening" /\ Gone(o)
     \/ files[o].at = "locking" /\ Unflagged(o) /\ UNCHANGED <<held, mine>>
  /\ UNCHANGED opens

\* pcl_file_close unlocks what is flagged, which the close does as well.
CloseFile(o) == IsOpen(o) /\ files[o].at = "open" /\ Gone(o) /\ UNCHANGED opens

\* A process ends, and with it its descriptors.
Exits(p) ==
  /\ \E o \in Object : Owner(o) = p /\ IsOpen(o)
  /\ files' = [o \in Object |-> IF Owner(o) = p THEN NoFile ELSE files[o]]
  /\ held' = [held EXCEPT ![p] = "none"]
  /\ mine' = [o \in Object |-> IF Owner(o) = p THEN "unknown" ELSE mine[o]]
  /\ UNCHANGED opens

FileNext ==
  \/ \E o \in Object :
       \/ \E access \in {"read", "write", "both"}, lock \in Lock : OpenFile(o, access, lock)
       \/ \E lock \in Lock : BeginLock(o, lock)
       \/ Locked(o) \/ LockRefused(o) \/ CloseFile(o)
  \/ \E p \in Process : Exits(p)

FileSpec == FileInit /\ [][FileNext]_fileVars

-----------------------------------------------------------------------------
\* What the flag is worth: unless another object of its process has locked,
\* unlocked or closed the file since, an object that is flagged is of a process
\* that has a lock, one that is not flagged is not, and beside an object that
\* got an exclusive lock no other process's object is flagged rightly
\* (file_lock.c, unix_file_open.c, file_close.c).
FlagTellsLock ==
  \A o \in Object : IsOpen(o) /\ mine[o] # "unknown" =>
    /\ files[o].flag <=> held[Owner(o)] # "none"
    /\ mine[o] = "write" =>
         \A s \in Object : Owner(s) # Owner(o) /\ IsOpen(s) /\ mine[s] # "unknown" =>
           ~files[s].flag
=============================================================================
