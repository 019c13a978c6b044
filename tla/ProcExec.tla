------------------------------ MODULE ProcExec ------------------------------
(***************************************************************************)
(* pcl_proc_exec (src/process/unix_proc_exec.c) called by several threads  *)
(* of one process at once: the pipes, fork, what the child does up to      *)
(* execvp, and the status pipe on which the parent waits to learn whether  *)
(* execvp took place.  What makes it hard is that fork copies every        *)
(* descriptor of the process, those of the other threads' calls too.       *)
(* Each thread makes one call.  Descriptors stand for what they refer to;  *)
(* their numbers are abstracted.                                           *)
(***************************************************************************)
EXTENDS Naturals, Sequences, FiniteSets

CONSTANTS
  Starters,     \* threads of the process; also the name of the child of each
  Parent,      \* the process the threads are in
  Streams,     \* a sequence of "in", "out", "err": PCL_EXEC_STDIN, ...
  AwaitsEof,   \* the programs read their standard input to the end
  MaxSignals   \* bound: signals that interrupt a read

ASSUME ProcExecAssumption ==
  /\ Parent \notin Starters
  /\ Streams \in Seq({"in", "out", "err"})
  /\ AwaitsEof \in BOOLEAN /\ MaxSignals \in Nat

VARIABLES
  place,          \* where each thread is in its call
  piped,       \* how many of its streams have a pipe
  fds,         \* the descriptors each process has open
  cloexec,     \* those of them with FD_CLOEXEC
  child,       \* where the child of each call is
  told,        \* calls whose status pipe has an error code in it
  result,      \* what each call returned
  blind        \* calls whose read of the status pipe failed with EINTR

procVars == <<place, piped, fds, cloexec, child, told, result, blind>>

Process == Starters \cup {Parent}
Stream == {Streams[i] : i \in 1 .. Len(Streams)}
Descriptor == Starters \X (Stream \cup {"status"}) \X {"read", "write"}

Ends(t, s) == {<<t, s, "read">>, <<t, s, "write">>}
ParentEnd(t, s) == <<t, s, IF s = "in" THEN "write" ELSE "read">>
ChildEnd(t, s) == <<t, s, IF s = "in" THEN "read" ELSE "write">>
ParentEnds(t) == {ParentEnd(t, s) : s \in Stream}
ChildEnds(t) == {ChildEnd(t, s) : s \in Stream}
StatusRead(t) == <<t, "status", "read">>
StatusWrite(t) == <<t, "status", "write">>
Own(t) == {d \in Descriptor : d[1] = t}

Open(d) == \E p \in Process : d \in fds[p]

ExecInit ==
  /\ place = [t \in Starters |-> "idle"]
  /\ piped = [t \in Starters |-> 0]
  /\ fds = [p \in Process |-> {}]
  /\ cloexec = [p \in Process |-> {}]
  /\ child = [t \in Starters |-> "none"]
  /\ told = {}
  /\ result = [t \in Starters |-> "none"]
  /\ blind = {}

-----------------------------------------------------------------------------
(* The kernel's part. *)
FlagStays(p, D) == cloexec
FlagGoes(p, D) == [cloexec EXCEPT ![p] = @ \ D]

Close(p, D) ==
  /\ fds' = [fds EXCEPT ![p] = @ \ D]
  /\ cloexec' = FlagGoes(p, D)

Pipe(t, s) ==
  /\ fds' = [fds EXCEPT ![Parent] = @ \cup Ends(t, s)]
  /\ UNCHANGED cloexec

Advance(t, from, to) == place[t] = from /\ place' = [place EXCEPT ![t] = to]

-----------------------------------------------------------------------------
(* The thread's part. *)
\* CLOSE_ALL, with close() of both status ends when fork fails.
ForgetsStatus(t) == Own(t) \ Ends(t, "status")
CloseAll(t) == Own(t)

Fails(t, from) ==
  /\ Advance(t, from, "done")
  /\ Close(Parent, CloseAll(t))
  /\ result' = [result EXCEPT ![t] = "error"]
  /\ UNCHANGED <<piped, child, told, blind>>

StartCall(t) ==
  /\ Advance(t, "idle", IF Len(Streams) = 0 THEN "status" ELSE "pipe")
  /\ UNCHANGED <<piped, fds, cloexec, child, told, result, blind>>

\* pcl_proc_pipe: pipe(), then FD_CLOEXEC on the parent's end.
MakePipe(t) ==
  /\ Advance(t, "pipe", "mark")
  /\ Pipe(t, Streams[piped[t] + 1])
  /\ UNCHANGED <<piped, child, told, result, blind>>

MarkPipe(t) ==
  /\ Advance(t, "mark", IF piped[t] + 1 = Len(Streams) THEN "status" ELSE "pipe")
  /\ cloexec' = [cloexec EXCEPT ![Parent] =
                   @ \cup {ParentEnd(t, Streams[piped[t] + 1])}]
  /\ piped' = [piped EXCEPT ![t] = @ + 1]
  /\ UNCHANGED <<fds, child, told, result, blind>>

\* pipe(err_fds): neither end is FD_CLOEXEC yet.
MakeStatusPipe(t) ==
  /\ Advance(t, "status", "fork")
  /\ Pipe(t, "status")
  /\ UNCHANGED <<piped, child, told, result, blind>>

Fork(t) ==
  /\ Advance(t, "fork", "forked")
  /\ fds' = [fds EXCEPT ![t] = fds[Parent]]
  /\ cloexec' = [cloexec EXCEPT ![t] = cloexec[Parent]]
  /\ child' = [child EXCEPT ![t] = "forked"]
  /\ UNCHANGED <<piped, told, result, blind>>

\* CLOSE_FDS and close(err_fds[1]).
KeepsStatus(t) == ChildEnds(t)
KeepsChildEnds(t) == {StatusWrite(t)}
NotForParent(t) == ChildEnds(t) \cup {StatusWrite(t)}

ReleaseChildEnds(t) ==
  /\ Advance(t, "forked", "read")
  /\ Close(Parent, NotForParent(t))
  /\ UNCHANGED <<piped, child, told, result, blind>>

\* read(err_fds[0]) returns an error code: CLOSE_FILES.
ReadError(t) ==
  /\ Advance(t, "read", "done")
  /\ t \in told
  /\ Close(Parent, Own(t))
  /\ result' = [result EXCEPT ![t] = "error"]
  /\ UNCHANGED <<piped, child, told, blind>>

\* It returns 0, or -1: nothing but a whole error code is a failure.
Succeeds(t) ==
  /\ Advance(t, "read", "done")
  /\ Close(Parent, {StatusRead(t)})
  /\ result' = [result EXCEPT ![t] = "ok"]
  /\ UNCHANGED <<piped, child, told>>

ReadEof(t) ==
  /\ t \notin told
  /\ ~Open(StatusWrite(t))
  /\ Succeeds(t)
  /\ UNCHANGED blind

ReadInterrupted(t) ==
  /\ t \notin told
  /\ Cardinality(blind) < MaxSignals
  /\ Succeeds(t)
  /\ blind' = blind \cup {t}

\* The application closes f_stdin when it has nothing to say to the program; it
\* reads f_stdout and f_stderr to their end and closes them.
CloseFile(t, s) ==
  /\ result[t] = "ok"
  /\ ParentEnd(t, s) \in fds[Parent]
  /\ s # "in" => ~Open(ChildEnd(t, s))
  /\ Close(Parent, {ParentEnd(t, s)})
  /\ UNCHANGED <<place, piped, child, told, result, blind>>

-----------------------------------------------------------------------------
(* The child's part. *)
Becomes(t, from, to) == child[t] = from /\ child' = [child EXCEPT ![t] = to]

\* It closes the parent's ends, duplicates its own onto 0, 1 and 2, and marks
\* the write end of the status pipe FD_CLOEXEC.
ClosesStatus(t) == ParentEnds(t) \cup Ends(t, "status")
NotForChild(t) == ParentEnds(t) \cup {StatusRead(t)}

ChildSetsUp(t) ==
  /\ Becomes(t, "forked", "set")
  /\ fds' = [fds EXCEPT ![t] = @ \ NotForChild(t)]
  /\ cloexec' = [cloexec EXCEPT ![t] =
       (@ \cup {StatusWrite(t)}) \ NotForChild(t)]
  /\ UNCHANGED <<place, piped, told, result, blind>>

Exits(t) == Close(t, fds[t])

\* The user or the group is refused: _exit(1), and nothing is written.
ChildRejected(t) ==
  /\ Becomes(t, "set", "rejected")
  /\ Exits(t)
  /\ UNCHANGED <<place, piped, told, result, blind>>

\* chdir, setenv or execvp fails: the code is written, then _exit(1).
ChildReports(t) ==
  /\ Becomes(t, "set", "reporting")
  /\ told' = IF Open(StatusRead(t)) THEN told \cup {t} ELSE told
  /\ UNCHANGED <<place, piped, fds, cloexec, result, blind>>

ChildFails(t) ==
  /\ Becomes(t, "reporting", "failed")
  /\ Exits(t)
  /\ UNCHANGED <<place, piped, told, result, blind>>

ChildExecs(t) ==
  /\ Becomes(t, "set", "running")
  /\ Close(t, cloexec[t])
  /\ UNCHANGED <<place, piped, told, result, blind>>

ProgramEnds(t) ==
  /\ Becomes(t, "running", "ended")
  /\ AwaitsEof /\ "in" \in Stream => ~Open(<<t, "in", "write">>)
  /\ Exits(t)
  /\ UNCHANGED <<place, piped, told, result, blind>>

-----------------------------------------------------------------------------
ThreadStep(t) ==
  \/ StartCall(t)
  \/ MakePipe(t) \/ Fails(t, "pipe")
  \/ MarkPipe(t) \/ Fails(t, "mark")
  \/ MakeStatusPipe(t) \/ Fails(t, "status")
  \/ Fork(t) \/ Fails(t, "fork")
  \/ ReleaseChildEnds(t)
  \/ ReadError(t) \/ ReadEof(t) \/ ReadInterrupted(t)

ChildStep(t) ==
  \/ ChildSetsUp(t)
  \/ ChildRejected(t)
  \/ ChildReports(t) \/ ChildFails(t)
  \/ ChildExecs(t)

ClosesFile(t) == \E s \in Stream : CloseFile(t, s)

ExecNext == \E t \in Starters :
  ThreadStep(t) \/ ChildStep(t) \/ ProgramEnds(t) \/ ClosesFile(t)

ExecSpec == ExecInit /\ [][ExecNext]_procVars

(* TwoStarters and children are scheduled, programs that can end do end, and   *)
(* the application closes its files.                                       *)
ExecFairness == \A t \in Starters :
  /\ WF_procVars(ThreadStep(t)) /\ WF_procVars(ChildStep(t))
  /\ WF_procVars(ProgramEnds(t)) /\ WF_procVars(ClosesFile(t))

ExecFairSpec == ExecSpec /\ ExecFairness

-----------------------------------------------------------------------------
\* Types; only open descriptors have FD_CLOEXEC.
ExecTypeOK ==
  /\ place \in [Starters -> {"idle", "pipe", "mark", "status", "fork", "forked",
                         "read", "done"}]
  /\ piped \in [Starters -> 0 .. Len(Streams)]
  /\ fds \in [Process -> SUBSET Descriptor]
  /\ cloexec \in [Process -> SUBSET Descriptor]
  /\ \A p \in Process : cloexec[p] \subseteq fds[p]
  /\ child \in [Starters -> {"none", "forked", "set", "rejected", "reporting",
                            "failed", "running", "ended"}]
  /\ told \subseteq Starters /\ blind \subseteq Starters
  /\ result \in [Starters -> {"none", "ok", "error"}]

\* Whichever step of a call fails, the parent keeps no descriptor of it; after
\* a call that succeeds it keeps the files it returns and nothing else
\* (CLOSE_ALL, CLOSE_FDS and CLOSE_FILES of unix_proc_exec.c).
NoDescriptorLeaks == \A t \in Starters : place[t] = "done" =>
  Own(t) \cap fds[Parent] \subseteq IF result[t] = "ok" THEN ParentEnds(t) ELSE {}

\* A call that fails has no program running, and one that succeeds has - or had
\* - one, unless the child refused the user or the group, which it does without
\* a word, or a signal interrupted the read (unix_proc_exec.c:251, 302-350).
ExecReported == \A t \in Starters :
  /\ result[t] = "error" => child[t] \in {"none", "reporting", "failed"}
  /\ result[t] = "ok" => child[t] \in {"running", "ended", "rejected"} \/ t \in blind

\* Every call returns: "this will return zero (EOF/broken-pipe) since child
\* sets FD_CLOEXEC" (unix_proc_exec.c:248), whatever the other threads do.
CallsReturn == \A t \in Starters : place[t] # "idle" ~> place[t] = "done"

\* The application reads the end of the program's output and closes every file
\* of the call, although other children inherited the pipes (CLOSE_FDS).
OutputEnds == \A t \in Starters :
  result[t] = "ok" ~> Own(t) \cap fds[Parent] = {}
=============================================================================
