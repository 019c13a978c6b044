------------------------------- MODULE MC_IO -------------------------------
(* What libpcl does with the operating system, one kind at a time: plain   *)
(* sockets, TLS over sockets, directory trees, files that are locked, or a *)
(* kind of MC_Args.  The kind is chosen in the initial state; the          *)
(* variables of the others keep their initial values.                      *)
EXTENDS Tls, DirTree, FileLock, MC_Args

CONSTANTS m1, m2, x, y

\* Bytes through a connection that holds one.  An unsigned int holds two of
\* them, so three are more than sendall.c and recvall.c can count.
SomeMessages == {<<1, 2>>, <<1, 2, 3>>}
SomeCounts == {0, 2, 3}

\* A directory x to be removed, that has a directory with a file in it, and a
\* link to a directory y with a file in it.
OneTree == [p \in Path |->
  CASE p \in {<<x>>, <<y>>, <<x, x>>} -> "dir"
    [] p = <<x, y>> -> "link"
    [] p \in {<<y, x>>, <<x, x, y>>} -> "file"
    [] OTHER -> "none"]
SomeTrees == {OneTree}
Made == {<<x, x, x>>, <<x, y, y>>}
TheRoot == <<x>>
TheTarget == <<y>>
SomeTouched == {<<x, x>>, <<x, x, x>>, <<y, y>>}

\* A process with two objects on the file, and another process.
Processes == Makers
Two == {1, 2}

ioVars == <<which, TlsAll, treeVars, fileVars, argVars>>

IoInit ==
  /\ AppInit /\ TreeInit /\ FileInit
  /\ \/ which \in {"socket", "tls", "tree", "file"} /\ NoArgs
     \/ ArgsInit

PlainNext == which = "socket" /\ SocketNext /\ UNCHANGED <<tlsVars, treeVars, fileVars>>
SecureNext == which = "tls" /\ TlsNext /\ UNCHANGED <<treeVars, fileVars>>
DirNext == which = "tree" /\ TreeNext /\ UNCHANGED <<TlsAll, fileVars>>
LockNext == which = "file" /\ FileNext /\ UNCHANGED <<TlsAll, treeVars>>

IoNext ==
  \/ (PlainNext \/ SecureNext \/ DirNext \/ LockNext) /\ UNCHANGED <<which, argVars>>
  \/ ArgsNext /\ UNCHANGED <<TlsAll, treeVars, fileVars>>
IoSpec == IoInit /\ [][IoNext]_ioVars /\ TlsFairness
=============================================================================
