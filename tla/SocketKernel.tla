---------------------------- MODULE SocketKernel ----------------------------
(***************************************************************************)
(* The kernel under libpcl's sockets, as far as src/socket and src/ssl use *)
(* it: descriptors, one listening address, stream connections that hold a  *)
(* few bytes in each direction, end of stream and reset.  A system call is *)
(* an action that names its result r.                                      *)
(***************************************************************************)
EXTENDS Naturals, Sequences

CONSTANTS
  MaxFd,       \* descriptor numbers are 1 .. MaxFd
  NULL,        \* a closed descriptor; later, any null pointer
  QueueSize,   \* what a direction of a connection holds
  MaxConns     \* connections at the same time


VARIABLES
  fds,     \* descriptor |-> [conn, end, listening, nb], or NULL when closed
  conns    \* connection |-> its state and streams

kernelVars == <<fds, conns>>

Fd == 1 .. MaxFd
Conn == 1 .. MaxConns
End == {"client", "server"}
Other(e) == IF e = "client" THEN "server" ELSE "client"

Descriptor == [conn : 0 .. MaxConns, end : End, listening : BOOLEAN, nb : BOOLEAN]

ASSUME KernelAssumption ==
  /\ MaxFd \in Nat \ {0} /\ QueueSize \in Nat \ {0} /\ MaxConns \in Nat
  /\ NULL \notin Nat /\ NULL \notin Descriptor

NewSocket == [conn |-> 0, end |-> "client", listening |-> FALSE, nb |-> FALSE]

\* sent[e] is all that end e has sent, read[e] how much of what the other end
\* sent it has read; fin[e]: e sends no more; left[e]: e has closed its socket.
NewConn == [st |-> "syn", reset |-> FALSE,
            sent |-> [e \in End |-> <<>>], read |-> [e \in End |-> 0],
            fin |-> [e \in End |-> FALSE], left |-> [e \in End |-> FALSE]]
NoConn == [NewConn EXCEPT !.st = "unused"]

OpenFds == {f \in Fd : fds[f] # NULL}
Lowest(n, S) == n \in S /\ \A m \in S : n <= m
Listening == \E f \in OpenFds : fds[f].listening
Used == {k \in Conn : conns[k].st # "unused"}
Backlog == {k \in Used : conns[k].st = "queued"}
Established(k) == k # 0 /\ conns[k].st \in {"queued", "open"}
Unread(c, e) == SubSeq(c.sent[Other(e)], c.read[e] + 1, Len(c.sent[Other(e)]))
Room(c, e) == QueueSize - Len(Unread(c, Other(e)))

KernelInit == fds = [f \in Fd |-> NULL] /\ conns = [k \in Conn |-> NoConn]

-----------------------------------------------------------------------------
(* What the network does by itself. *)
Become(k, st) == conns' = [conns EXCEPT ![k].st = st]

Resolve(k) ==
  /\ conns[k].st = "syn"
  /\ \/ Listening /\ Become(k, "queued")
     \/ Become(k, "refused")
  /\ UNCHANGED fds

Reset(k) ==
  /\ Established(k) /\ ~conns[k].reset
  /\ conns' = [conns EXCEPT ![k].reset = TRUE]
  /\ UNCHANGED fds

Network == \E k \in Used : Resolve(k) \/ Reset(k)

-----------------------------------------------------------------------------
(* System calls. *)
\* socket(2) and the calls that set it up: the lowest number is taken.
KSocket(f, new) ==
  /\ Lowest(f, Fd \ OpenFds)
  /\ fds' = [fds EXCEPT ![f] = new]
  /\ UNCHANGED conns

\* connect(2).  The first call on a socket begins ("WAIT": and does not return
\* yet), the others ask; a refused socket can be connected again.
KConnect(f, r) ==
  LET k == fds[f].conn
  IN  \/ /\ k = 0 /\ r = IF fds[f].nb THEN "EINPROGRESS" ELSE "WAIT"
         /\ \E new \in Conn : /\ Lowest(new, Conn \ Used)
                              /\ conns' = [conns EXCEPT ![new] = NewConn]
                              /\ fds' = [fds EXCEPT ![f].conn = new]
      \/ /\ k # 0 /\ conns[k].st = "syn"
         /\ r = IF fds[f].nb THEN "EALREADY" ELSE "EINTR"
         /\ UNCHANGED kernelVars
      \/ Established(k) /\ r \in {"0", "EISCONN"} /\ UNCHANGED kernelVars
      \/ /\ k # 0 /\ conns[k].st = "refused" /\ r = "ECONNREFUSED"
         /\ fds' = [fds EXCEPT ![f].conn = 0]
         /\ conns' = [conns EXCEPT ![k] = NoConn]

\* accept(2) on listener l, which gives descriptor f; f = NULL when it fails.
KAccept(l, f, nb, r) ==
  \/ /\ r = "0" /\ Lowest(f, Fd \ OpenFds)
     /\ \E k \in Backlog :
          /\ Lowest(k, Backlog) /\ Become(k, "open")
          /\ fds' = [fds EXCEPT ![f] = [NewSocket EXCEPT !.conn = k, !.end = "server", !.nb = nb]]
  \/ /\ f = NULL /\ UNCHANGED kernelVars
     /\ \/ r = "EMFILE"
        \/ Backlog = {} /\ r = IF fds[l].nb THEN "EAGAIN" ELSE "EINTR"

\* A connection whose end e has sent data, or has read n, or sends no more.
\* What is sent to an end that was closed is answered with a reset.
Sends(c, e, data) == [c EXCEPT !.sent[e] = @ \o data, !.reset = @ \/ c.left[Other(e)]]
Reads(c, e, n) == [c EXCEPT !.read[e] = @ + n]
Finishes(c, e) == [c EXCEPT !.fin[e] = TRUE]

\* A connection one end of which was closed: a reset when that end had not
\* read everything; forgotten when it was the last.
Leaves(c, e) ==
  IF c.left[Other(e)] \/ c.st \in {"syn", "refused"} THEN NoConn
  ELSE [Finishes(c, e) EXCEPT !.left[e] = TRUE, !.reset = @ \/ Unread(c, e) # <<>>]
Unaccepted(c) == IF c.st = "queued"
                 THEN Leaves([c EXCEPT !.reset = TRUE, !.st = "open"], "server") ELSE c

\* The connections cs after f was closed.
AfterClose(cs, f) ==
  IF fds[f].listening THEN [k \in Conn |-> Unaccepted(cs[k])]
  ELSE IF fds[f].conn = 0 THEN cs
  ELSE [cs EXCEPT ![fds[f].conn] = Leaves(@, fds[f].end)]

\* What a call on f would meet.
Refused(f) == fds[f].conn # 0 /\ conns[fds[f].conn].st = "refused"
Link(f) == conns[fds[f].conn]
Here(f) == Unread(Link(f), fds[f].end)
SendBroken(f) == Link(f).reset \/ Link(f).fin[fds[f].end]
SendBlocks(f) == ~SendBroken(f) /\ Room(Link(f), fds[f].end) = 0
RecvBroken(f) == Link(f).reset
AtEnd(f) == Here(f) = <<>> /\ Link(f).fin[Other(fds[f].end)]
RecvBlocks(f) == ~RecvBroken(f) /\ Here(f) = <<>> /\ ~AtEnd(f)
Least(m, n) == IF m <= n THEN m ELSE n

\* send(2): the first n bytes of data were taken, or r says why none was.
KSend(f, data, n, r) ==
  \/ /\ r = "0" /\ ~SendBroken(f)
     /\ n \in 0 .. Least(Len(data), Room(Link(f), fds[f].end))
     /\ n = 0 <=> data = <<>>
     /\ conns' = [conns EXCEPT ![fds[f].conn] = Sends(@, fds[f].end, SubSeq(data, 1, n))]
     /\ UNCHANGED fds
  \/ /\ n = 0 /\ UNCHANGED kernelVars
     /\ \/ SendBroken(f) /\ r = "ECONNRESET"
        \/ SendBlocks(f) /\ data # <<>> /\ r = IF fds[f].nb THEN "EAGAIN" ELSE "EINTR"

\* recv(2) of at most count bytes: n are given, the first that are here.
KRecv(f, count, n, r) ==
  \/ /\ r = "0" /\ ~RecvBroken(f) /\ ~RecvBlocks(f)
     /\ n \in 0 .. Least(count, Len(Here(f)))
     /\ n = 0 <=> (count = 0 \/ AtEnd(f))
     /\ conns' = [conns EXCEPT ![fds[f].conn] = Reads(@, fds[f].end, n)]
     /\ UNCHANGED fds
  \/ /\ n = 0 /\ UNCHANGED kernelVars
     /\ \/ RecvBroken(f) /\ r = "ECONNRESET"
        \/ RecvBlocks(f) /\ r = IF fds[f].nb THEN "EAGAIN" ELSE "EINTR"
=============================================================================
