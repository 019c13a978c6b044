------------------------------- MODULE Socket -------------------------------
(***************************************************************************)
(* pcl_socket_t (src/socket): creating, connecting, accepting, sending,    *)
(* receiving, shutting down and closing, blocking or not.  The application *)
(* has a client, a listener and the peer it accepts, and calls one         *)
(* function at a time on each.  A call that loops over system calls is a   *)
(* step per system call: the other end, the network and signals come in    *)
(* between.  Errors other than PCL_EAGAIN and PCL_EINTR are "failed".      *)
(***************************************************************************)
EXTENDS SocketKernel

CONSTANTS
  MaxBlock,    \* pcl_socket_t blocks are 1 .. MaxBlock
  Messages,    \* what the application sends at once
  Counts,      \* how much it asks for at once
  UIntLimit,   \* UINT_MAX + 1
  Senders,     \* the roles that send; the others receive
  MaxStream    \* bound: bytes sent by one end of a connection

Fields == [fd : Fd, nonblock : BOOLEAN, connected : BOOLEAN]

\* What an application sends is bytes.
Byte == UNION {{m[i] : i \in DOMAIN m} : m \in Messages}

ASSUME SocketAssumption ==
  /\ MaxBlock \in Nat \ {0} /\ Counts \subseteq Nat /\ MaxStream \in Nat
  /\ UIntLimit \in Nat \ {0}
  /\ Messages \subseteq Seq(Byte)
  /\ Senders \subseteq {"client", "peer"} /\ NULL \notin Fields

VARIABLES
  sock,   \* block |-> the fields fd, nonblock, connected; NULL when free
  ptr,    \* the application's pointers: role |-> block or NULL
  op      \* role |-> its call of send or receive; the result of the last one

socketVars == <<sock, ptr, op>>

Role == {"client", "listener", "peer"}
Block == 1 .. MaxBlock
Live == {b \in Block : sock[b] # NULL}
FdOf(b) == sock[b].fd

\* A call: what it is to send or how much to receive, the bytes it has moved,
\* what had been moved before it, whether it repeats an interrupted system
\* call, and its result.
NewCall(name, data, count, base) ==
  [name |-> name, data |-> data, count |-> count, base |-> base,
   moved |-> <<>>, again |-> FALSE, result |-> "running"]
Ended(r) == [NewCall("none", <<>>, 0, 0) EXCEPT !.result = r]
NoCall == Ended("0")

Idle(r) == op[r].result # "running"
Running(r, names) == ~Idle(r) /\ op[r].name \in names
Forgets(r) == Idle(r) /\ op' = [op EXCEPT ![r] = NoCall]

SocketInit ==
  /\ sock = [b \in Block |-> NULL]
  /\ ptr = [r \in Role |-> NULL]
  /\ op = [r \in Role |-> NoCall]

-----------------------------------------------------------------------------
(* The functions on one block. *)
Alive(b) == b # NULL /\ sock[b].connected

\* A new block b with a descriptor of its own.
NewBlock(b, new) ==
  /\ Lowest(b, Block \ Live)
  /\ \E f \in Fd :
       /\ KSocket(f, new)
       /\ sock' = [sock EXCEPT ![b] = [fd |-> f, nonblock |-> new.nb, connected |-> FALSE]]

\* pcl_socket: b is the new block, or NULL and no trace is left of the call.
PclSocket(b, r) ==
  \/ r = "0" /\ NewBlock(b, NewSocket)
  \/ r = "failed" /\ b = NULL /\ UNCHANGED <<sock, kernelVars>>

\* pcl_socket_close: the block and the descriptor are gone.
PclClose(b) ==
  /\ sock' = [sock EXCEPT ![b] = NULL]
  /\ fds' = [fds EXCEPT ![FdOf(b)] = NULL]
  /\ conns' = AfterClose(conns, FdOf(b))

SetNonblock(b, enable) ==
  /\ sock' = [sock EXCEPT ![b].nonblock = enable]
  /\ fds' = [fds EXCEPT ![FdOf(b)].nb = enable]
  /\ UNCHANGED conns

\* Mutant of ConnectResult: a connection in progress counts as made.
TrustsProgress(k) ==
  CASE k \in {"0", "EISCONN", "EALREADY"} -> "0"
    [] k \in {"EINPROGRESS", "EINTR"} -> "EAGAIN"
    [] k = "WAIT" -> "running"
    [] OTHER -> "failed"

\* What pcl_connect makes of the result of connect(2).
ConnectResult(k) ==
  CASE k \in {"0", "EISCONN"} -> "0"
    [] k \in {"EINPROGRESS", "EALREADY", "EINTR"} -> "EAGAIN"
    [] k = "WAIT" -> "running"
    [] OTHER -> "failed"

\* pcl_connect, which a caller repeats after EAGAIN.
PclConnect(b, r) ==
  \/ Alive(b) /\ r = "0" /\ UNCHANGED <<sock, kernelVars>>
  \/ /\ ~Alive(b)
     /\ \E k \in {"0", "EISCONN", "EINPROGRESS", "EALREADY", "EINTR", "WAIT", "ECONNREFUSED"} :
          KConnect(FdOf(b), k) /\ r = ConnectResult(k)
     /\ sock' = IF r = "0" THEN [sock EXCEPT ![b].connected = TRUE] ELSE sock

\* pcl_accept on the listener l.  accept4 makes the descriptor non-blocking
\* when the listener is.
PclAccept(l, b, r) ==
  \E k \in {"0", "EMFILE", "EAGAIN", "EINTR"}, f \in Fd \cup {NULL} :
    /\ KAccept(FdOf(l), f, sock[l].nonblock, k)
    /\ \/ /\ k = "0" /\ r = "0" /\ Lowest(b, Block \ Live)
          /\ sock' = [sock EXCEPT ![b] = [fd |-> f, nonblock |-> sock[l].nonblock, connected |-> TRUE]]
       \/ /\ k # "0" /\ b = NULL /\ UNCHANGED sock
          /\ r = IF k = "EMFILE" THEN "failed" ELSE "EAGAIN"

\* pcl_bind and pcl_listen; when they fail the socket stays as it is.
Listens(b) ==
  /\ fds' = [fds EXCEPT ![FdOf(b)].listening = TRUE]
  /\ UNCHANGED conns

-----------------------------------------------------------------------------
(* The application's calls. *)
Open(r) == \E b \in Block \cup {NULL}, e \in {"0", "failed"} :
  /\ r # "peer" /\ ptr[r] = NULL /\ PclSocket(b, e)
  /\ Forgets(r) /\ ptr' = [ptr EXCEPT ![r] = b]

\* Before the socket is used.
SetNonblocking(r) ==
  /\ ptr[r] # NULL /\ Idle(r)
  /\ fds[FdOf(ptr[r])] = NewSocket
  /\ SetNonblock(ptr[r], TRUE)
  /\ UNCHANGED <<ptr, op>>

Listen(r) ==
  /\ r = "listener" /\ ptr[r] # NULL /\ ~fds[FdOf(ptr[r])].listening
  /\ Listens(ptr[r])
  /\ UNCHANGED <<sock, ptr, op>>

Connect(r) == \E e \in {"0", "running", "EAGAIN", "failed"} :
  /\ r = "client" /\ ptr[r] # NULL
  /\ Idle(r) \/ Running(r, {"connect"})
  /\ PclConnect(ptr[r], e)
  /\ op' = [op EXCEPT ![r] = IF e = "running" THEN NewCall("connect", <<>>, 0, 0) ELSE NoCall]
  /\ UNCHANGED ptr

Accept(r) == \E b \in Block \cup {NULL}, e \in {"0", "EAGAIN", "failed"} :
  /\ r = "listener" /\ ptr[r] # NULL /\ fds[FdOf(ptr[r])].listening
  /\ ptr["peer"] = NULL /\ PclAccept(ptr[r], b, e)
  /\ Forgets("peer") /\ ptr' = [ptr EXCEPT !["peer"] = b]

\* pcl_shutdown; with SHUT_RDWR the flag goes, which pcl_connect then finds to
\* be connected again (EISCONN).
Shutdown(r, how) ==
  /\ ptr[r] # NULL /\ Idle(r) /\ Alive(ptr[r])
  /\ LET b == ptr[r]
     IN /\ conns' = [conns EXCEPT ![fds[FdOf(b)].conn] = Finishes(@, fds[FdOf(b)].end)]
        /\ sock' = IF how = "RDWR" THEN [sock EXCEPT ![b].connected = FALSE] ELSE sock
  /\ UNCHANGED <<fds, ptr, op>>

Close(r) ==
  /\ ptr[r] # NULL
  /\ PclClose(ptr[r]) /\ Forgets(r)
  /\ ptr' = [ptr EXCEPT ![r] = NULL]

\* pcl_send, pcl_sendall, pcl_recv, pcl_recvall begin; on a socket that is not
\* connected they are refused.
BeginSend(r) == \E name \in {"send", "sendall"}, m \in Messages :
  /\ r \in Senders /\ ptr[r] # NULL /\ Idle(r) /\ Alive(ptr[r])
  /\ LET f == FdOf(ptr[r])  sent == Link(f).sent[fds[f].end]
     IN /\ Len(sent) + Len(m) <= MaxStream
        /\ op' = [op EXCEPT ![r] = NewCall(name, m, 0, Len(sent))]
  /\ UNCHANGED <<sock, ptr, kernelVars>>

BeginRecv(r) == \E name \in {"recv", "recvall"}, n \in Counts :
  /\ r \notin Senders /\ ptr[r] # NULL /\ Idle(r) /\ Alive(ptr[r])
  /\ LET f == FdOf(ptr[r])
     IN op' = [op EXCEPT ![r] = NewCall(name, <<>>, n, Link(f).read[fds[f].end])]
  /\ UNCHANGED <<sock, ptr, kernelVars>>

\* Mutant of Rest: the loop of pcl_sendall sends from the start again.
FromStart(o) == SubSeq(o.data, 1, Len(o.data) - Len(o.moved))
Rest(o) == SubSeq(o.data, Len(o.moved) + 1, Len(o.data))

Moved(o, bytes) == [o EXCEPT !.moved = @ \o bytes, !.again = FALSE]

\* The loops compare (unsigned) tot < (unsigned) cnt: both are cut to an int.
Unsigned(n) == n % UIntLimit
Enough(moved, count) == ~(Unsigned(Len(moved)) < Unsigned(count))

\* After send(2) took n bytes: pcl_send is done, pcl_sendall when they are enough.
AfterSend(o, n) ==
  LET m == Moved(o, SubSeq(Rest(o), 1, n))
  IN  IF o.name = "send" \/ Enough(m.moved, Len(o.data)) THEN Ended("0") ELSE m

\* Mutant of AfterRecv: an end of stream ends pcl_recvall well.
EndIsEnough(o, bytes) ==
  LET m == Moved(o, bytes)
  IN  IF o.name = "recv" \/ Len(m.moved) = o.count \/ bytes = <<>> THEN Ended("0") ELSE m

\* After recv(2) gave bytes: an end of stream is an error of pcl_recvall, and so
\* is asking for nothing.
AfterRecv(o, bytes) ==
  LET m == Moved(o, bytes)
  IN  IF o.name = "recv" THEN Ended("0")
      ELSE IF bytes = <<>> THEN Ended("failed")
      ELSE IF Enough(m.moved, o.count) THEN Ended("0") ELSE m

\* An interrupted call is repeated once; the second time it is an error.
AfterFailure(o, k, interrupted) ==
  IF k # "EINTR" THEN Ended(IF k = "EAGAIN" THEN k ELSE "failed")
  ELSE IF o.again THEN Ended(interrupted) ELSE [o EXCEPT !.again = TRUE]

SendStep(r) ==
  /\ Running(r, {"send", "sendall"})
  /\ \E n \in 0 .. QueueSize, k \in {"0", "ECONNRESET", "EAGAIN", "EINTR"} :
       /\ KSend(FdOf(ptr[r]), Rest(op[r]), n, k)
       /\ op' = [op EXCEPT ![r] = IF k = "0" THEN AfterSend(@, n) ELSE AfterFailure(@, k, "EAGAIN")]
  /\ UNCHANGED <<sock, ptr>>

RecvStep(r) ==
  /\ Running(r, {"recv", "recvall"})
  /\ \E n \in 0 .. QueueSize, k \in {"0", "ECONNRESET", "EAGAIN", "EINTR"} :
       /\ KRecv(FdOf(ptr[r]), op[r].count - Len(op[r].moved), n, k)
       /\ op' = [op EXCEPT ![r] = IF k = "0" THEN AfterRecv(@, SubSeq(Here(FdOf(ptr[r])), 1, n))
                                  ELSE AfterFailure(@, k, "EINTR")]
  /\ UNCHANGED <<sock, ptr>>

Call(r) == Open(r) \/ Listen(r) \/ Connect(r) \/ Accept(r) \/ BeginSend(r) \/ BeginRecv(r)
           \/ Close(r) \/ SetNonblocking(r) \/ (\E how \in {"WR", "RDWR"} : Shutdown(r, how))

SocketNext ==
  \/ Network /\ UNCHANGED socketVars
  \/ \E r \in Role : Call(r) \/ SendStep(r) \/ RecvStep(r)

-----------------------------------------------------------------------------
\* Blocks and descriptors belong together: an open descriptor is that of one
\* block, which knows whether it blocks; a block is at one place of owners (a
\* function from places to blocks or NULL) and never forgotten.
Owned(owners) ==
  /\ \A b \in Live : fds[FdOf(b)] # NULL /\ sock[b].nonblock = fds[FdOf(b)].nb
  /\ \A f \in OpenFds : \E b \in Live : FdOf(b) = f
  /\ \A b1, b2 \in Live : FdOf(b1) = FdOf(b2) => b1 = b2
  /\ \A b \in Live : \E o \in DOMAIN owners : owners[o] = b
  /\ \A o \in DOMAIN owners : owners[o] # NULL => owners[o] \in Live
  /\ \A o1, o2 \in DOMAIN owners : owners[o1] # NULL /\ owners[o1] = owners[o2] => o1 = o2

\* A socket that says it is connected is the end of a connection the other side
\* has, or had: none that is in progress, refused or not begun.  So a send on it
\* meets a stream, whatever was retried, interrupted or shut down
\* (connect.c:41-74, accept.c:90, shutdown.c:43).
ConnectedTrue == \A b \in Live : sock[b].connected => Established(fds[FdOf(b)].conn)

\* What a call of r moves, and has moved when it returns, is exact: the stream
\* is what it was with a beginning of the data, all of it when the call
\* succeeds (pcl_sendall); the bytes received are the next ones of the stream,
\* as many as were asked for when the call succeeds (pcl_recvall), however
\* often it was interrupted or had to go on.  That all was moved holds for
\* counts an unsigned int can hold: a larger one may succeed with a part
\* (sendall.c:55, recvall.c:68).
Prefix(data, n) == SubSeq(data, 1, n)
SentExactly(r) ==
  LET f == FdOf(ptr[r])  stream == conns'[fds[f].conn].sent[fds[f].end]
      n == Len(stream) - op[r].base
  IN  /\ n \in 0 .. Len(op[r].data)
      /\ SubSeq(stream, op[r].base + 1, Len(stream)) = Prefix(op[r].data, n)
      /\ op'[r].result = "running" => n = Len(op'[r].moved)
      /\ op[r].name = "sendall" /\ op'[r].result = "0" /\ Len(op[r].data) < UIntLimit =>
           n = Len(op[r].data)
ReceivedExactly(r) ==
  LET f == FdOf(ptr[r])  c == conns'[fds[f].conn]  e == fds[f].end
      n == c.read[e] - op[r].base
  IN  /\ op'[r].result = "running" =>
           op'[r].moved = SubSeq(c.sent[Other(e)], op[r].base + 1, op[r].base + n)
      /\ op[r].name = "recvall" /\ op[r].count < UIntLimit =>
           (op'[r].result = "0" <=> n = op[r].count /\ op[r].count > 0)
CallsExact == [][\A r \in Role :
  op[r] # op'[r] => /\ Running(r, {"send", "sendall"}) => SentExactly(r)
                    /\ Running(r, {"recv", "recvall"}) => ReceivedExactly(r)
  ]_<<kernelVars, socketVars>>
=============================================================================
