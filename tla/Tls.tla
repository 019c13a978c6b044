-------------------------------- MODULE Tls --------------------------------
(***************************************************************************)
(* pcl_ssl_t (src/ssl) over pcl_socket_t: connecting and accepting with a  *)
(* handshake that a non-blocking caller resumes, sending, receiving,       *)
(* closing for reuse and freeing.  The role of an object stands for its    *)
(* PASSIVE and SERVER flags.  OpenSSL is, for each end, the script of the  *)
(* records it writes and reads until the session is up.                    *)
(***************************************************************************)
EXTENDS Socket, FiniteSets

CONSTANT MaxRecords   \* bound: application records sent by one end

SslSession == [fd : Fd, step : 1 .. 5]
SslObject == [nonblock : BOOLEAN, verify : BOOLEAN, sock : Block \cup {NULL},
              session : SslSession \cup {NULL}]

ASSUME TlsAssumption ==
  /\ MaxRecords \in Nat
  /\ NULL \notin SslSession /\ NULL \notin SslObject

VARIABLES
  ssl,    \* role |-> [nonblock, verify, sock, session], NULL when freed
  call    \* role |-> where its connect or handshake is, and *want_io

tlsVars == <<ssl, call>>

\* A session is OpenSSL's object: the descriptor it was given, and its place in
\* the handshake.
Script(r) ==
  IF r = "client"
  THEN << <<"w", "hello">>, <<"r", "answer">>, <<"r", "cert">>, <<"w", "fin">> >>
  ELSE << <<"r", "hello">>, <<"w", "answer">>, <<"w", "cert">>, <<"r", "fin">> >>
Exists(r) == ssl[r] # NULL
Session(r) == ssl[r].session
HasSession(r) == Exists(r) /\ Session(r) # NULL
Up(r) == HasSession(r) /\ Session(r).step > Len(Script(r))
NewSession(f) == [fd |-> f, step |-> 1]
\* The descriptors of the object's socket and of its session.
SockFd(r) == FdOf(ssl[r].sock)
SslFd(r) == Session(r).fd

\* "idle": not in a call, or the last one was final; "again": PCL_EAGAIN was
\* returned, or the peer has yet to begin; otherwise the place in the function.
At(place) == [at |-> place, want |-> "none"]
Again(want) == [at |-> "again", want |-> want]
Goes(r, c) == call' = [call EXCEPT ![r] = c]
In(r, place) == Exists(r) /\ call[r].at = place

TlsInit ==
  /\ ssl = [r \in Role |-> NULL]
  /\ call = [r \in Role |-> At("idle")]

-----------------------------------------------------------------------------
(* pcl_ssl_close, and pcl_ssl_free, which calls it. *)
\* Mutant of Closed: the session outlives the socket it was made for.
KeepsSession(s) == [s EXCEPT !.sock = NULL]
Closed(s) == [s EXCEPT !.sock = NULL, !.session = NULL]

\* SSL_shutdown says goodbye when the session is up and there is room.
Goodbye(r) ==
  LET f == SslFd(r)
  IN  IF Up(r) /\ ~SendBroken(f) /\ ~SendBlocks(f)
      THEN [conns EXCEPT ![fds[f].conn] = Sends(@, fds[f].end, <<"bye">>)]
      ELSE conns

\* The session and the socket go, and the object becomes s.
Becomes(r, s) ==
  /\ ssl' = [ssl EXCEPT ![r] = s]
  /\ Goes(r, At("idle"))
  /\ IF ssl[r].sock = NULL THEN UNCHANGED <<sock, kernelVars>>
     ELSE /\ sock' = [sock EXCEPT ![ssl[r].sock] = NULL]
          /\ fds' = [fds EXCEPT ![SockFd(r)] = NULL]
          /\ conns' = AfterClose(Goodbye(r), SockFd(r))

SslClose(r) == Becomes(r, Closed(ssl[r]))

\* Mutant of SslFree: the object goes, what it holds does not.
FreesObjectOnly(r) ==
  /\ ssl' = [ssl EXCEPT ![r] = NULL] /\ Goes(r, At("idle"))
  /\ UNCHANGED <<sock, kernelVars>>
SslFree(r) == Becomes(r, NULL)

\* The application closes or frees an object it is not in a call of.
CloseSsl(r) == Exists(r) /\ call[r].at \in {"idle", "again"} /\ SslClose(r)
FreeSsl(r) == Exists(r) /\ call[r].at \in {"idle", "again"} /\ SslFree(r)

-----------------------------------------------------------------------------
(* pcl_ssl: a client has no socket yet.  A listener has one, which it      *)
(* binds and listens on; an object that cannot is freed.                   *)
NewSsl(nonblock, verify, b) == [nonblock |-> nonblock, verify |-> verify, sock |-> b, session |-> NULL]

\* pcl_socket and ipcl_ssl_configure_socket, for role r.
NewSocketFor(r, s) == \E b \in Block :
  /\ NewBlock(b, [NewSocket EXCEPT !.nb = s.nonblock])
  /\ ssl' = [ssl EXCEPT ![r] = [s EXCEPT !.sock = b]]

\* pcl_ssl, and pcl_ssl_setpair and setpeerca when the peer is to be verified.
NewClient(nonblock, verify) ==
  /\ ~Exists("client")
  /\ ssl' = [ssl EXCEPT !["client"] = NewSsl(nonblock, verify, NULL)]
  /\ UNCHANGED <<call, sock, kernelVars>>

NewListener(nonblock) ==
  /\ ~Exists("listener")
  /\ NewSocketFor("listener", NewSsl(nonblock, FALSE, NULL))
  /\ Goes("listener", At("bind"))

\* pcl_bind, pcl_listen and create_sslctx, each of which may fail.
BindListener ==
  /\ In("listener", "bind")
  /\ \/ Listens(ssl["listener"].sock) /\ Goes("listener", At("idle")) /\ UNCHANGED <<ssl, sock>>
     \/ SslFree("listener")

\* pcl_ssl_accept of a listener that is not closed: the peer's session is made
\* at once, its handshake is up to the caller.  When accept fails nothing is
\* left of the call.
SslAccept ==
  /\ In("listener", "idle") /\ ssl["listener"].sock # NULL /\ ~Exists("peer")
  /\ \E b \in Block :
       /\ PclAccept(ssl["listener"].sock, b, "0")
       /\ ssl' = [ssl EXCEPT !["peer"] =
                   [NewSsl(ssl["listener"].nonblock, FALSE, b) EXCEPT !.session = NewSession(sock'[b].fd)]]
  /\ Goes("peer", Again("none"))

-----------------------------------------------------------------------------
(* pcl_ssl_connect. *)
BeginConnect ==
  /\ Exists("client") /\ call["client"].at \in {"idle", "again"} /\ ~Up("client")
  /\ \/ /\ ssl["client"].sock # NULL
        /\ UNCHANGED <<ssl, sock, kernelVars>>
     \/ /\ ssl["client"].sock = NULL
        /\ NewSocketFor("client", ssl["client"])
  /\ Goes("client", At("connect"))

\* Mutant of WithSession: every call makes a session.
AlwaysNew(s, f) == [s EXCEPT !.session = NewSession(f)]
WithSession(s, f) == IF s.session = NULL THEN [s EXCEPT !.session = NewSession(f)] ELSE s

\* Its pcl_connect.  PCL_EAGAIN leaves the socket, and *want_io 0; any other
\* failure closes it.
ConnectSocket ==
  /\ In("client", "connect")
  /\ \/ /\ PclConnect(ssl["client"].sock, "0")
        /\ ssl' = [ssl EXCEPT !["client"] = WithSession(@, SockFd("client"))]
        /\ Goes("client", At("negotiate"))
     \/ PclConnect(ssl["client"].sock, "running") /\ UNCHANGED tlsVars
     \/ /\ PclConnect(ssl["client"].sock, "EAGAIN")
        /\ Goes("client", Again("none")) /\ UNCHANGED ssl
     \/ Refused(SockFd("client")) /\ SslClose("client")

\* pcl_ssl_handshake.
BeginHandshake ==
  /\ In("peer", "again") /\ Goes("peer", At("negotiate"))
  /\ UNCHANGED <<ssl, sock, kernelVars>>

\* One record of SSL_connect or SSL_accept, or why there is none.
Next1(r) == Script(r)[Session(r).step]
Progress(r) ==
  /\ ssl' = [ssl EXCEPT ![r].session.step = @ + 1]
  /\ Goes(r, IF Session(r).step = Len(Script(r)) THEN At("verify") ELSE call[r])
  /\ UNCHANGED sock

\* Mutant of Wants: what the session waits for is confused.
WantsOther(r) == IF Next1(r)[1] = "r" THEN "write" ELSE "read"
Wants(r) == IF Next1(r)[1] = "r" THEN "read" ELSE "write"

Negotiate(r) ==
  LET f == SslFd(r)  io == Next1(r)[1]  record == Next1(r)[2]
  IN  /\ In(r, "negotiate")
      /\ \/ io = "w" /\ KSend(f, <<record>>, 1, "0") /\ Progress(r)
         \/ /\ io = "r" /\ Here(f) # <<>> /\ Here(f)[1] = record
            /\ KRecv(f, 1, 1, "0") /\ Progress(r)
         \/ /\ IF io = "w" THEN SendBlocks(f) ELSE RecvBlocks(f)
            /\ fds[f].nb
            /\ Goes(r, Again(Wants(r))) /\ UNCHANGED <<ssl, sock, kernelVars>>
         \/ /\ IF io = "w" THEN SendBroken(f)
               ELSE RecvBroken(f) \/ AtEnd(f) \/ (Here(f) # <<>> /\ Here(f)[1] # record)
            /\ SslClose(r)

\* pcl_ssl_connect looks at the certificate when it was told to.
Verify(r) ==
  /\ In(r, "verify")
  /\ \/ Goes(r, At("idle")) /\ UNCHANGED <<ssl, sock, kernelVars>>
     \/ ssl[r].verify /\ SslClose(r)

-----------------------------------------------------------------------------
(* pcl_ssl_send and pcl_ssl_recv; PCL_EAGAIN changes nothing. *)
Ready(r) == Up(r) /\ call[r].at = "idle"
SentRecords(f) == Len(SelectSeq(Link(f).sent[fds[f].end], LAMBDA x : x = "data"))

SslSend(r) ==
  /\ Ready(r) /\ SentRecords(SslFd(r)) < MaxRecords
  /\ \/ KSend(SslFd(r), <<"data">>, 1, "0") /\ UNCHANGED <<tlsVars, sock>>
     \/ SendBroken(SslFd(r)) /\ SslClose(r)

SslRecv(r) ==
  LET f == SslFd(r)
  IN  /\ Ready(r)
      /\ \/ /\ Here(f) # <<>> /\ Here(f)[1] = "data"
            /\ KRecv(f, 1, 1, "0") /\ UNCHANGED <<tlsVars, sock>>
         \/ /\ RecvBroken(f) \/ AtEnd(f) \/ (Here(f) # <<>> /\ Here(f)[1] # "data")
            /\ SslClose(r)

TlsCall ==
  \/ \E nonblock \in BOOLEAN : NewListener(nonblock) \/ \E verify \in BOOLEAN : NewClient(nonblock, verify)
  \/ BindListener \/ SslAccept \/ BeginConnect \/ ConnectSocket \/ BeginHandshake
  \/ \E r \in {"client", "peer"} : Negotiate(r) \/ Verify(r) \/ SslSend(r) \/ SslRecv(r)
  \/ \E r \in Role : CloseSsl(r) \/ FreeSsl(r)

TlsNext == (TlsCall \/ (Network /\ UNCHANGED <<sock, tlsVars>>)) /\ UNCHANGED <<ptr, op>>

\* An application with sockets of its own and pcl_ssl_t objects.
TlsAll == <<kernelVars, socketVars, tlsVars>>
AppInit == KernelInit /\ SocketInit /\ TlsInit
AppNext == (SocketNext /\ UNCHANGED tlsVars) \/ TlsNext
AppSpec == AppInit /\ [][AppNext]_TlsAll

-----------------------------------------------------------------------------
\* Every open descriptor and every block has one owner: a pointer of the
\* application or one pcl_ssl_t, through every failure of connecting,
\* negotiating, verifying and accepting (ssl_connect.c, ssl_close.c, accept.c).
Owners == [o \in {"ptr", "ssl"} \X Role |->
             IF o[1] = "ptr" THEN ptr[o[2]] ELSE IF Exists(o[2]) THEN ssl[o[2]].sock ELSE NULL]
DescriptorsOwned == Owned(Owners)

\* PCL_EAGAIN can be resumed and everything else is final: a session works on
\* the descriptor of its object's own, connected socket; a call that is to be
\* repeated still has its socket, and its session exactly when *want_io says
\* what to wait for; an object in no call has an open session or nothing, and
\* a listener its socket or nothing (ssl_connect.c:60-113, ssl_handshake.c, ssl_close.c).
SessionUsable == \A r \in {"client", "peer"} : Exists(r) =>
  /\ HasSession(r) => /\ ssl[r].sock # NULL /\ SslFd(r) = SockFd(r)
                       /\ Alive(ssl[r].sock)
  /\ call[r].at = "idle" => (Up(r) <=> ssl[r].sock # NULL)
  /\ call[r].at # "idle" => ssl[r].sock # NULL
  /\ call[r].at = "again" => (call[r].want # "none" \/ r = "peer" <=> HasSession(r))

\* However often a handshake returns PCL_EAGAIN and is called again, each record
\* of an end is sent once and read once, in the order of its script, and data
\* comes only after them: both ends agree how far they are.
Turns(r, io, n) == {i \in 1 .. n : Script(r)[i][1] = io}
InTurn(r, io, stream) ==
  \A i \in Turns(r, io, Session(r).step - 1) :
    stream[Cardinality(Turns(r, io, i))] = Script(r)[i][2]
HandshakeOnce == \A r \in {"client", "peer"} : HasSession(r) =>
  LET c == Link(SslFd(r))  e == fds[SslFd(r)].end  done == Session(r).step - 1
      written == Cardinality(Turns(r, "w", done))  gotten == Cardinality(Turns(r, "r", done))
  IN  /\ InTurn(r, "w", c.sent[e]) /\ InTurn(r, "r", c.sent[Other(e)])
      /\ written <= Len(c.sent[e]) /\ gotten <= c.read[e]
      /\ \A j \in written + 1 .. Len(c.sent[e]) : c.sent[e][j] = "data"
      /\ ~Up(r) => Len(c.sent[e]) = written /\ c.read[e] = gotten

\* A caller that repeats pcl_ssl_connect when what *want_io names is possible
\* (or, while it names nothing, when the connection is made or refused) comes
\* to an end: the session is up or the object is closed.  The server accepts,
\* repeats pcl_ssl_handshake likewise, receives, and frees what is closed.
Possible(r) ==
  CASE call[r].want = "read" -> ~RecvBlocks(SslFd(r))
    [] call[r].want = "write" -> ~SendBlocks(SslFd(r))
    [] OTHER -> r = "peer" \/ Link(SockFd(r)).st # "syn"
RetryConnect == In("client", "again") /\ Possible("client") /\ BeginConnect
FreeClosed == Exists("peer") /\ ssl["peer"].sock = NULL /\ FreeSsl("peer")
RetryHandshake == In("peer", "again") /\ Possible("peer") /\ BeginHandshake
TlsFairness ==
  /\ WF_TlsAll((\E k \in Used : Resolve(k)) /\ UNCHANGED <<socketVars, tlsVars>>)
  /\ WF_TlsAll((ConnectSocket \/ Negotiate("client") \/ Verify("client")) /\ UNCHANGED <<ptr, op>>)
  /\ WF_TlsAll((Negotiate("peer") \/ Verify("peer")) /\ UNCHANGED <<ptr, op>>)
  /\ WF_TlsAll(RetryConnect /\ UNCHANGED <<ptr, op>>)
  /\ WF_TlsAll(RetryHandshake /\ UNCHANGED <<ptr, op>>)
  /\ WF_TlsAll(SslAccept /\ UNCHANGED <<ptr, op>>)
  /\ WF_TlsAll((SslRecv("peer") \/ FreeClosed) /\ UNCHANGED <<ptr, op>>)
ConnectEnds == call["client"].at # "idle" ~> call["client"].at = "idle"
=============================================================================
