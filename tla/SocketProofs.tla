---------------------------- MODULE SocketProofs ----------------------------
(* Descriptors, connections and sessions of an application that uses       *)
(* sockets and pcl_ssl_t objects at once, for any number of descriptors,   *)
(* blocks and connections, and what goes through the streams, for any      *)
(* messages and counts.                                                    *)
EXTENDS Tls, FiniteSetTheorems, SequenceTheorems, TLAPS

State == {"unused", "syn", "queued", "open", "refused"}
IsConn(c) ==
  /\ "st" \in DOMAIN c /\ c.st \in State
  /\ "left" \in DOMAIN c /\ c.left \in [End -> BOOLEAN]

KernelTypes ==
  /\ fds \in [Fd -> Descriptor \cup {NULL}]
  /\ DOMAIN conns = Conn /\ conns = [k \in Conn |-> conns[k]]
  /\ \A k \in Conn : IsConn(conns[k])

\* An open descriptor is an end of its connection that has not left it, and the
\* only one that is that end; a connection that was not accepted has no server.
Ends == \A f \in OpenFds :
  /\ fds[f].conn = 0 => fds[f].end = "client"
  /\ fds[f].conn # 0 =>
       /\ conns[fds[f].conn].st # "unused" /\ ~conns[fds[f].conn].left[fds[f].end]
       /\ fds[f].end = "server" => conns[fds[f].conn].st = "open"
OneEnd == \A f, g \in OpenFds :
  fds[f].conn # 0 /\ fds[f].conn = fds[g].conn /\ fds[f].end = fds[g].end => f = g
NoServerYet == \A k \in Conn :
  conns[k].st \in {"syn", "queued"} => ~conns[k].left["server"]

KernelInv == KernelTypes /\ Ends /\ OneEnd /\ NoServerYet

Types ==
  /\ sock \in [Block -> Fields \cup {NULL}]
  /\ ptr \in [Role -> Block \cup {NULL}]
  /\ ssl \in [Role -> SslObject \cup {NULL}]

SocketInv == KernelInv /\ Types /\ DescriptorsOwned /\ ConnectedTrue

-----------------------------------------------------------------------------
(* What a step does to the kernel. *)
\* Connections that differ from conns in their data and ends of stream.
SameLinks(cs) ==
  /\ DOMAIN cs = Conn /\ cs = [k \in Conn |-> cs[k]]
  /\ \A k \in Conn : IsConn(cs[k]) /\ cs[k].st = conns[k].st /\ cs[k].left = conns[k].left
OnlyData == fds' = fds /\ SameLinks(conns')

\* An open descriptor does not lose a connection that was made.
LinksStay == \A f \in OpenFds \cap OpenFds' :
  Established(fds[f].conn) => Established(fds[f].conn)'

LEMMA DataKeeps ==
  ASSUME KernelInv, OnlyData
  PROVE  KernelInv' /\ LinksStay
<1>1. OpenFds' = OpenFds /\ KernelTypes'
  BY DEF KernelInv, OnlyData, SameLinks, KernelTypes, OpenFds
<1>2. \A f \in OpenFds : fds[f].conn # 0 =>
        conns'[fds[f].conn].st = conns[fds[f].conn].st
        /\ conns'[fds[f].conn].left = conns[fds[f].conn].left
  BY DEF KernelInv, OnlyData, SameLinks, KernelTypes, OpenFds, Descriptor, Conn
<1>3. Ends'
  BY <1>1, <1>2 DEF KernelInv, Ends, OnlyData
<1>4. OneEnd'
  BY <1>1 DEF KernelInv, OneEnd, OnlyData
<1>5. NoServerYet'
  BY DEF KernelInv, NoServerYet, OnlyData, SameLinks
<1>6. LinksStay
  BY <1>2 DEF LinksStay, Established, OnlyData
<1> QED
  BY <1>1, <1>3, <1>4, <1>5, <1>6 DEF KernelInv

LEMMA SendIsData ==
  ASSUME NEW c, IsConn(c), NEW e, NEW data
  PROVE  LET d == Sends(c, e, data) IN IsConn(d) /\ d.st = c.st /\ d.left = c.left
BY DEF Sends, IsConn

LEMMA FinishIsData ==
  ASSUME NEW c, IsConn(c), NEW e
  PROVE  LET d == Finishes(c, e) IN IsConn(d) /\ d.st = c.st /\ d.left = c.left
BY DEF Finishes, IsConn

LEMMA ReadIsData ==
  ASSUME NEW c, IsConn(c), NEW e, NEW n
  PROVE  LET d == Reads(c, e, n) IN IsConn(d) /\ d.st = c.st /\ d.left = c.left
BY DEF Reads, IsConn

LEMMA KSendIsData ==
  ASSUME KernelTypes, NEW f, NEW data, NEW n, NEW r, KSend(f, data, n, r)
  PROVE  OnlyData
<1>1. CASE UNCHANGED kernelVars
  BY <1>1 DEF OnlyData, SameLinks, kernelVars, KernelTypes
<1>2. CASE /\ conns' = [conns EXCEPT ![fds[f].conn] = Sends(@, fds[f].end, SubSeq(data, 1, n))]
           /\ UNCHANGED fds
  <2> DEFINE k == fds[f].conn  d == Sends(conns[k], fds[f].end, SubSeq(data, 1, n))
  <2>1. k \in Conn => IsConn(d) /\ d.st = conns[k].st /\ d.left = conns[k].left
    BY SendIsData DEF KernelTypes
  <2>2. conns' = [conns EXCEPT ![k] = d] /\ fds' = fds
    BY <1>2
  <2> HIDE DEF d, k
  <2> QED
    BY <2>1, <2>2 DEF OnlyData, SameLinks, KernelTypes
<1> QED
  BY <1>1, <1>2 DEF KSend

LEMMA KRecvIsData ==
  ASSUME KernelTypes, NEW f, NEW count, NEW n, NEW r, KRecv(f, count, n, r)
  PROVE  OnlyData
<1>1. CASE UNCHANGED kernelVars
  BY <1>1 DEF OnlyData, SameLinks, kernelVars, KernelTypes
<1>2. CASE /\ conns' = [conns EXCEPT ![fds[f].conn] = Reads(@, fds[f].end, n)]
           /\ UNCHANGED fds
  <2> DEFINE k == fds[f].conn  d == Reads(conns[k], fds[f].end, n)
  <2>1. k \in Conn => IsConn(d) /\ d.st = conns[k].st /\ d.left = conns[k].left
    BY ReadIsData DEF KernelTypes
  <2>2. conns' = [conns EXCEPT ![k] = d] /\ fds' = fds
    BY <1>2
  <2> HIDE DEF d, k
  <2> QED
    BY <2>1, <2>2 DEF OnlyData, SameLinks, KernelTypes
<1> QED
  BY <1>1, <1>2 DEF KRecv

-----------------------------------------------------------------------------
(* Descriptors are opened and closed. *)
LEMMA NoConnType == IsConn(NoConn) /\ NoConn.st = "unused"
BY DEF NoConn, NewConn, IsConn, State, End

LEMMA NewConnType ==
  IsConn(NewConn) /\ NewConn.st = "syn" /\ \A e \in End : ~NewConn.left[e]
BY DEF NewConn, IsConn, State

LEMMA NewSocketType ==
  NewSocket \in Descriptor /\ NewSocket.conn = 0 /\ NewSocket.end = "client"
BY KernelAssumption DEF NewSocket, Descriptor, End

LEMMA OpenKeeps ==
  ASSUME KernelInv, NEW f, NEW new \in Descriptor, new.conn = 0, new.end = "client", KSocket(f, new)
  PROVE  KernelInv' /\ LinksStay /\ OpenFds' = OpenFds \cup {f} /\ f \in Fd \ OpenFds
<1>1. f \in Fd \ OpenFds /\ fds' = [fds EXCEPT ![f] = new] /\ conns' = conns
  BY DEF KSocket, Lowest
<1>2. OpenFds' = OpenFds \cup {f} /\ KernelTypes'
  BY <1>1, KernelAssumption DEF KernelInv, KernelTypes, OpenFds
<1>3. Ends' /\ OneEnd' /\ LinksStay
  BY <1>1, <1>2 DEF KernelInv, KernelTypes, Ends, OneEnd, LinksStay, Established, OpenFds
<1> QED
  BY <1>1, <1>2, <1>3 DEF KernelInv, NoServerYet

LEMMA LeavesResult ==
  ASSUME NEW c, IsConn(c), NEW e \in End
  PROVE  LET d == Leaves(c, e)
         IN  /\ IsConn(d)
             /\ IF c.left[Other(e)] \/ c.st \in {"syn", "refused"} THEN d.st = "unused"
                ELSE d.st = c.st /\ d.left = [c.left EXCEPT ![e] = TRUE]
<1> DEFINE g == Finishes(c, e)
           h == [g EXCEPT !.left[e] = TRUE, !.reset = @ \/ Unread(c, e) # <<>>]
<1>1. IsConn(g) /\ g.st = c.st /\ g.left = c.left
  BY FinishIsData
<1>2. Leaves(c, e) = IF c.left[Other(e)] \/ c.st \in {"syn", "refused"} THEN NoConn ELSE h
  BY DEF Leaves
<1> HIDE DEF g
<1>3. IsConn(h) /\ h.st = g.st /\ h.left = [g.left EXCEPT ![e] = TRUE]
  BY <1>1 DEF IsConn
<1> HIDE DEF h
<1> QED
  BY <1>1, <1>2, <1>3, NoConnType

LEMMA UnacceptedResult ==
  ASSUME NEW c, IsConn(c)
  PROVE  LET d == Unaccepted(c)
         IN  /\ IsConn(d)
             /\ c.st # "queued" => d = c
             /\ c.st = "queued" =>
                  IF c.left["client"] THEN d.st = "unused"
                  ELSE d.st = "open" /\ ~d.left["client"]
<1> DEFINE g == [c EXCEPT !.reset = TRUE, !.st = "open"]
<1>1. IsConn(g) /\ g.st = "open" /\ g.left = c.left
  BY DEF IsConn, State
<1>2. Unaccepted(c) = IF c.st = "queued" THEN Leaves(g, "server") ELSE c
  BY DEF Unaccepted
<1> HIDE DEF g
<1>3. "server" \in End /\ "client" \in End /\ Other("server") = "client"
  BY DEF End, Other
<1>4. LET d == Leaves(g, "server")
      IN  /\ IsConn(d)
          /\ IF g.left[Other("server")] \/ g.st \in {"syn", "refused"} THEN d.st = "unused"
             ELSE d.st = g.st /\ d.left = [g.left EXCEPT !["server"] = TRUE]
  BY <1>1, <1>3, LeavesResult
<1> QED
  BY <1>1, <1>2, <1>3, <1>4 DEF IsConn

LEMMA CloseKeeps ==
  ASSUME KernelInv, NEW cs, SameLinks(cs), NEW f \in OpenFds,
         fds' = [fds EXCEPT ![f] = NULL], conns' = AfterClose(cs, f)
  PROVE  KernelInv' /\ LinksStay /\ OpenFds' = OpenFds \ {f}
<1> DEFINE k == fds[f].conn  e == fds[f].end
<1>1. f \in Fd /\ fds[f] \in Descriptor /\ k \in 0 .. MaxConns /\ e \in End
  BY DEF KernelInv, KernelTypes, OpenFds, Descriptor
<1>2. OpenFds' = OpenFds \ {f} /\ \A g \in OpenFds' : fds'[g] = fds[g]
  BY <1>1 DEF KernelInv, KernelTypes, OpenFds
<1>3. fds' \in [Fd -> Descriptor \cup {NULL}]
  BY <1>1 DEF KernelInv, KernelTypes
<1>4. OneEnd'
  BY <1>2 DEF KernelInv, OneEnd
<1>5. \A g \in OpenFds : fds[g].conn # 0 => fds[g].conn \in Conn /\ fds[g].end \in End
  BY DEF KernelInv, KernelTypes, OpenFds, Descriptor, Conn
<1>6. CASE fds[f].listening
  <2>1. conns' = [j \in Conn |-> Unaccepted(cs[j])]
    BY <1>6 DEF AfterClose
  <2>2. \A j \in Conn : conns'[j] = Unaccepted(cs[j])
    BY <2>1
  <2>3. ASSUME NEW j \in Conn
        PROVE  /\ IsConn(conns'[j])
               /\ conns[j].st # "queued" =>
                    conns'[j].st = conns[j].st /\ conns'[j].left = conns[j].left
               /\ conns[j].st = "queued" /\ conns[j].left["client"] => conns'[j].st = "unused"
               /\ conns[j].st = "queued" /\ ~conns[j].left["client"] =>
                    conns'[j].st = "open" /\ ~conns'[j].left["client"]
    <3>1. IsConn(cs[j]) /\ cs[j].st = conns[j].st /\ cs[j].left = conns[j].left
      BY DEF SameLinks
    <3>2. conns'[j] = Unaccepted(cs[j])
      BY <2>2
    <3> QED
      BY <3>1, <3>2, UnacceptedResult
  <2>4. KernelTypes'
    <3>1. DOMAIN conns' = Conn /\ conns' = [j \in Conn |-> conns'[j]]
      BY <2>1
    <3> QED
      BY <1>3, <2>3, <3>1 DEF KernelTypes
  <2>5. NoServerYet'
    BY <2>3 DEF KernelInv, NoServerYet
  <2>6. ASSUME NEW g \in OpenFds', fds[g].conn # 0
        PROVE  LET j == fds[g].conn
               IN  /\ conns'[j].st # "unused" /\ ~conns'[j].left[fds[g].end]
                   /\ fds[g].end = "server" => conns'[j].st = "open"
                   /\ Established(j) => conns'[j].st \in {"queued", "open"}
    BY <1>2, <1>5, <2>3, <2>6 DEF KernelInv, Ends, End, Established
  <2>7. Ends' /\ LinksStay
    BY <1>2, <2>6 DEF KernelInv, Ends, LinksStay, Established
  <2> QED
    BY <1>2, <1>4, <2>4, <2>5, <2>7 DEF KernelInv
<1>7. CASE ~fds[f].listening /\ k = 0
  <2>1. conns' = cs
    BY <1>7 DEF AfterClose
  <2>2. KernelTypes' /\ NoServerYet'
    BY <1>3, <2>1 DEF KernelTypes, KernelInv, NoServerYet, SameLinks
  <2>3. Ends' /\ LinksStay
    BY <1>2, <1>5, <2>1 DEF KernelInv, Ends, LinksStay, Established, SameLinks
  <2> QED
    BY <1>2, <1>4, <2>2, <2>3 DEF KernelInv
<1>8. CASE ~fds[f].listening /\ k # 0
  <2> DEFINE d == Leaves(cs[k], e)
  <2>1. k \in Conn /\ conns' = [cs EXCEPT ![k] = d]
    BY <1>5, <1>8 DEF AfterClose
  <2>2. /\ IsConn(d)
        /\ IF conns[k].left[Other(e)] \/ conns[k].st \in {"syn", "refused"} THEN d.st = "unused"
           ELSE d.st = conns[k].st /\ d.left = [conns[k].left EXCEPT ![e] = TRUE]
    <3>1. IsConn(cs[k]) /\ cs[k].st = conns[k].st /\ cs[k].left = conns[k].left
      BY <2>1 DEF SameLinks
    <3>2. /\ IsConn(d)
          /\ IF cs[k].left[Other(e)] \/ cs[k].st \in {"syn", "refused"} THEN d.st = "unused"
             ELSE d.st = cs[k].st /\ d.left = [cs[k].left EXCEPT ![e] = TRUE]
      BY <1>1, <3>1, LeavesResult
    <3> QED
      BY <3>1, <3>2
  <2> HIDE DEF d
  <2>3. conns'[k] = d /\ \A j \in Conn \ {k} : conns'[j] = cs[j]
    BY <2>1 DEF SameLinks
  <2>4. KernelTypes'
    BY <1>3, <2>1, <2>2, <2>3 DEF KernelTypes, SameLinks
  <2>5. conns[k].left \in [End -> BOOLEAN] /\ (e = "server" => conns[k].st = "open")
    BY <1>8, <2>1 DEF KernelInv, KernelTypes, Ends, IsConn
  <2>6. NoServerYet'
    BY <1>1, <2>2, <2>3, <2>5 DEF KernelInv, NoServerYet, SameLinks, End
  <2>7. ASSUME NEW g \in OpenFds', fds[g].conn # 0
        PROVE  LET j == fds[g].conn
               IN  /\ conns'[j].st = conns[j].st
                   /\ ~conns'[j].left[fds[g].end]
    <3>1. g \in OpenFds \ {f} /\ fds[g].conn \in Conn /\ fds[g].end \in End
          /\ ~conns[fds[g].conn].left[fds[g].end]
      BY <1>2, <1>5, <2>7 DEF KernelInv, Ends
    <3>2. CASE fds[g].conn # k
      BY <2>3, <3>1, <3>2 DEF SameLinks
    <3>3. CASE fds[g].conn = k
      <4>1. fds[g].end # e
        BY <1>8, <3>1, <3>3 DEF KernelInv, OneEnd
      <4>2. fds[g].end = Other(e) /\ conns[k].st = "open"
        BY <1>1, <1>8, <3>1, <3>3, <4>1 DEF End, Other, KernelInv, Ends
      <4> QED
        BY <2>2, <2>3, <2>5, <3>1, <3>3, <4>1, <4>2
    <3> QED
      BY <3>2, <3>3
  <2>8. Ends' /\ LinksStay
    BY <1>2, <2>7 DEF KernelInv, Ends, LinksStay, Established
  <2> QED
    BY <1>2, <1>4, <2>4, <2>6, <2>8 DEF KernelInv
<1> QED
  BY <1>6, <1>7, <1>8

\* A field of a descriptor changes, not the connection it is an end of.
LEMMA FieldKeeps ==
  ASSUME KernelInv, NEW f \in OpenFds, NEW d \in Descriptor,
         d.conn = fds[f].conn, d.end = fds[f].end,
         fds' = [fds EXCEPT ![f] = d], conns' = conns
  PROVE  KernelInv' /\ LinksStay /\ OpenFds' = OpenFds
<1>1. /\ fds' \in [Fd -> Descriptor \cup {NULL}] /\ OpenFds' = OpenFds
      /\ \A g \in OpenFds : fds'[g].conn = fds[g].conn /\ fds'[g].end = fds[g].end
  BY KernelAssumption DEF KernelInv, KernelTypes, OpenFds
<1> QED
  BY <1>1 DEF KernelInv, KernelTypes, Ends, OneEnd, NoServerYet, LinksStay, Established

LEMMA NetworkKeeps ==
  ASSUME KernelInv, Network
  PROVE  KernelInv' /\ LinksStay /\ fds' = fds
<1>1. PICK k \in Used : Resolve(k) \/ Reset(k)
  BY DEF Network
<1>2. k \in Conn /\ IsConn(conns[k]) /\ DOMAIN conns = Conn
  BY DEF KernelInv, KernelTypes, Used
<1>3. CASE Reset(k)
  <2> DEFINE d == [conns[k] EXCEPT !.reset = TRUE]
  <2>1. IsConn(d) /\ d.st = conns[k].st /\ d.left = conns[k].left
    BY <1>2 DEF IsConn
  <2>2. conns' = [conns EXCEPT ![k] = d] /\ fds' = fds
    BY <1>3 DEF Reset
  <2> HIDE DEF d
  <2>3. OnlyData
    BY <2>1, <2>2, <1>2 DEF OnlyData, SameLinks, KernelInv, KernelTypes
  <2> QED
    BY <2>2, <2>3, DataKeeps
<1>4. ASSUME NEW st \in {"queued", "refused"}, Become(k, st), conns[k].st = "syn", fds' = fds
      PROVE  KernelInv' /\ LinksStay /\ fds' = fds
  <2> DEFINE d == [conns[k] EXCEPT !.st = st]
  <2>1. IsConn(d) /\ d.st = st /\ d.left = conns[k].left
    BY <1>2 DEF IsConn, State
  <2>2. conns' = [conns EXCEPT ![k] = d]
    BY <1>4 DEF Become
  <2> HIDE DEF d
  <2>3. conns'[k] = d /\ \A j \in Conn \ {k} : conns'[j] = conns[j]
    BY <1>2, <2>2
  <2>4. KernelTypes'
    BY <1>2, <1>4, <2>1, <2>2, <2>3 DEF KernelInv, KernelTypes
  <2>5. NoServerYet'
    BY <1>4, <2>1, <2>3 DEF KernelInv, NoServerYet
  <2>6. \A g \in OpenFds : fds[g].conn # 0 => fds[g].conn \in Conn
    BY DEF KernelInv, KernelTypes, OpenFds, Descriptor, Conn
  <2>7. Ends' /\ OneEnd' /\ LinksStay
    BY <1>4, <2>1, <2>3, <2>6 DEF KernelInv, Ends, OneEnd, LinksStay, Established, OpenFds
  <2> QED
    BY <1>4, <2>4, <2>5, <2>7 DEF KernelInv
<1> QED
  BY <1>1, <1>3, <1>4 DEF Resolve

LEMMA AcceptKeeps ==
  ASSUME KernelInv, NEW l, NEW f, NEW nb \in BOOLEAN, KAccept(l, f, nb, "0")
  PROVE  /\ KernelInv' /\ LinksStay
         /\ OpenFds' = OpenFds \cup {f} /\ f \in Fd \ OpenFds
         /\ \A g \in OpenFds : fds'[g] = fds[g]
         /\ fds'[f].nb = nb /\ Established(fds[f].conn)'
<1>1. f \in Fd \ OpenFds
  BY DEF KAccept, Lowest
<1>2. PICK k \in Backlog :
        /\ Become(k, "open")
        /\ fds' = [fds EXCEPT ![f] = [NewSocket EXCEPT !.conn = k, !.end = "server", !.nb = nb]]
  BY DEF KAccept
<1>3. k \in Conn /\ IsConn(conns[k]) /\ conns[k].st = "queued" /\ ~conns[k].left["server"]
      /\ DOMAIN conns = Conn
  BY DEF Backlog, Used, KernelInv, KernelTypes, NoServerYet
<1> DEFINE d == [conns[k] EXCEPT !.st = "open"]
           new == [NewSocket EXCEPT !.conn = k, !.end = "server", !.nb = nb]
<1>4. IsConn(d) /\ d.st = "open" /\ d.left = conns[k].left
  BY <1>3 DEF IsConn, State
<1>5. conns' = [conns EXCEPT ![k] = d] /\ fds' = [fds EXCEPT ![f] = new]
  BY <1>2 DEF Become
<1>6. new \in Descriptor /\ new.conn = k /\ new.end = "server" /\ new.nb = nb
  <2>1. k \in 0 .. MaxConns
    BY <1>3, KernelAssumption DEF Conn
  <2> QED
    BY <2>1, NewSocketType DEF Descriptor, End
<1> HIDE DEF d, new
<1>7. conns'[k] = d /\ \A j \in Conn \ {k} : conns'[j] = conns[j]
  BY <1>3, <1>5
<1>8. OpenFds' = OpenFds \cup {f} /\ fds'[f] = new /\ \A g \in OpenFds : fds'[g] = fds[g]
  BY <1>1, <1>5, <1>6, KernelAssumption DEF KernelInv, KernelTypes, OpenFds
<1>9. KernelTypes'
  BY <1>1, <1>3, <1>4, <1>5, <1>6, <1>7 DEF KernelInv, KernelTypes
<1>10. NoServerYet'
  BY <1>4, <1>7 DEF KernelInv, NoServerYet
<1>11. \A g \in OpenFds : fds[g].conn # 0 => fds[g].conn \in Conn
  BY DEF KernelInv, KernelTypes, OpenFds, Descriptor, Conn
<1>12. Ends'
  BY <1>3, <1>4, <1>6, <1>7, <1>8, <1>11, KernelAssumption DEF KernelInv, Ends, Conn
<1>13. OneEnd'
  BY <1>3, <1>6, <1>8 DEF KernelInv, OneEnd, Ends
<1>14. LinksStay /\ Established(fds[f].conn)'
  BY <1>3, <1>4, <1>6, <1>7, <1>8, <1>11, KernelAssumption DEF LinksStay, Established, Conn
<1> QED
  BY <1>1, <1>6, <1>8, <1>9, <1>10, <1>12, <1>13, <1>14 DEF KernelInv

LEMMA ConnectKeeps ==
  ASSUME KernelInv, NEW f \in OpenFds, NEW r, KConnect(f, r)
  PROVE  /\ KernelInv' /\ LinksStay /\ OpenFds' = OpenFds
         /\ \A g \in OpenFds : fds'[g].nb = fds[g].nb
         /\ r \in {"0", "EISCONN"} => Established(fds[f].conn)'
<1> DEFINE k == fds[f].conn
<1>1. f \in Fd /\ fds[f] \in Descriptor /\ DOMAIN conns = Conn
      /\ \A g \in OpenFds : fds[g].conn # 0 => fds[g].conn \in Conn
  BY DEF KernelInv, KernelTypes, OpenFds, Descriptor, Conn
<1>2. CASE UNCHANGED kernelVars
  <2>1. OnlyData /\ OpenFds' = OpenFds
    BY <1>2 DEF kernelVars, OnlyData, SameLinks, KernelInv, KernelTypes, OpenFds
  <2>2. r \in {"0", "EISCONN"} => Established(k)
    BY DEF KConnect, Established
  <2> QED
    BY <1>2, <2>1, <2>2, DataKeeps DEF kernelVars, Established
\* The descriptor gets connection n, which was unused, or gives up one refused.
<1>3. ASSUME NEW j \in Conn, NEW n, NEW c, IsConn(c),
             fds' = [fds EXCEPT ![f].conn = n], conns' = [conns EXCEPT ![j] = c],
             \/ k = 0 /\ n = j /\ conns[j].st = "unused" /\ c = NewConn
             \/ k = j /\ n = 0 /\ conns[j].st = "refused" /\ c = NoConn
      PROVE  KernelInv' /\ LinksStay /\ OpenFds' = OpenFds
             /\ \A g \in OpenFds : fds'[g].nb = fds[g].nb
  <2> DEFINE d == [fds[f] EXCEPT !.conn = n]
  <2>1. /\ d \in Descriptor /\ d.conn = n /\ d.end = fds[f].end /\ d.nb = fds[f].nb
    BY <1>1, <1>3, KernelAssumption DEF Descriptor, Conn
  <2>2. fds' = [fds EXCEPT ![f] = d]
    BY <1>3
  <2> HIDE DEF d
  <2>3. OpenFds' = OpenFds /\ fds'[f] = d /\ \A g \in OpenFds \ {f} : fds'[g] = fds[g]
    BY <1>1, <2>1, <2>2, KernelAssumption DEF KernelInv, KernelTypes, OpenFds
  <2>4. conns'[j] = c /\ \A i \in Conn \ {j} : conns'[i] = conns[i]
    BY <1>1, <1>3
  <2>5. KernelTypes'
    BY <1>1, <1>3, <2>1, <2>2, <2>4 DEF KernelInv, KernelTypes
  <2>6. fds[f].end = "client"
    BY <1>1, <1>3 DEF KernelInv, Ends, Descriptor, End
  <2>7. \A g \in OpenFds \ {f} : fds[g].conn # j
    BY <1>3, <2>6, KernelAssumption DEF KernelInv, KernelTypes, Ends, OneEnd, OpenFds, Descriptor, End, Conn
  <2>8. NoServerYet'
    BY <1>3, <2>4, NewConnType, NoConnType DEF KernelInv, NoServerYet, End
  <2>9. Ends'
    BY <1>1, <1>3, <2>1, <2>3, <2>4, <2>6, <2>7, NewConnType DEF KernelInv, Ends, End
  <2>10. OneEnd'
    BY <1>3, <2>1, <2>3, <2>7 DEF KernelInv, OneEnd
  <2>11. LinksStay
    BY <1>1, <1>3, <2>3, <2>4, <2>7 DEF LinksStay, Established
  <2> QED
    BY <2>1, <2>3, <2>5, <2>8, <2>9, <2>10, <2>11 DEF KernelInv
<1>4. CASE k = 0 /\ \E new \in Conn : /\ Lowest(new, Conn \ Used)
                              /\ conns' = [conns EXCEPT ![new] = NewConn]
                              /\ fds' = [fds EXCEPT ![f].conn = new]
                              /\ r = IF fds[f].nb THEN "EINPROGRESS" ELSE "WAIT"
  <2>1. PICK new \in Conn : /\ new \notin Used
                            /\ conns' = [conns EXCEPT ![new] = NewConn]
                            /\ fds' = [fds EXCEPT ![f].conn = new]
    BY <1>4 DEF Lowest
  <2> QED
    BY <1>3, <1>4, <2>1, NewConnType DEF Used
<1>5. CASE k # 0 /\ conns[k].st = "refused" /\ r = "ECONNREFUSED"
           /\ fds' = [fds EXCEPT ![f].conn = 0] /\ conns' = [conns EXCEPT ![k] = NoConn]
  BY <1>1, <1>3, <1>5, NoConnType
<1> QED
  BY <1>2, <1>4, <1>5 DEF KConnect

-----------------------------------------------------------------------------
(* Who owns a block. *)
Place == {"ptr", "ssl"} \X Role
OwnerOf(o) ==
  IF o[1] = "ptr" THEN ptr[o[2]] ELSE IF Exists(o[2]) THEN ssl[o[2]].sock ELSE NULL

LEMMA OwnersAre == Owners = [o \in Place |-> OwnerOf(o)]
BY DEF Owners, Place, OwnerOf

LEMMA NullNoBlock == NULL \notin Block
BY KernelAssumption DEF Block

LEMMA OwnersType ==
  ASSUME Types
  PROVE  /\ DOMAIN Owners = Place
         /\ \A o \in Place : Owners[o] \in Block \cup {NULL}
         /\ \A r \in Role :
              /\ <<"ptr", r>> \in Place /\ Owners[<<"ptr", r>>] = ptr[r]
              /\ <<"ssl", r>> \in Place
              /\ Owners[<<"ssl", r>>] = IF Exists(r) THEN ssl[r].sock ELSE NULL
<1>1. \A o \in Place : o[2] \in Role
  BY DEF Place
<1>2. \A o \in Place : OwnerOf(o) \in Block \cup {NULL}
  BY <1>1 DEF OwnerOf, Exists, Types, SslObject
<1>3. \A r \in Role : /\ <<"ptr", r>> \in Place /\ OwnerOf(<<"ptr", r>>) = ptr[r]
                     /\ <<"ssl", r>> \in Place
                     /\ OwnerOf(<<"ssl", r>>) = IF Exists(r) THEN ssl[r].sock ELSE NULL
  BY DEF Place, OwnerOf
<1> QED
  BY <1>2, <1>3, OwnersAre

\* One place of the owners changes.
LEMMA PtrMoves ==
  ASSUME Types, NEW r \in Role, NEW x, ptr' = [ptr EXCEPT ![r] = x], ssl' = ssl
  PROVE  Owners' = [Owners EXCEPT ![<<"ptr", r>>] = x]
<1>1. \A o \in Place : o = <<o[1], o[2]>> /\ o[1] \in {"ptr", "ssl"} /\ o[2] \in Role
  BY DEF Place
<1>2. \A o \in Place : OwnerOf(o)' = IF o = <<"ptr", r>> THEN x ELSE OwnerOf(o)
  BY <1>1 DEF OwnerOf, Exists, Types
<1>3. Owners' = [o \in Place |-> OwnerOf(o)']
  BY DEF Owners, Place, OwnerOf, Exists
<1> QED
  BY <1>2, <1>3, OwnersAre

LEMMA SslMoves ==
  ASSUME Types, NEW r \in Role, NEW s, ssl' = [ssl EXCEPT ![r] = s], ptr' = ptr,
         NEW x, x = IF s # NULL THEN s.sock ELSE NULL
  PROVE  Owners' = [Owners EXCEPT ![<<"ssl", r>>] = x]
<1>1. \A o \in Place : o = <<o[1], o[2]>> /\ o[1] \in {"ptr", "ssl"} /\ o[2] \in Role
  BY DEF Place
<1>2. \A o \in Place : OwnerOf(o)' = IF o = <<"ssl", r>> THEN x ELSE OwnerOf(o)
  BY <1>1 DEF OwnerOf, Exists, Types
<1>3. Owners' = [o \in Place |-> OwnerOf(o)']
  BY DEF Owners, Place, OwnerOf, Exists
<1> QED
  BY <1>2, <1>3, OwnersAre

LEMMA SslGets ==
  ASSUME Types, NEW r \in Role, NEW s, s # NULL, ssl' = [ssl EXCEPT ![r] = s], ptr' = ptr
  PROVE  Owners' = [Owners EXCEPT ![<<"ssl", r>>] = s.sock]
BY SslMoves

\* Nobody gains or loses a block; fields of blocks and descriptors may change.
LEMMA BlocksStay ==
  ASSUME SocketInv, KernelInv', Types', LinksStay, OpenFds' = OpenFds, Owners' = Owners,
         Live' = Live,
         \A b \in Live :
           /\ sock'[b].fd = sock[b].fd /\ sock'[b].nonblock = fds'[sock[b].fd].nb
           /\ sock'[b].connected => sock[b].connected \/ Established(fds[sock[b].fd].conn)'
  PROVE  SocketInv'
<1>1. DescriptorsOwned'
  <2>1. \A b \in Live : FdOf(b)' = FdOf(b) /\ FdOf(b) \in OpenFds
    BY DEF SocketInv, DescriptorsOwned, Owned, FdOf, OpenFds, KernelInv, KernelTypes, Types,
           Live, Fields
  <2>2. \A b \in Live' : fds'[FdOf(b)'] # NULL /\ sock'[b].nonblock = fds'[FdOf(b)'].nb
    BY <2>1 DEF FdOf, OpenFds
  <2>3. \A f \in OpenFds' : \E b \in Live' : FdOf(b)' = f
    BY <2>1 DEF SocketInv, DescriptorsOwned, Owned
  <2>4. \A b1, b2 \in Live' : FdOf(b1)' = FdOf(b2)' => b1 = b2
    BY <2>1 DEF SocketInv, DescriptorsOwned, Owned
  <2> QED
    BY <2>2, <2>3, <2>4 DEF SocketInv, DescriptorsOwned, Owned
<1>2. ConnectedTrue'
  BY DEF SocketInv, ConnectedTrue, DescriptorsOwned, Owned, FdOf, OpenFds, LinksStay,
         KernelInv, KernelTypes, Live, Types, Fields
<1> QED
  BY <1>1, <1>2 DEF SocketInv

\* A block is made with a descriptor, and put where there was none.
LEMMA BlockMade ==
  ASSUME SocketInv, KernelInv', Types', LinksStay,
         NEW b \in Block \ Live, NEW f \in Fd \ OpenFds, NEW o \in Place, NEW x \in Fields,
         x.fd = f, sock' = [sock EXCEPT ![b] = x],
         OpenFds' = OpenFds \cup {f}, \A g \in OpenFds : fds'[g] = fds[g],
         fds'[f].nb = x.nonblock, x.connected => Established(fds[f].conn)',
         Owners[o] = NULL, Owners' = [Owners EXCEPT ![o] = b]
  PROVE  SocketInv'
<1>1. /\ DOMAIN Owners = Place /\ DOMAIN sock = Block /\ b \in Block /\ b # NULL /\ x # NULL
      /\ \A c \in Live : c \in Block /\ FdOf(c) \in OpenFds
  BY OwnersType, NullNoBlock, SocketAssumption
     DEF SocketInv, Types, DescriptorsOwned, Owned, OpenFds, Live, FdOf, Fields
<1>2. /\ Live' = Live \cup {b} /\ sock'[b] = x /\ \A c \in Live : sock'[c] = sock[c]
  BY <1>1 DEF Live
<1>3. /\ Owners'[o] = b /\ DOMAIN Owners' = Place
      /\ \A p \in Place \ {o} : Owners'[p] = Owners[p]
  BY <1>1
<1>4. \A g \in OpenFds' : fds'[g] # NULL
  BY DEF OpenFds
<1>5. DescriptorsOwned'
  <2>1. FdOf(b)' = f /\ \A c \in Live : FdOf(c)' = FdOf(c)
    BY <1>2 DEF FdOf
  <2>2. \A c \in Live' : fds'[FdOf(c)'] # NULL /\ sock'[c].nonblock = fds'[FdOf(c)'].nb
    BY <1>1, <1>2, <1>4, <2>1 DEF SocketInv, DescriptorsOwned, Owned
  <2>3. \A g \in OpenFds' : \E c \in Live' : FdOf(c)' = g
    BY <1>2, <2>1 DEF SocketInv, DescriptorsOwned, Owned
  <2>4. \A b1, b2 \in Live' : FdOf(b1)' = FdOf(b2)' => b1 = b2
    BY <1>1, <1>2, <2>1 DEF SocketInv, DescriptorsOwned, Owned
  <2>5. \A c \in Live' : \E p \in Place : Owners'[p] = c
    <3>1. \A c \in Live : c # NULL /\ \E p \in Place : Owners[p] = c
      BY <1>1, NullNoBlock DEF SocketInv, DescriptorsOwned, Owned
    <3>2. \A c \in Live : \E p \in Place : Owners'[p] = c
      BY <1>3, <3>1
    <3> QED
      BY <1>2, <1>3, <3>2
  <2>6. \A p \in Place : Owners'[p] # NULL => Owners'[p] \in Live'
    <3>1. \A p \in Place : Owners[p] # NULL => Owners[p] \in Live
      BY <1>1 DEF SocketInv, DescriptorsOwned, Owned
    <3> QED
      BY <1>2, <1>3, <3>1
  <2>7. \A p, q \in Place : Owners'[p] # NULL /\ Owners'[p] = Owners'[q] => p = q
    <3>1. \A p \in Place : Owners[p] # b
      BY <1>1 DEF SocketInv, DescriptorsOwned, Owned
    <3>2. \A p, q \in Place : Owners[p] # NULL /\ Owners[p] = Owners[q] => p = q
      BY <1>1 DEF SocketInv, DescriptorsOwned, Owned
    <3> QED
      BY <1>1, <1>3, <3>1, <3>2
  <2> QED
    BY <1>3, <2>2, <2>3, <2>4, <2>5, <2>6, <2>7 DEF DescriptorsOwned, Owned
<1>6. ConnectedTrue'
  BY <1>1, <1>2 DEF SocketInv, ConnectedTrue, FdOf, LinksStay
<1> QED
  BY <1>5, <1>6 DEF SocketInv

\* The block and the descriptor of one owner are given back.
LEMMA BlockClosed ==
  ASSUME SocketInv, KernelInv', Types', LinksStay,
         NEW o \in Place, Owners[o] # NULL, sock' = [sock EXCEPT ![Owners[o]] = NULL],
         fds' = [fds EXCEPT ![FdOf(Owners[o])] = NULL],
         OpenFds' = OpenFds \ {FdOf(Owners[o])}, Owners' = [Owners EXCEPT ![o] = NULL]
  PROVE  SocketInv'
<1> DEFINE b == Owners[o]
<1>1. /\ DOMAIN Owners = Place /\ DOMAIN sock = Block /\ b \in Live /\ b \in Block
      /\ DOMAIN fds = Fd /\ FdOf(b) \in Fd
      /\ \A c \in Live : c \in Block /\ FdOf(c) \in OpenFds
  BY OwnersType DEF SocketInv, Types, DescriptorsOwned, Owned, OpenFds, Live, FdOf, Fields,
     KernelInv, KernelTypes
<1>2. /\ Live' = Live \ {b} /\ \A c \in Live \ {b} : sock'[c] = sock[c]
  BY <1>1 DEF Live
<1>3. /\ Owners'[o] = NULL /\ DOMAIN Owners' = Place
      /\ \A p \in Place \ {o} : Owners'[p] = Owners[p]
  BY <1>1
<1>4. \A c \in Live \ {b} : FdOf(c) # FdOf(b) /\ fds'[FdOf(c)] = fds[FdOf(c)]
  BY <1>1 DEF SocketInv, DescriptorsOwned, Owned, KernelInv, KernelTypes
<1>5. \A p \in Place \ {o} : Owners[p] # b
  BY <1>1 DEF SocketInv, DescriptorsOwned, Owned
<1>6. \A c \in Live \ {b} : FdOf(c)' = FdOf(c)
  BY <1>2 DEF FdOf
<1>7. DescriptorsOwned'
  <2>1. \A c \in Live' : fds'[FdOf(c)'] # NULL /\ sock'[c].nonblock = fds'[FdOf(c)'].nb
    BY <1>1, <1>2, <1>4, <1>6 DEF SocketInv, DescriptorsOwned, Owned
  <2>2. \A f \in OpenFds' : \E c \in Live' : FdOf(c)' = f
    BY <1>1, <1>2, <1>6 DEF SocketInv, DescriptorsOwned, Owned
  <2>3. \A b1, b2 \in Live' : FdOf(b1)' = FdOf(b2)' => b1 = b2
    BY <1>1, <1>2, <1>6 DEF SocketInv, DescriptorsOwned, Owned
  <2>4. \A c \in Live' : \E p \in Place : Owners'[p] = c
    BY <1>1, <1>2, <1>3 DEF SocketInv, DescriptorsOwned, Owned
  <2>5. \A p \in Place : Owners'[p] # NULL => Owners'[p] \in Live'
    BY <1>1, <1>2, <1>3, <1>5 DEF SocketInv, DescriptorsOwned, Owned
  <2>6. \A p, q \in Place : Owners'[p] # NULL /\ Owners'[p] = Owners'[q] => p = q
    BY <1>1, <1>3 DEF SocketInv, DescriptorsOwned, Owned
  <2> QED
    BY <1>3, <2>1, <2>2, <2>3, <2>4, <2>5, <2>6 DEF DescriptorsOwned, Owned
<1>8. ConnectedTrue'
  BY <1>1, <1>2, <1>4, <1>6 DEF SocketInv, ConnectedTrue, LinksStay
<1> QED
  BY <1>7, <1>8 DEF SocketInv

-----------------------------------------------------------------------------
(* The functions on one block. *)
PlacesType ==
  ptr \in [Role -> Block \cup {NULL}] /\ ssl \in [Role -> SslObject \cup {NULL}]

LEMMA LiveFds ==
  ASSUME SocketInv, NEW b \in Live
  PROVE  /\ b \in Block /\ sock[b] \in Fields /\ FdOf(b) = sock[b].fd
         /\ FdOf(b) \in OpenFds /\ fds[FdOf(b)] \in Descriptor
         /\ sock[b].nonblock = fds[FdOf(b)].nb
<1>1. b \in Block /\ sock[b] \in Fields /\ FdOf(b) = sock[b].fd /\ FdOf(b) \in Fd
  BY DEF SocketInv, Types, Live, FdOf, Fields
<1>2. fds[FdOf(b)] # NULL /\ sock[b].nonblock = fds[FdOf(b)].nb
  BY DEF SocketInv, DescriptorsOwned, Owned
<1> QED
  BY <1>1, <1>2 DEF SocketInv, KernelInv, KernelTypes, OpenFds

LEMMA NewBlockKeeps ==
  ASSUME SocketInv, PlacesType', NEW b, NEW new \in Descriptor, new.conn = 0, new.end = "client",
         NewBlock(b, new), NEW o \in Place, Owners[o] = NULL, Owners' = [Owners EXCEPT ![o] = b]
  PROVE  SocketInv' /\ b \in Block \ Live /\ \A c \in Live : sock'[c] = sock[c]
<1>1. PICK f \in Fd :
        /\ KSocket(f, new)
        /\ sock' = [sock EXCEPT ![b] = [fd |-> f, nonblock |-> new.nb, connected |-> FALSE]]
  BY DEF NewBlock
<1> DEFINE x == [fd |-> f, nonblock |-> new.nb, connected |-> FALSE]
<1>2. KernelInv' /\ LinksStay /\ OpenFds' = OpenFds \cup {f} /\ f \in Fd \ OpenFds
  BY <1>1, OpenKeeps DEF SocketInv
<1>3. b \in Block \ Live /\ x \in Fields /\ DOMAIN sock = Block
  BY DEF NewBlock, Lowest, Fields, Descriptor, SocketInv, Types
<1>4. Types' /\ \A c \in Live : sock'[c] = sock[c]
  BY <1>1, <1>3 DEF Types, PlacesType, SocketInv, Live
<1>5. fds'[f].nb = new.nb /\ \A g \in OpenFds : fds'[g] = fds[g]
  BY <1>1, <1>2 DEF KSocket, SocketInv, KernelInv, KernelTypes, OpenFds
<1>6. x.fd = f /\ x.nonblock = new.nb /\ ~x.connected /\ sock' = [sock EXCEPT ![b] = x]
  BY <1>1
<1> HIDE DEF x
<1> QED
  BY <1>2, <1>3, <1>4, <1>5, <1>6, BlockMade

LEMMA AcceptedKeeps ==
  ASSUME SocketInv, PlacesType', NEW l \in Live, NEW b, PclAccept(l, b, "0"),
         NEW o \in Place, Owners[o] = NULL, Owners' = [Owners EXCEPT ![o] = b]
  PROVE  /\ SocketInv' /\ b \in Block \ Live /\ \A c \in Live : sock'[c] = sock[c]
         /\ sock'[b] \in Fields /\ sock'[b].connected
<1>1. PICK f \in Fd \cup {NULL} :
        /\ KAccept(FdOf(l), f, sock[l].nonblock, "0") /\ b \in Block \ Live
        /\ sock' = [sock EXCEPT ![b] = [fd |-> f, nonblock |-> sock[l].nonblock, connected |-> TRUE]]
  BY DEF PclAccept, Lowest
<1> DEFINE x == [fd |-> f, nonblock |-> sock[l].nonblock, connected |-> TRUE]
<1>2. sock[l].nonblock \in BOOLEAN
  BY LiveFds DEF Fields
<1>3. /\ KernelInv' /\ LinksStay /\ OpenFds' = OpenFds \cup {f} /\ f \in Fd \ OpenFds
      /\ \A g \in OpenFds : fds'[g] = fds[g]
      /\ fds'[f].nb = sock[l].nonblock /\ Established(fds[f].conn)'
  BY <1>1, <1>2, AcceptKeeps DEF SocketInv
<1>4. x \in Fields /\ x.fd = f /\ x.nonblock = sock[l].nonblock /\ x.connected
  BY <1>2, <1>3 DEF Fields
<1>5. sock' = [sock EXCEPT ![b] = x]
  BY <1>1
<1> HIDE DEF x
<1>6. Types' /\ sock'[b] = x /\ \A c \in Live : sock'[c] = sock[c]
  BY ZenonT(30), <1>1, <1>4, <1>5 DEF Types, PlacesType, SocketInv, Live
<1> QED
  BY <1>1, <1>3, <1>4, <1>5, <1>6, BlockMade

LEMMA ClosedKeeps ==
  ASSUME SocketInv, PlacesType', NEW o \in Place, Owners[o] # NULL,
         NEW cs, SameLinks(cs), sock' = [sock EXCEPT ![Owners[o]] = NULL],
         fds' = [fds EXCEPT ![FdOf(Owners[o])] = NULL], conns' = AfterClose(cs, FdOf(Owners[o])),
         Owners' = [Owners EXCEPT ![o] = NULL]
  PROVE  SocketInv' /\ \A c \in Live \ {Owners[o]} : sock'[c] = sock[c]
<1>1. Owners[o] \in Live
  BY OwnersType DEF SocketInv, DescriptorsOwned, Owned
<1>2. FdOf(Owners[o]) \in OpenFds
  BY <1>1, LiveFds
<1>3. KernelInv' /\ LinksStay /\ OpenFds' = OpenFds \ {FdOf(Owners[o])}
  BY <1>2, CloseKeeps DEF SocketInv
<1>4. Types' /\ \A c \in Live \ {Owners[o]} : sock'[c] = sock[c]
  BY DEF SocketInv, Types, PlacesType, Live
<1> QED
  BY <1>3, <1>4, BlockClosed

LEMMA ConnectStays ==
  ASSUME SocketInv, PlacesType', NEW b \in Live, NEW r, PclConnect(b, r), Owners' = Owners
  PROVE  /\ SocketInv' /\ sock' \in [Block -> Fields \cup {NULL}]
         /\ \A c \in Live \ {b} : sock'[c] = sock[c]
         /\ sock'[b].fd = sock[b].fd
         /\ IF r = "0" THEN sock'[b].connected ELSE sock' = sock /\ ~sock[b].connected
<1>1. b # NULL /\ sock[b] \in Fields /\ sock \in [Block -> Fields \cup {NULL}] /\ FdOf(b) \in OpenFds
      /\ b \in Block /\ sock[b].fd = FdOf(b)
  BY LiveFds, NullNoBlock DEF SocketInv, Types
<1>2. CASE Alive(b)
  <2>1. r = "0" /\ UNCHANGED <<sock, kernelVars>>
    BY <1>2 DEF PclConnect
  <2>2. KernelInv' /\ LinksStay /\ OpenFds' = OpenFds
    BY <2>1 DEF SocketInv, kernelVars, KernelInv, KernelTypes, Ends, OneEnd, NoServerYet,
       LinksStay, Established, OpenFds
  <2>3. SocketInv'
    BY <1>1, <2>1, <2>2, BlocksStay, LiveFds DEF Types, PlacesType, Live, kernelVars
  <2> QED
    BY <1>1, <1>2, <2>1, <2>3 DEF Alive
<1>3. CASE ~Alive(b)
  <2>0. PICK f \in OpenFds : f = FdOf(b)
    BY <1>1
  <2>1. PICK k : KConnect(f, k) /\ r = ConnectResult(k)
    BY <1>3, <2>0 DEF PclConnect
  <2>2. sock' = IF r = "0" THEN [sock EXCEPT ![b].connected = TRUE] ELSE sock
    BY <1>3 DEF PclConnect
  <2>3. /\ KernelInv' /\ LinksStay /\ OpenFds' = OpenFds
        /\ \A g \in OpenFds : fds'[g].nb = fds[g].nb
        /\ k \in {"0", "EISCONN"} => Established(fds[f].conn)'
    BY <1>1, <2>1, ConnectKeeps DEF SocketInv
  <2>4. r = "0" => k \in {"0", "EISCONN"}
    BY <2>1 DEF ConnectResult
  <2>5. /\ sock' \in [Block -> Fields \cup {NULL}]
        /\ \A c \in Block \ {b} : sock'[c] = sock[c]
        /\ sock'[b] \in Fields
        /\ sock'[b].fd = sock[b].fd /\ sock'[b].nonblock = sock[b].nonblock
        /\ r = "0" => sock'[b].connected
        /\ r # "0" => sock' = sock
    BY <1>1, <2>2 DEF Fields
  <2>6. Live' = Live
    BY <1>1, <2>5, SocketAssumption DEF Live
  <2>7. \A c \in Live :
          /\ sock'[c].fd = sock[c].fd /\ sock'[c].nonblock = fds'[sock[c].fd].nb
          /\ sock'[c].connected => sock[c].connected \/ Established(fds[sock[c].fd].conn)'
    <3>1. \A c \in Live : sock[c].nonblock = fds'[sock[c].fd].nb
      BY <2>3, LiveFds
    <3>2. sock'[b].connected => sock[b].connected \/ Established(fds[sock[b].fd].conn)'
      BY <1>1, <2>0, <2>3, <2>4, <2>5
    <3> QED
      BY <1>1, <2>5, <3>1, <3>2 DEF Live
  <2>8. SocketInv'
    BY <2>3, <2>5, <2>6, <2>7, BlocksStay DEF Types, PlacesType
  <2> QED
    BY <1>1, <1>3, <2>2, <2>5, <2>8 DEF Alive, Live
<1> QED
  BY <1>2, <1>3

LEMMA DataStays ==
  ASSUME SocketInv, PlacesType', sock' = sock, OnlyData, Owners' = Owners
  PROVE  SocketInv'
<1>1. KernelInv' /\ LinksStay
  BY DataKeeps DEF SocketInv
<1>2. OpenFds' = OpenFds /\ Live' = Live /\ fds' = fds
  BY DEF OnlyData, OpenFds, Live
<1>3. \A c \in Live : sock[c].nonblock = fds[sock[c].fd].nb
  BY LiveFds
<1> QED
  BY <1>1, <1>2, <1>3, BlocksStay DEF SocketInv, Types, PlacesType

LEMMA ListensKeeps ==
  ASSUME SocketInv, PlacesType', NEW b \in Live, Listens(b), sock' = sock, Owners' = Owners
  PROVE  SocketInv'
<1> DEFINE f == FdOf(b)  d == [fds[f] EXCEPT !.listening = TRUE]
<1>1. f \in OpenFds /\ fds[f] \in Descriptor
  BY LiveFds
<1>2. d \in Descriptor /\ d.conn = fds[f].conn /\ d.end = fds[f].end /\ d.nb = fds[f].nb
  BY <1>1 DEF Descriptor
<1>3. fds' = [fds EXCEPT ![f] = d] /\ conns' = conns
  BY DEF Listens
<1> HIDE DEF d
<1>4. KernelInv' /\ LinksStay /\ OpenFds' = OpenFds
  BY <1>1, <1>2, <1>3, FieldKeeps DEF SocketInv
<1>5. \A g \in OpenFds : fds'[g].nb = fds[g].nb
  BY <1>1, <1>2, <1>3 DEF SocketInv, KernelInv, KernelTypes, OpenFds
<1>6. \A c \in Live : sock[c].nonblock = fds'[sock[c].fd].nb
  BY <1>5, LiveFds
<1> QED
  BY <1>4, <1>6, BlocksStay DEF SocketInv, Types, PlacesType, Live

-----------------------------------------------------------------------------
(* The application's own sockets. *)
\* The block of one place at most is touched.
Elsewhere(b) == \A c \in Live \ {b} : sock'[c] = sock[c]

LEMMA Unmoved ==
  ASSUME SocketInv, UNCHANGED <<sock, kernelVars, ptr, ssl>>
  PROVE  SocketInv'
<1>1. OnlyData /\ Owners' = Owners /\ PlacesType'
  BY DEF kernelVars, OnlyData, SameLinks, SocketInv, KernelInv, KernelTypes, Types, PlacesType,
     Owners, Exists
<1> QED
  BY <1>1, DataStays

LEMMA PtrLive ==
  ASSUME SocketInv, NEW r \in Role
  PROVE  /\ <<"ptr", r>> \in Place /\ Owners[<<"ptr", r>>] = ptr[r]
         /\ ptr[r] # NULL => ptr[r] \in Live
BY OwnersType DEF SocketInv, DescriptorsOwned, Owned

LEMMA OpenPlain ==
  ASSUME SocketInv, NEW r \in Role, Open(r), UNCHANGED tlsVars
  PROVE  SocketInv' /\ Elsewhere(ptr[r])
<1>1. PICK b \in Block \cup {NULL}, e \in {"0", "failed"} :
        ptr[r] = NULL /\ PclSocket(b, e) /\ ptr' = [ptr EXCEPT ![r] = b]
  BY DEF Open
<1>2. ssl' = ssl
  BY DEF tlsVars
<1>3. Owners' = [Owners EXCEPT ![<<"ptr", r>>] = b] /\ PlacesType'
  BY <1>1, <1>2, PtrMoves DEF SocketInv, Types, PlacesType
<1>4. CASE e = "0"
  <2>1. NewBlock(b, NewSocket)
    BY <1>1, <1>4 DEF PclSocket
  <2>2. SocketInv' /\ \A c \in Live : sock'[c] = sock[c]
    BY <1>1, <1>3, <2>1, PtrLive, NewSocketType, NewBlockKeeps
  <2> QED
    BY <2>2 DEF Elsewhere
<1>5. CASE e = "failed"
  <2>1. b = NULL /\ UNCHANGED <<sock, kernelVars>>
    BY <1>1, <1>5 DEF PclSocket
  <2>2. ptr' = ptr
    BY <1>1, <2>1 DEF SocketInv, Types
  <2> QED
    BY <1>2, <2>1, <2>2, Unmoved DEF Elsewhere
<1> QED
  BY <1>4, <1>5

LEMMA AcceptPlain ==
  ASSUME SocketInv, NEW r \in Role, Accept(r), UNCHANGED tlsVars
  PROVE  SocketInv' /\ Elsewhere(ptr[r])
<1>1. PICK b \in Block \cup {NULL}, e \in {"0", "EAGAIN", "failed"} :
        /\ ptr[r] # NULL /\ ptr["peer"] = NULL /\ PclAccept(ptr[r], b, e)
        /\ ptr' = [ptr EXCEPT !["peer"] = b]
  BY DEF Accept
<1>2. ssl' = ssl /\ "peer" \in Role
  BY DEF tlsVars, Role
<1>3. Owners' = [Owners EXCEPT ![<<"ptr", "peer">>] = b] /\ PlacesType'
  BY <1>1, <1>2, PtrMoves DEF SocketInv, Types, PlacesType
<1>4. CASE e = "0"
  <2>1. ptr[r] \in Live
    BY <1>1, PtrLive
  <2>2. SocketInv' /\ \A c \in Live : sock'[c] = sock[c]
    BY <1>1, <1>2, <1>3, <1>4, <2>1, PtrLive, AcceptedKeeps
  <2> QED
    BY <2>2 DEF Elsewhere
<1>5. CASE e # "0"
  <2>1. b = NULL /\ UNCHANGED <<sock, kernelVars>>
    BY <1>1, <1>5 DEF PclAccept, KAccept
  <2>2. ptr' = ptr
    BY <1>1, <2>1 DEF SocketInv, Types
  <2> QED
    BY <1>2, <2>1, <2>2, Unmoved DEF Elsewhere
<1> QED
  BY <1>4, <1>5

LEMMA SetPlain ==
  ASSUME SocketInv, NEW r \in Role, SetNonblocking(r), UNCHANGED tlsVars
  PROVE  SocketInv' /\ Elsewhere(ptr[r])
<1> DEFINE b == ptr[r]
<1>1. b \in Live /\ b \in Block /\ sock[b] \in Fields /\ FdOf(b) = sock[b].fd
      /\ sock \in [Block -> Fields \cup {NULL}]
  BY PtrLive, LiveFds DEF SetNonblocking, SocketInv, Types
<1>2. PICK f \in OpenFds : f = FdOf(b) /\ fds[f] \in Descriptor
  BY <1>1, LiveFds
<1> DEFINE d == [fds[f] EXCEPT !.nb = TRUE]  x == [sock[b] EXCEPT !.nonblock = TRUE]
<1>3. d \in Descriptor /\ d.conn = fds[f].conn /\ d.end = fds[f].end /\ d.nb
  BY <1>2 DEF Descriptor
<1>4. x \in Fields /\ x.fd = sock[b].fd /\ x.nonblock /\ x.connected = sock[b].connected
  BY <1>1 DEF Fields
<1>5. fds' = [fds EXCEPT ![f] = d] /\ conns' = conns /\ sock' = [sock EXCEPT ![b] = x]
      /\ ptr' = ptr /\ ssl' = ssl
  BY <1>2 DEF SetNonblocking, SetNonblock, tlsVars
<1> HIDE DEF d, x
<1>6. KernelInv' /\ LinksStay /\ OpenFds' = OpenFds
  BY <1>2, <1>3, <1>5, FieldKeeps DEF SocketInv
<1>7. Owners' = Owners /\ PlacesType' /\ Types'
  BY <1>1, <1>4, <1>5 DEF Owners, Exists, SocketInv, Types, PlacesType
<1>8. Live' = Live /\ Elsewhere(b) /\ sock'[b] = x
  BY <1>1, <1>4, <1>5, SocketAssumption DEF Live, Elsewhere
<1>9. fds'[f] = d /\ \A g \in OpenFds \ {f} : fds'[g] = fds[g]
  BY <1>2, <1>5 DEF SocketInv, KernelInv, KernelTypes, OpenFds
<1>10. ASSUME NEW c \in Live
       PROVE  /\ sock'[c].fd = sock[c].fd /\ sock'[c].nonblock = fds'[sock[c].fd].nb
              /\ sock'[c].connected => sock[c].connected \/ Established(fds[sock[c].fd].conn)'
  <2>1. CASE c = b
    <3>1. d.nb = TRUE /\ x.nonblock = TRUE
      BY <1>3, <1>4 DEF Descriptor, Fields
    <3> QED
      BY <1>1, <1>2, <1>4, <1>8, <1>9, <2>1, <3>1
  <2>2. CASE c # b
    <3>1. sock[c].fd \in OpenFds \ {f} /\ sock[c].nonblock = fds[sock[c].fd].nb
      BY <1>1, <1>2, <2>2, LiveFds DEF SocketInv, DescriptorsOwned, Owned
    <3> QED
      BY <1>8, <1>9, <2>2, <3>1 DEF Elsewhere
  <2> QED
    BY <2>1, <2>2
<1> QED
  BY <1>6, <1>7, <1>8, <1>10, BlocksStay

LEMMA ListenPlain ==
  ASSUME SocketInv, NEW r \in Role, Listen(r), UNCHANGED tlsVars
  PROVE  SocketInv' /\ Elsewhere(ptr[r])
<1>1. ptr[r] \in Live /\ Listens(ptr[r]) /\ UNCHANGED <<sock, ptr, ssl>>
  BY PtrLive DEF Listen, tlsVars
<1>2. Owners' = Owners /\ PlacesType'
  BY <1>1 DEF Owners, Exists, SocketInv, Types, PlacesType
<1> QED
  BY <1>1, <1>2, ListensKeeps DEF Elsewhere

LEMMA ConnectPlain ==
  ASSUME SocketInv, NEW r \in Role, Connect(r), UNCHANGED tlsVars
  PROVE  SocketInv' /\ Elsewhere(ptr[r])
<1>1. PICK e : PclConnect(ptr[r], e)
  BY DEF Connect
<1>2. ptr[r] \in Live /\ ptr' = ptr /\ ssl' = ssl
  BY PtrLive DEF Connect, tlsVars
<1>3. Owners' = Owners /\ PlacesType'
  BY <1>2 DEF Owners, Exists, SocketInv, Types, PlacesType
<1> QED
  BY <1>1, <1>2, <1>3, ConnectStays DEF Elsewhere

LEMMA ShutdownPlain ==
  ASSUME SocketInv, NEW r \in Role, NEW how, Shutdown(r, how), UNCHANGED tlsVars
  PROVE  SocketInv' /\ Elsewhere(ptr[r])
<1> DEFINE b == ptr[r]
<1>1. b \in Live /\ b \in Block /\ sock[b] \in Fields /\ ptr' = ptr /\ ssl' = ssl /\ fds' = fds
      /\ sock \in [Block -> Fields \cup {NULL}]
  BY PtrLive, LiveFds DEF Shutdown, tlsVars, SocketInv, Types
<1>2. OnlyData
  <2> DEFINE k == fds[FdOf(b)].conn  d == Finishes(conns[k], fds[FdOf(b)].end)
  <2>1. k \in Conn => IsConn(d) /\ d.st = conns[k].st /\ d.left = conns[k].left
    BY FinishIsData DEF SocketInv, KernelInv, KernelTypes
  <2>2. conns' = [conns EXCEPT ![k] = d]
    BY DEF Shutdown
  <2> HIDE DEF d, k
  <2> QED
    BY <1>1, <2>1, <2>2 DEF OnlyData, SameLinks, SocketInv, KernelInv, KernelTypes
<1>3. KernelInv' /\ LinksStay /\ OpenFds' = OpenFds
  BY <1>1, <1>2, DataKeeps DEF SocketInv, OpenFds
<1>4. Owners' = Owners /\ PlacesType'
  BY <1>1 DEF Owners, Exists, SocketInv, Types, PlacesType
<1>5. /\ sock' \in [Block -> Fields \cup {NULL}] /\ Live' = Live /\ Elsewhere(b)
      /\ sock'[b].fd = sock[b].fd /\ sock'[b].nonblock = sock[b].nonblock
      /\ sock'[b].connected => sock[b].connected
  <2>1. CASE sock' = sock
    BY <1>1, <2>1 DEF Live, Elsewhere
  <2>2. CASE sock' = [sock EXCEPT ![b].connected = FALSE]
    <3> DEFINE x == [sock[b] EXCEPT !.connected = FALSE]
    <3>1. x \in Fields /\ x.fd = sock[b].fd /\ x.nonblock = sock[b].nonblock /\ ~x.connected
      BY <1>1 DEF Fields
    <3>2. sock' = [sock EXCEPT ![b] = x]
      BY <2>2
    <3> HIDE DEF x
    <3> QED
      BY <1>1, <3>1, <3>2, SocketAssumption DEF Live, Elsewhere
  <2> QED
    BY <2>1, <2>2 DEF Shutdown
<1>6. \A c \in Live :
        /\ sock'[c].fd = sock[c].fd /\ sock'[c].nonblock = fds'[sock[c].fd].nb
        /\ sock'[c].connected => sock[c].connected \/ Established(fds[sock[c].fd].conn)'
  BY <1>1, <1>5, LiveFds DEF Elsewhere
<1> QED
  BY <1>1, <1>3, <1>4, <1>5, <1>6, BlocksStay DEF Types, PlacesType

LEMMA ClosePlain ==
  ASSUME SocketInv, NEW r \in Role, Close(r), UNCHANGED tlsVars
  PROVE  SocketInv' /\ Elsewhere(ptr[r])
<1>1. ptr[r] # NULL /\ PclClose(ptr[r]) /\ ptr' = [ptr EXCEPT ![r] = NULL] /\ ssl' = ssl
  BY DEF Close, tlsVars
<1>2. Owners' = [Owners EXCEPT ![<<"ptr", r>>] = NULL] /\ PlacesType'
  BY <1>1, PtrMoves DEF SocketInv, Types, PlacesType
<1>3. SameLinks(conns)
  BY DEF SameLinks, SocketInv, KernelInv, KernelTypes
<1> QED
  BY ZenonT(30), <1>1, <1>2, <1>3, PtrLive, ClosedKeeps DEF PclClose, Elsewhere

LEMMA PlainKeeps ==
  ASSUME SocketInv, SocketNext, UNCHANGED tlsVars
  PROVE  SocketInv' /\ \E b \in {NULL} \cup {ptr[r] : r \in Role} : Elsewhere(b)
<1>1. CASE Network /\ UNCHANGED socketVars
  <2>1. UNCHANGED <<sock, ptr, ssl>>
    BY <1>1 DEF socketVars, tlsVars
  <2>2. KernelInv' /\ LinksStay /\ fds' = fds
    BY <1>1, NetworkKeeps DEF SocketInv
  <2>3. OpenFds' = OpenFds /\ Owners' = Owners /\ Types' /\ Live' = Live
    BY <2>1, <2>2 DEF OpenFds, Owners, Exists, SocketInv, Types, Live
  <2>4. SocketInv'
    BY <2>1, <2>2, <2>3, BlocksStay, LiveFds
  <2> QED
    BY <2>1, <2>4 DEF Elsewhere
<1>2. ASSUME NEW r \in Role, Call(r)
      PROVE  SocketInv' /\ Elsewhere(ptr[r])
  <2>1. CASE BeginSend(r) \/ BeginRecv(r)
    <3>1. UNCHANGED <<sock, kernelVars, ptr, ssl>>
      BY <2>1 DEF BeginSend, BeginRecv, tlsVars
    <3> QED
      BY <3>1, Unmoved DEF Elsewhere
  <2> QED
    BY <1>2, <2>1, OpenPlain, ListenPlain, ConnectPlain, AcceptPlain, ClosePlain, SetPlain,
       ShutdownPlain DEF Call
<1>3. ASSUME NEW r \in Role, SendStep(r) \/ RecvStep(r)
      PROVE  SocketInv' /\ Elsewhere(ptr[r])
  <2>1. OnlyData
    BY <1>3, KSendIsData, KRecvIsData DEF SendStep, RecvStep, SocketInv, KernelInv
  <2>2. UNCHANGED <<sock, ptr, ssl>>
    BY <1>3 DEF SendStep, RecvStep, tlsVars
  <2>3. Owners' = Owners /\ PlacesType'
    BY <2>2 DEF Owners, Exists, SocketInv, Types, PlacesType
  <2> QED
    BY <2>1, <2>2, <2>3, DataStays DEF Elsewhere
<1> QED
  BY <1>1, <1>2, <1>3 DEF SocketNext

-----------------------------------------------------------------------------
(* pcl_ssl_t objects: where a call is, and what the object has then. *)
RoleOK(r) ==
  /\ ~Exists(r) => call[r].at = "idle"
  /\ Exists(r) =>
       /\ Session(r) # NULL =>
            ssl[r].sock # NULL /\ SslFd(r) = SockFd(r) /\ sock[ssl[r].sock].connected
       /\ r = "listener" =>
            /\ Session(r) = NULL /\ call[r].at \in {"idle", "bind"}
            /\ call[r].at = "bind" => ssl[r].sock # NULL
       /\ r # "listener" =>
            \/ call[r].at = "idle" /\ (Up(r) \/ (Session(r) = NULL /\ ssl[r].sock = NULL))
            \/ /\ call[r].at = "again" /\ ssl[r].sock # NULL /\ ~Up(r)
               /\ (call[r].want # "none" \/ r = "peer") <=> Session(r) # NULL
            \/ call[r].at = "connect" /\ ssl[r].sock # NULL /\ ~Up(r) /\ r = "client"
            \/ call[r].at = "negotiate" /\ Session(r) # NULL /\ ~Up(r)
            \/ call[r].at = "verify" /\ Up(r)

CallType == DOMAIN call = Role /\ call = [r \in Role |-> call[r]]

AppInv == SocketInv /\ CallType /\ \A r \in Role : RoleOK(r)

LEMMA ScriptLen == \A r : Len(Script(r)) = 4
BY DEF Script

LEMMA AppUsable == ASSUME AppInv PROVE SessionUsable
<1> SUFFICES ASSUME NEW r \in {"client", "peer"}, Exists(r)
             PROVE  /\ HasSession(r) => /\ ssl[r].sock # NULL /\ SslFd(r) = SockFd(r)
                                         /\ Alive(ssl[r].sock)
                    /\ call[r].at = "idle" => (Up(r) <=> ssl[r].sock # NULL)
                    /\ call[r].at # "idle" => ssl[r].sock # NULL
                    /\ call[r].at = "again" => (call[r].want # "none" \/ r = "peer" <=> HasSession(r))
  BY DEF SessionUsable
<1>1. r \in Role /\ r # "listener" /\ RoleOK(r)
  BY DEF AppInv, Role
<1>2. HasSession(r) <=> Session(r) # NULL
  BY DEF HasSession
<1>3. Up(r) => HasSession(r)
  BY DEF Up
<1> QED
  BY <1>1, <1>2, <1>3 DEF RoleOK, Alive

\* An object stays as it is when its socket does.
LEMMA RoleStays ==
  ASSUME AppInv, NEW q \in Role, ssl'[q] = ssl[q], call'[q] = call[q],
         NEW b, Elsewhere(b), Exists(q) /\ ssl[q].sock # NULL => ssl[q].sock # b
  PROVE  RoleOK(q)'
<1>1. Exists(q) /\ ssl[q].sock # NULL => sock'[ssl[q].sock] = sock[ssl[q].sock]
  <2> HAVE Exists(q) /\ ssl[q].sock # NULL
  <2>1. ssl[q].sock \in Live
    BY OwnersType DEF AppInv, SocketInv, DescriptorsOwned, Owned
  <2> QED
    BY <2>1 DEF Elsewhere
<1>2. RoleOK(q) /\ ssl'[q] = ssl[q] /\ call'[q] = call[q]
  BY DEF AppInv
<1>3. /\ Exists(q)' = Exists(q) /\ Up(q)' = Up(q) /\ Session(q)' = Session(q)
  BY <1>2 DEF Exists, Up, HasSession, Session
<1>4. Exists(q) /\ ssl[q].sock # NULL => SockFd(q)' = SockFd(q) /\ SslFd(q)' = SslFd(q)
  BY <1>1, <1>2, <1>3 DEF SockFd, SslFd, FdOf
<1> QED
  BY <1>1, <1>2, <1>3, <1>4 DEF RoleOK

\* After a step of one object's call: the object is s, and the call is at c.
LEMMA RoleNext ==
  ASSUME Types, CallType, NEW r \in Role, NEW s, NEW c,
         ssl' = [ssl EXCEPT ![r] = s], call' = [call EXCEPT ![r] = c]
  PROVE  /\ ssl'[r] = s /\ call'[r] = c /\ CallType'
         /\ Exists(r)' <=> s # NULL
         /\ Session(r)' = s.session /\ SslFd(r)' = s.session.fd /\ SockFd(r)' = sock'[s.sock].fd
         /\ Up(r)' <=> s # NULL /\ s.session # NULL /\ s.session.step > 4
<1>1. ssl'[r] = s /\ call'[r] = c /\ CallType'
  BY DEF Types, CallType
<1> QED
  BY <1>1, ScriptLen DEF Exists, Session, SslFd, SockFd, FdOf, Up, HasSession

LEMMA OwnSock ==
  ASSUME SocketInv, NEW r \in Role, Exists(r), ssl[r].sock # NULL
  PROVE  /\ ssl[r].sock \in Live /\ ssl[r] \in SslObject
         /\ \A q \in Role \ {r} : Exists(q) => ssl[q].sock # ssl[r].sock
         /\ \A q \in Role : ptr[q] # ssl[r].sock
<1>1. Owners[<<"ssl", r>>] = ssl[r].sock /\ <<"ssl", r>> \in Place /\ DOMAIN Owners = Place
  BY OwnersType DEF SocketInv
<1>2. \A o \in Place : Owners[o] = ssl[r].sock => o = <<"ssl", r>>
  BY <1>1 DEF SocketInv, DescriptorsOwned, Owned
<1>3. ssl[r].sock \in Live /\ ssl[r] \in SslObject
  BY <1>1 DEF SocketInv, DescriptorsOwned, Owned, Types, Exists
<1>4. ASSUME NEW q \in Role \ {r}, Exists(q) PROVE ssl[q].sock # ssl[r].sock
  <2>1. Owners[<<"ssl", q>>] = ssl[q].sock /\ <<"ssl", q>> \in Place
    BY <1>4, OwnersType DEF SocketInv
  <2>2. <<"ssl", q>> # <<"ssl", r>>
    OBVIOUS
  <2> QED
    BY <1>2, <2>1, <2>2
<1>5. ASSUME NEW q \in Role PROVE ptr[q] # ssl[r].sock
  <2>1. Owners[<<"ptr", q>>] = ptr[q] /\ <<"ptr", q>> \in Place
    BY OwnersType DEF SocketInv
  <2>2. <<"ptr", q>> # <<"ssl", r>>
    OBVIOUS
  <2> QED
    BY <1>2, <2>1, <2>2
<1> QED
  BY <1>3, <1>4, <1>5

\* One object takes a step that touches its own socket at most.
LEMMA ObjectStep ==
  ASSUME AppInv, SocketInv', NEW r \in Role, NEW s, NEW c,
         ssl' = [ssl EXCEPT ![r] = s], call' = [call EXCEPT ![r] = c],
         NEW b, Elsewhere(b), b \in Live => Exists(r) /\ b = ssl[r].sock, RoleOK(r)'
  PROVE  AppInv'
<1>1. CallType'
  BY RoleNext DEF AppInv, SocketInv
<1>2. ASSUME NEW q \in Role \ {r} PROVE RoleOK(q)'
  <2>1. ssl'[q] = ssl[q] /\ call'[q] = call[q]
    BY DEF AppInv, SocketInv, Types, CallType
  <2>2. Exists(q) /\ ssl[q].sock # NULL => ssl[q].sock # b
    <3> HAVE Exists(q) /\ ssl[q].sock # NULL
    <3>1. ssl[q].sock \in Live /\ (Exists(r) => ssl[r].sock # ssl[q].sock)
      BY OwnSock DEF AppInv
    <3> QED
      BY <3>1
  <2> QED
    BY <2>1, <2>2, RoleStays
<1> QED
  BY <1>1, <1>2 DEF AppInv

\* The object keeps its socket, of which data is moved at most.
LEMMA DataStep ==
  ASSUME AppInv, NEW r \in Role, NEW s \in SslObject, NEW c,
         s.sock = IF Exists(r) THEN ssl[r].sock ELSE NULL,
         ssl' = [ssl EXCEPT ![r] = s], call' = [call EXCEPT ![r] = c],
         OnlyData, UNCHANGED <<sock, ptr>>, RoleOK(r)'
  PROVE  AppInv'
<1>1. Types /\ ptr' = ptr
  BY DEF AppInv, SocketInv
<1>2. Owners' = Owners
  <2>1. Owners' = [Owners EXCEPT ![<<"ssl", r>>] = s.sock]
    BY <1>1, SslMoves, TlsAssumption
  <2>2. Owners[<<"ssl", r>>] = s.sock /\ Owners = [o \in Place |-> OwnerOf(o)]
    BY <1>1, OwnersType, OwnersAre
  <2> QED
    BY <2>1, <2>2
<1>3. PlacesType'
  BY DEF AppInv, SocketInv, Types, PlacesType
<1>4. SocketInv' /\ Elsewhere(NULL) /\ NULL \notin Live
  BY <1>2, <1>3, DataStays, NullNoBlock DEF AppInv, Elsewhere, Live
<1> QED
  BY <1>4, ObjectStep

LEMMA KernelIsData == ASSUME KernelTypes, UNCHANGED kernelVars PROVE OnlyData
BY DEF kernelVars, OnlyData, SameLinks, KernelTypes

LEMMA PlainApp ==
  ASSUME AppInv, SocketNext, UNCHANGED tlsVars
  PROVE  AppInv'
<1>1. SocketInv' /\ \E b \in {NULL} \cup {ptr[r] : r \in Role} : Elsewhere(b)
  BY PlainKeeps DEF AppInv
<1>2. PICK b \in {NULL} \cup {ptr[r] : r \in Role} : Elsewhere(b)
  BY <1>1
<1>3. CallType' /\ ssl' = ssl /\ call' = call
  BY DEF AppInv, CallType, tlsVars
<1>4. ASSUME NEW q \in Role PROVE RoleOK(q)'
  <2>1. Exists(q) /\ ssl[q].sock # NULL => ssl[q].sock # b
    BY <1>2, OwnSock DEF AppInv
  <2> QED
    BY <1>2, <1>3, <2>1, RoleStays
<1> QED
  BY <1>1, <1>3, <1>4 DEF AppInv

LEMMA AppInitial == AppInit => AppInv
<1> SUFFICES ASSUME AppInit PROVE AppInv
  OBVIOUS
<1>1. /\ fds = [f \in Fd |-> NULL] /\ conns = [k \in Conn |-> NoConn]
      /\ sock = [b \in Block |-> NULL] /\ ptr = [r \in Role |-> NULL]
      /\ ssl = [r \in Role |-> NULL] /\ call = [r \in Role |-> At("idle")]
  BY DEF AppInit, KernelInit, SocketInit, TlsInit
<1>2. OpenFds = {} /\ Live = {}
  BY <1>1 DEF OpenFds, Live
<1>3. KernelInv
  BY <1>1, <1>2, NoConnType DEF KernelInv, KernelTypes, Ends, OneEnd, NoServerYet
<1>4. Types /\ CallType /\ ConnectedTrue
  BY <1>1, <1>2 DEF Types, CallType, ConnectedTrue
<1>5. \A o \in Place : Owners[o] = NULL
  <2>1. \A o \in Place : o[2] \in Role
    BY DEF Place
  <2> QED
    BY <1>1, <2>1, OwnersAre DEF OwnerOf, Exists
<1>6. DescriptorsOwned
  BY <1>2, <1>4, <1>5, OwnersType DEF DescriptorsOwned, Owned
<1>7. \A r \in Role : RoleOK(r)
  BY <1>1 DEF RoleOK, Exists, At
<1> QED
  BY <1>3, <1>4, <1>6, <1>7 DEF AppInv, SocketInv

-----------------------------------------------------------------------------
(* The session and the socket go. *)
LEMMA GoodbyeIsData ==
  ASSUME KernelTypes, NEW r
  PROVE  SameLinks(Goodbye(r))
<1> DEFINE f == SslFd(r)  k == fds[f].conn  d == Sends(conns[k], fds[f].end, <<"bye">>)
<1>1. CASE Goodbye(r) = conns
  BY <1>1 DEF SameLinks, KernelTypes
<1>2. CASE Goodbye(r) = [conns EXCEPT ![k] = d]
  <2>1. k \in Conn => IsConn(d) /\ d.st = conns[k].st /\ d.left = conns[k].left
    BY SendIsData DEF KernelTypes
  <2> HIDE DEF d, k
  <2> QED
    BY <1>2, <2>1 DEF SameLinks, KernelTypes
<1> QED
  BY <1>1, <1>2 DEF Goodbye

LEMMA BecomesKeeps ==
  ASSUME AppInv, NEW r \in Role, Exists(r), ptr' = ptr,
         NEW s \in SslObject \cup {NULL}, s # NULL => s.sock = NULL /\ s.session = NULL, Becomes(r, s)
  PROVE  AppInv'
<1> DEFINE o == <<"ssl", r>>  b == ssl[r].sock
<1>1. ssl' = [ssl EXCEPT ![r] = s] /\ call' = [call EXCEPT ![r] = At("idle")]
  BY DEF Becomes, Goes
<1>2. Types /\ CallType /\ PlacesType' /\ KernelTypes
  BY <1>1 DEF AppInv, SocketInv, KernelInv, Types, PlacesType
<1>3. RoleOK(r)'
  <2>1. ssl'[r] = s /\ call'[r] = At("idle") /\ (Exists(r)' <=> s # NULL) /\ Session(r)' = s.session
    BY <1>1, <1>2 DEF Types, CallType, Exists, Session
  <2> QED
    BY <2>1 DEF RoleOK, At, Exists
<1>4. Owners' = [Owners EXCEPT ![o] = NULL] /\ Owners[o] = b /\ o \in Place
  <2>1. PICK x : x = IF s # NULL THEN s.sock ELSE NULL
    OBVIOUS
  <2>2. Owners' = [Owners EXCEPT ![o] = x]
    BY <1>1, <1>2, <2>1, SslMoves
  <2> QED
    BY <1>2, <2>1, <2>2, OwnersType
<1>5. CASE b = NULL
  <2>1. OnlyData /\ sock' = sock
    BY <1>2, <1>5, KernelIsData DEF Becomes
  <2>2. Owners' = Owners
    BY <1>4, <1>5, OwnersAre
  <2>3. SocketInv' /\ Elsewhere(NULL) /\ NULL \notin Live
    BY <1>2, <2>1, <2>2, DataStays, NullNoBlock DEF AppInv, Elsewhere, Live
  <2> QED
    BY <1>1, <1>3, <2>3, ObjectStep
<1>6. CASE b # NULL
  <2>1. /\ sock' = [sock EXCEPT ![b] = NULL] /\ fds' = [fds EXCEPT ![FdOf(b)] = NULL]
        /\ conns' = AfterClose(Goodbye(r), FdOf(b))
    BY <1>6 DEF Becomes, SockFd
  <2>2. SameLinks(Goodbye(r))
    BY <1>2, GoodbyeIsData
  <2>3. SocketInv' /\ Elsewhere(b)
    BY <1>2, <1>4, <1>6, <2>1, <2>2, ClosedKeeps DEF AppInv, Elsewhere
  <2> QED
    BY <1>1, <1>3, <2>3, ObjectStep
<1> QED
  BY <1>5, <1>6

LEMMA ClosesKeep ==
  ASSUME AppInv, NEW r \in Role, Exists(r), ptr' = ptr, SslClose(r) \/ SslFree(r)
  PROVE  AppInv'
<1>1. /\ ssl[r] \in SslObject /\ Closed(ssl[r]) \in SslObject
      /\ Closed(ssl[r]).sock = NULL /\ Closed(ssl[r]).session = NULL
  BY DEF AppInv, SocketInv, Types, Exists, Closed, SslObject
<1> QED
  BY <1>1, BecomesKeeps DEF SslClose, SslFree

-----------------------------------------------------------------------------
(* The other calls on an object. *)
LEMMA ObjectType ==
  ASSUME AppInv, NEW r \in Role, Exists(r)
  PROVE  /\ ssl[r] \in SslObject /\ ssl[r].sock \in Block \cup {NULL}
         /\ ssl[r].session \in SslSession \cup {NULL}
         /\ ssl[r].nonblock \in BOOLEAN /\ ssl[r].verify \in BOOLEAN
         /\ RoleOK(r) /\ KernelTypes /\ CallType /\ Types
         /\ call = [call EXCEPT ![r] = call[r]] /\ ssl = [ssl EXCEPT ![r] = ssl[r]]
BY DEF AppInv, SocketInv, KernelInv, Types, Exists, SslObject, CallType

\* The object itself does not change.
LEMMA CallMoves ==
  ASSUME AppInv, NEW r \in Role, Exists(r), NEW c, call' = [call EXCEPT ![r] = c],
         OnlyData, UNCHANGED <<ssl, sock, ptr>>,
         \/ c = call[r]
         \/ r = "listener" /\ c.at = "idle"
         \/ /\ r # "listener"
            /\ \/ c.at = "connect" /\ ssl[r].sock # NULL /\ ~Up(r) /\ r = "client"
               \/ c.at = "negotiate" /\ Session(r) # NULL /\ ~Up(r)
               \/ c.at = "again" /\ c.want # "none" /\ Session(r) # NULL /\ ~Up(r)
               \/ c.at = "idle" /\ Up(r)
  PROVE  AppInv'
<1>1. ssl' = [ssl EXCEPT ![r] = ssl[r]] /\ call'[r] = c
  BY ObjectType DEF CallType
<1>2. /\ Exists(r)' = Exists(r) /\ Up(r)' = Up(r) /\ Session(r)' = Session(r)
      /\ SslFd(r)' = SslFd(r) /\ SockFd(r)' = SockFd(r)
  BY DEF Exists, Up, HasSession, Session, SslFd, SockFd, FdOf
<1>3. RoleOK(r)'
  BY <1>1, <1>2, ObjectType DEF RoleOK
<1> QED
  BY <1>1, <1>3, ObjectType, DataStep

\* The object gets a socket: a listener at once, a client when it connects.
LEMMA SocketMade ==
  ASSUME AppInv, NEW r \in Role, NEW s \in SslObject, s.session = NULL,
         s.nonblock \in BOOLEAN, Exists(r) => ssl[r].sock = NULL,
         NewSocketFor(r, s), ptr' = ptr, NEW c, call' = [call EXCEPT ![r] = c],
         (r = "listener" /\ c.at = "bind") \/ (r = "client" /\ c.at = "connect")
  PROVE  AppInv'
<1>1. PICK b \in Block : /\ NewBlock(b, [NewSocket EXCEPT !.nb = s.nonblock])
                        /\ ssl' = [ssl EXCEPT ![r] = [s EXCEPT !.sock = b]]
  BY DEF NewSocketFor
<1> DEFINE new == [NewSocket EXCEPT !.nb = s.nonblock]
<1>2. new \in Descriptor /\ new.conn = 0 /\ new.end = "client"
  BY NewSocketType DEF Descriptor
<1>3. PICK t : /\ t = [s EXCEPT !.sock = b] /\ t \in SslObject /\ t.sock = b
               /\ t.session = NULL /\ t # NULL /\ b # NULL
  <2>1. LET t == [s EXCEPT !.sock = b] IN t \in SslObject /\ t.sock = b /\ t.session = NULL
    BY DEF SslObject
  <2> QED
    BY <2>1, TlsAssumption, NullNoBlock
<1>4. NewBlock(b, new) /\ ssl' = [ssl EXCEPT ![r] = t]
  BY <1>1, <1>3
<1> HIDE DEF new
<1>5. Types /\ PlacesType' /\ CallType
  BY <1>3, <1>4 DEF AppInv, SocketInv, Types, PlacesType
<1>6. Owners' = [Owners EXCEPT ![<<"ssl", r>>] = b] /\ <<"ssl", r>> \in Place
      /\ Owners[<<"ssl", r>>] = NULL
  <2>1. Owners' = [Owners EXCEPT ![<<"ssl", r>>] = t.sock]
    BY <1>3, <1>4, <1>5, SslGets
  <2>2. Exists(r) => Owners[<<"ssl", r>>] = ssl[r].sock
    BY <1>5, OwnersType
  <2>3. ~Exists(r) => Owners[<<"ssl", r>>] = NULL
    BY <1>5, OwnersType
  <2> QED
    BY <1>3, <1>5, <2>1, <2>2, <2>3, OwnersType
<1>7. SocketInv' /\ Elsewhere(NULL) /\ NULL \notin Live
  BY <1>2, <1>4, <1>5, <1>6, NewBlockKeeps, NullNoBlock DEF AppInv, Elsewhere, Live
<1>8. RoleOK(r)'
  <2>1. ssl'[r] = t /\ call'[r] = c /\ Exists(r)' /\ Session(r)' = NULL /\ ~Up(r)'
    BY <1>3, <1>4, <1>5 DEF Types, CallType, Exists, Session, Up, HasSession
  <2> QED
    BY <1>3, <2>1 DEF RoleOK
<1> QED
  BY <1>4, <1>7, <1>8, ObjectStep

LEMMA NewObjectType ==
  ASSUME NEW nonblock \in BOOLEAN, NEW verify \in BOOLEAN, NEW b \in Block \cup {NULL}
  PROVE  LET s == NewSsl(nonblock, verify, b)
         IN  /\ s \in SslObject /\ s.sock = b /\ s.session = NULL /\ s.nonblock = nonblock
BY DEF NewSsl, SslObject

LEMMA NewClientKeeps ==
  ASSUME AppInv, NEW nonblock \in BOOLEAN, NEW verify \in BOOLEAN,
         NewClient(nonblock, verify), ptr' = ptr
  PROVE  AppInv'
<1>1. PICK s : s = NewSsl(nonblock, verify, NULL)
  OBVIOUS
<1>2. s \in SslObject /\ s.sock = NULL /\ s.session = NULL
  BY <1>1, NewObjectType
<1>3. /\ ~Exists("client") /\ ssl' = [ssl EXCEPT !["client"] = s] /\ "client" \in Role
      /\ call' = [call EXCEPT !["client"] = call["client"]] /\ UNCHANGED <<sock, kernelVars>>
      /\ call' = call
  BY <1>1 DEF NewClient, Role, AppInv, CallType
<1>4. call["client"].at = "idle"
  BY <1>3 DEF AppInv, RoleOK
<1>5. OnlyData
  BY <1>3, KernelIsData DEF AppInv, SocketInv, KernelInv
<1>6. RoleOK("client")'
  <2>1. ssl'["client"] = s /\ s # NULL
    BY <1>2, <1>3, TlsAssumption DEF AppInv, SocketInv, Types
  <2> QED
    BY <1>2, <1>3, <1>4, <2>1 DEF RoleOK, Exists, Session, Up, HasSession
<1> QED
  BY <1>2, <1>3, <1>5, <1>6, DataStep

LEMMA NewListenerKeeps ==
  ASSUME AppInv, NEW nonblock \in BOOLEAN, NewListener(nonblock), ptr' = ptr
  PROVE  AppInv'
<1>1. PICK s : s = NewSsl(nonblock, FALSE, NULL)
  OBVIOUS
<1>2. s \in SslObject /\ s.session = NULL /\ s.nonblock \in BOOLEAN
  BY <1>1, NewObjectType
<1>3. /\ ~Exists("listener") /\ NewSocketFor("listener", s) /\ "listener" \in Role
  BY <1>1 DEF NewListener, Role
<1>4. PICK c : c = At("bind") /\ call' = [call EXCEPT !["listener"] = c]
  BY DEF NewListener, Goes
<1>5. c.at = "bind"
  BY <1>4 DEF At
<1> QED
  <2>1. call' = [call EXCEPT !["listener"] = c] /\ (Exists("listener") => ssl["listener"].sock = NULL)
    BY <1>3, <1>4
  <2> QED
    BY <1>2, <1>3, <1>5, <2>1, SocketMade

LEMMA BindKeeps ==
  ASSUME AppInv, BindListener, ptr' = ptr
  PROVE  AppInv'
<1>1. "listener" \in Role /\ Exists("listener") /\ call["listener"].at = "bind"
  BY DEF Role, BindListener, In
<1>2. CASE SslFree("listener")
  BY <1>1, <1>2, ClosesKeep
<1>3. CASE Listens(ssl["listener"].sock) /\ Goes("listener", At("idle")) /\ UNCHANGED <<ssl, sock>>
  <2>1. RoleOK("listener") /\ ssl["listener"].sock # NULL /\ Session("listener") = NULL
    BY <1>1 DEF AppInv, RoleOK
  <2>2. ssl["listener"].sock \in Live
    BY <1>1, <2>1, OwnSock DEF AppInv
  <2>3. Owners' = Owners /\ PlacesType'
    BY <1>3 DEF Owners, Exists, AppInv, SocketInv, Types, PlacesType
  <2>4. SocketInv' /\ Elsewhere(NULL) /\ NULL \notin Live
    BY <1>3, <2>2, <2>3, ListensKeeps, NullNoBlock DEF AppInv, Elsewhere, Live
  <2>5. ssl' = [ssl EXCEPT !["listener"] = ssl["listener"]] /\ ssl' = ssl
    BY <1>1, <1>3, ObjectType
  <2>6. PICK c : c = At("idle") /\ call' = [call EXCEPT !["listener"] = c]
    BY <1>3 DEF Goes
  <2>7. RoleOK("listener")'
    <3>1. call'["listener"].at = "idle"
      BY <1>1, <2>6 DEF At, AppInv, CallType
    <3> QED
      BY <2>1, <2>5, <3>1 DEF RoleOK, Exists, Session
  <2> QED
    BY <1>1, <2>4, <2>5, <2>6, <2>7, ObjectStep
<1> QED
  BY <1>2, <1>3 DEF BindListener

LEMMA AcceptApp ==
  ASSUME AppInv, SslAccept, ptr' = ptr
  PROVE  AppInv'
<1> DEFINE l == ssl["listener"].sock  o == <<"ssl", "peer">>
<1>1. /\ "listener" \in Role /\ "peer" \in Role /\ Exists("listener") /\ ~Exists("peer")
      /\ l # NULL
  BY DEF Role, SslAccept, In
<1>2. PICK b \in Block :
        /\ PclAccept(l, b, "0")
        /\ ssl' = [ssl EXCEPT !["peer"] =
                     [NewSsl(ssl["listener"].nonblock, FALSE, b) EXCEPT !.session = NewSession(sock'[b].fd)]]
  BY DEF SslAccept
<1>3. l \in Live
  BY <1>1, OwnSock DEF AppInv
<1>4. PICK s : s = [NewSsl(ssl["listener"].nonblock, FALSE, b) EXCEPT !.session = NewSession(sock'[b].fd)]
  OBVIOUS
<1>5. ssl' = [ssl EXCEPT !["peer"] = s] /\ s.sock = b /\ b # NULL
      /\ s.session = NewSession(sock'[b].fd) /\ s = [nonblock |-> ssl["listener"].nonblock,
            verify |-> FALSE, sock |-> b, session |-> NewSession(sock'[b].fd)]
  BY <1>2, <1>4, NullNoBlock DEF NewSsl
<1>6. sock'[b].fd \in Fd /\ NewSession(sock'[b].fd) \in SslSession
  <2>1. PICK f \in Fd : sock' = [sock EXCEPT ![b] =
                          [fd |-> f, nonblock |-> sock[l].nonblock, connected |-> TRUE]]
    BY <1>2 DEF PclAccept, KAccept, Lowest
  <2>2. sock'[b].fd \in Fd
    BY <2>1 DEF AppInv, SocketInv, Types
  <2> QED
    BY <2>2 DEF NewSession, SslSession
<1>7. s \in SslObject /\ s # NULL /\ s.session # NULL
  <2>1. s \in SslObject
    BY <1>1, <1>5, <1>6, ObjectType DEF SslObject
  <2> QED
    BY <1>5, <1>6, <2>1, TlsAssumption
<1>8. Types /\ CallType /\ PlacesType'
  BY <1>5, <1>7 DEF AppInv, SocketInv, Types, PlacesType
<1>9. Owners' = [Owners EXCEPT ![o] = s.sock] /\ o \in Place /\ Owners[o] = NULL
  BY ZenonT(30), <1>1, <1>5, <1>7, <1>8, SslGets, OwnersType
<1>10. /\ SocketInv' /\ Elsewhere(NULL) /\ NULL \notin Live
       /\ sock'[b].connected
  BY <1>2, <1>3, <1>5, <1>8, <1>9, AcceptedKeeps, NullNoBlock DEF AppInv, Elsewhere, Live
<1>11. PICK c : c = Again("none") /\ call' = [call EXCEPT !["peer"] = c]
  BY DEF SslAccept, Goes
<1>12. RoleOK("peer")'
  <2>1. /\ ssl'["peer"] = s /\ call'["peer"].at = "again" /\ Exists("peer")'
        /\ Session("peer")' = s.session /\ SslFd("peer")' = sock'[b].fd
        /\ SockFd("peer")' = sock'[b].fd
    BY <1>1, <1>5, <1>7, <1>8, <1>11
       DEF Types, CallType, Again, Exists, Session, SslFd, SockFd, FdOf, NewSession
  <2>2. ~Up("peer")'
    <3>1. s.session.step = 1
      BY <1>5 DEF NewSession
    <3>2. Len(Script("peer")) = 4
      BY ScriptLen
    <3>3. Up("peer")' => s.session.step > Len(Script("peer"))
      BY <2>1 DEF Up, HasSession
    <3> QED
      BY SMTT(20), <3>1, <3>2, <3>3
  <2> QED
    BY <1>5, <1>7, <1>10, <2>1, <2>2 DEF RoleOK
<1> QED
  BY <1>1, <1>5, <1>10, <1>11, <1>12, ObjectStep

LEMMA BeginConnectKeeps ==
  ASSUME AppInv, BeginConnect, ptr' = ptr
  PROVE  AppInv'
<1>1. "client" \in Role /\ Exists("client") /\ ~Up("client")
  BY DEF Role, BeginConnect
<1>2. PICK c : c = At("connect") /\ c.at = "connect" /\ call' = [call EXCEPT !["client"] = c]
  BY DEF BeginConnect, Goes, At
<1>3. CASE ssl["client"].sock # NULL /\ UNCHANGED <<ssl, sock, kernelVars>>
  BY <1>1, <1>2, <1>3, KernelIsData, CallMoves, ObjectType
<1>4. CASE ssl["client"].sock = NULL /\ NewSocketFor("client", ssl["client"])
  <2>1. /\ ssl["client"].session = NULL /\ ssl["client"] \in SslObject
        /\ ssl["client"].nonblock \in BOOLEAN
    BY <1>1, <1>4, ObjectType DEF RoleOK, Session
  <2> QED
    BY <1>1, <1>2, <1>4, <2>1, SocketMade
<1> QED
  BY <1>3, <1>4 DEF BeginConnect

LEMMA ConnectApp ==
  ASSUME AppInv, ConnectSocket, ptr' = ptr
  PROVE  AppInv'
<1> DEFINE b == ssl["client"].sock
<1>1. "client" \in Role /\ Exists("client") /\ call["client"].at = "connect"
  BY DEF Role, ConnectSocket, In
<1>2. /\ b # NULL /\ ~Up("client") /\ RoleOK("client")
  BY <1>1, ObjectType DEF RoleOK
<1>3. b \in Live /\ b \in Block
  BY <1>1, <1>2, OwnSock DEF AppInv, Live
<1>4. CASE PclConnect(b, "0") /\ ssl' = [ssl EXCEPT !["client"] = WithSession(@, SockFd("client"))]
           /\ Goes("client", At("negotiate"))
  <2>1. PICK s : s = WithSession(ssl["client"], SockFd("client"))
    OBVIOUS
  <2>2. ssl["client"] \in SslObject /\ SockFd("client") \in Fd /\ SockFd("client") = sock[b].fd
    BY <1>1, <1>3, ObjectType, LiveFds DEF AppInv, SockFd, FdOf, Fields
  <2>3. /\ s \in SslObject /\ s.sock = b /\ s.session # NULL /\ s.session.fd = sock[b].fd
        /\ ~(s.session.step > 4)
    <3>1. CASE ssl["client"].session = NULL
      <4>1. PICK n : n = NewSession(SockFd("client"))
        OBVIOUS
      <4>2. n \in SslSession /\ n.fd = sock[b].fd /\ n.step = 1
        BY <2>2, <4>1 DEF NewSession, SslSession
      <4>3. s = [ssl["client"] EXCEPT !.session = n]
        BY <2>1, <3>1, <4>1 DEF WithSession
      <4> QED
        BY <2>2, <4>2, <4>3, TlsAssumption DEF SslObject
    <3>2. CASE ssl["client"].session # NULL
      <4>1. s = ssl["client"] /\ s.session.fd = sock[b].fd
        BY <1>1, <1>2, <2>1, <2>2, <3>2 DEF WithSession, RoleOK, Session, SslFd
      <4>2. ~(s.session.step > 4)
        BY <1>1, <1>2, <3>2, <4>1, ScriptLen DEF Up, HasSession, Session
      <4> QED
        BY <2>2, <3>2, <4>1, <4>2
    <3> QED
      BY <3>1, <3>2
  <2>4. PICK c : c = At("negotiate") /\ c.at = "negotiate" /\ call' = [call EXCEPT !["client"] = c]
    BY <1>4 DEF Goes, At
  <2>5. ssl' = [ssl EXCEPT !["client"] = s] /\ s # NULL
    BY <1>4, <2>1, <2>3, TlsAssumption
  <2>6. Types /\ CallType /\ PlacesType'
    BY <2>3, <2>5 DEF AppInv, SocketInv, Types, PlacesType
  <2>7. Owners' = Owners
    <3>1. Owners' = [Owners EXCEPT ![<<"ssl", "client">>] = s.sock]
      BY <1>1, <2>5, <2>6, SslGets
    <3>2. Owners[<<"ssl", "client">>] = s.sock /\ Owners = [o \in Place |-> OwnerOf(o)]
      BY <1>1, <2>3, <2>6, OwnersType, OwnersAre
    <3> QED
      BY <3>1, <3>2
  <2>8. SocketInv' /\ Elsewhere(b) /\ sock'[b].fd = sock[b].fd /\ sock'[b].connected
    BY <1>3, <1>4, <2>6, <2>7, ConnectStays DEF AppInv, Elsewhere
  <2>9. RoleOK("client")'
    <3>1. /\ ssl'["client"] = s /\ call'["client"] = c /\ Exists("client")'
          /\ Session("client")' = s.session /\ SslFd("client")' = s.session.fd
          /\ SockFd("client")' = sock'[b].fd
      BY <1>1, <2>3, <2>4, <2>5, <2>6 DEF Types, CallType, Exists, Session, SslFd, SockFd, FdOf
    <3>2. ~Up("client")'
      BY <2>3, <3>1, ScriptLen DEF Up, HasSession
    <3> QED
      BY <1>2, <2>3, <2>4, <2>8, <3>1, <3>2 DEF RoleOK
  <2> QED
    BY <1>1, <2>4, <2>5, <2>8, <2>9, ObjectStep
<1>5. ASSUME NEW e \in {"running", "EAGAIN"}, PclConnect(b, e), ssl' = ssl, NEW c,
             call' = [call EXCEPT !["client"] = c],
             \/ e = "running" /\ c = call["client"]
             \/ e = "EAGAIN" /\ c = Again("none")
      PROVE  AppInv'
  <2>1. Owners' = Owners /\ PlacesType'
    BY <1>5 DEF Owners, Exists, AppInv, SocketInv, Types, PlacesType
  <2>2. SocketInv' /\ sock' = sock /\ ~sock[b].connected
    BY <1>3, <1>5, <2>1, ConnectStays DEF AppInv
  <2>3. Session("client") = NULL
    BY <1>1, <1>2, <2>2 DEF RoleOK
  <2>4. ssl' = [ssl EXCEPT !["client"] = ssl["client"]] /\ call'["client"] = c
    BY <1>1, <1>5, ObjectType DEF CallType
  <2>5. Elsewhere(NULL) /\ NULL \notin Live
    BY <2>2, NullNoBlock DEF Elsewhere, Live
  <2>6. RoleOK("client")'
    BY <1>1, <1>2, <1>5, <2>3, <2>4 DEF RoleOK, Exists, Session, Up, HasSession, Again
  <2> QED
    BY <1>1, <1>5, <2>2, <2>4, <2>5, <2>6, ObjectStep
<1>6. CASE PclConnect(b, "running") /\ UNCHANGED tlsVars
  BY <1>1, <1>5, <1>6, ObjectType DEF tlsVars
<1>7. CASE PclConnect(b, "EAGAIN") /\ Goes("client", Again("none")) /\ UNCHANGED ssl
  BY <1>5, <1>7 DEF Goes
<1>8. CASE SslClose("client")
  BY <1>1, <1>8, ClosesKeep
<1> QED
  BY <1>4, <1>6, <1>7, <1>8 DEF ConnectSocket

LEMMA NegotiateKeeps ==
  ASSUME AppInv, NEW r \in {"client", "peer"}, Negotiate(r), ptr' = ptr
  PROVE  AppInv'
<1>1. r \in Role /\ r # "listener" /\ Exists(r) /\ call[r].at = "negotiate"
  BY DEF Role, Negotiate, In
<1>2. /\ Session(r) # NULL /\ ~Up(r) /\ RoleOK(r) /\ KernelTypes /\ Types /\ CallType
      /\ ssl[r] \in SslObject /\ ssl[r].session \in SslSession
  BY <1>1, ObjectType DEF RoleOK, Session
<1>3. ssl[r].session.step \in 1 .. 4
  <2>1. Len(Script(r)) = 4
    BY ScriptLen
  <2>2. ~(ssl[r].session.step > Len(Script(r)))
    BY <1>1, <1>2 DEF Up, HasSession, Session
  <2>3. ssl[r].session.step \in 1 .. 5
    BY <1>2 DEF SslSession
  <2> QED
    BY <2>1, <2>2, <2>3
<1>4. CASE SslClose(r)
  BY <1>1, <1>4, ClosesKeep
<1>5. CASE Goes(r, Again(Wants(r))) /\ UNCHANGED <<ssl, sock, kernelVars>>
  <2>1. PICK c : c = Again(Wants(r)) /\ call' = [call EXCEPT ![r] = c]
    BY <1>5 DEF Goes
  <2>2. c.at = "again" /\ c.want # "none"
    BY <2>1 DEF Again, Wants
  <2> QED
    BY <1>1, <1>2, <1>5, <2>1, <2>2, KernelIsData, CallMoves
<1>6. CASE OnlyData /\ Progress(r)
  <2>1. PICK s : s = [ssl[r] EXCEPT !.session.step = @ + 1]
    OBVIOUS
  <2>2. /\ s \in SslObject /\ s.sock = ssl[r].sock /\ s.session.fd = ssl[r].session.fd
        /\ s.session \in SslSession /\ s.session.step = ssl[r].session.step + 1
    BY <1>2, <1>3, <2>1 DEF SslObject, SslSession
  <2>3. s # NULL /\ s.session # NULL
    BY <2>2, TlsAssumption
  <2>4. PICK c : c = IF Session(r).step = Len(Script(r)) THEN At("verify") ELSE call[r]
    OBVIOUS
  <2>5. ssl' = [ssl EXCEPT ![r] = s] /\ call' = [call EXCEPT ![r] = c] /\ sock' = sock
    BY <1>6, <2>1, <2>4 DEF Progress, Goes
  <2>6. IF ssl[r].session.step = 4 THEN c.at = "verify" ELSE c.at = "negotiate"
    <3>1. Len(Script(r)) = 4
      BY ScriptLen
    <3> QED
      BY <1>1, <2>4, <3>1 DEF Session, At
  <2>7. RoleOK(r)'
    <3>1. /\ ssl'[r] = s /\ call'[r] = c /\ Exists(r)'
          /\ Session(r)' = s.session /\ SslFd(r)' = s.session.fd
          /\ SockFd(r)' = sock[s.sock].fd
      BY <1>1, <1>2, <2>3, <2>5 DEF Types, CallType, Exists, Session, SslFd, SockFd, FdOf
    <3>2. Up(r)' <=> ssl[r].session.step = 4
      <4>1. Len(Script(r)) = 4
        BY ScriptLen
      <4>2. Up(r)' <=> s.session.step > Len(Script(r))
        BY <2>3, <3>1 DEF Up, HasSession
      <4> QED
        BY <1>3, <2>2, <4>1, <4>2
    <3>3. /\ ssl[r].sock # NULL /\ ssl[r].session.fd = sock[ssl[r].sock].fd
          /\ sock[ssl[r].sock].connected
      BY <1>1, <1>2 DEF RoleOK, SslFd, SockFd, FdOf, Session
    <3> QED
      BY <1>1, <2>2, <2>3, <2>5, <2>6, <3>1, <3>2, <3>3 DEF RoleOK
  <2>8. s.sock = IF Exists(r) THEN ssl[r].sock ELSE NULL
    BY <1>1, <2>2
  <2> QED
    BY <1>1, <1>6, <2>2, <2>5, <2>7, <2>8, DataStep
<1> QED
  BY <1>2, <1>4, <1>5, <1>6, KSendIsData, KRecvIsData DEF Negotiate

LEMMA VerifyKeeps ==
  ASSUME AppInv, NEW r \in {"client", "peer"}, Verify(r), ptr' = ptr
  PROVE  AppInv'
<1>1. r \in Role /\ r # "listener" /\ Exists(r) /\ call[r].at = "verify"
  BY DEF Role, Verify, In
<1>2. CASE SslClose(r)
  BY <1>1, <1>2, ClosesKeep
<1>3. CASE Goes(r, At("idle")) /\ UNCHANGED <<ssl, sock, kernelVars>>
  <2>1. PICK c : c = At("idle") /\ c.at = "idle" /\ call' = [call EXCEPT ![r] = c]
    BY <1>3 DEF Goes, At
  <2>2. Up(r) /\ OnlyData
    BY <1>1, <1>3, ObjectType, KernelIsData DEF RoleOK
  <2> QED
    BY <1>1, <1>3, <2>1, <2>2, CallMoves
<1> QED
  BY <1>2, <1>3 DEF Verify

LEMMA BeginHandshakeKeeps ==
  ASSUME AppInv, BeginHandshake, ptr' = ptr
  PROVE  AppInv'
<1>1. "peer" \in Role /\ Exists("peer") /\ call["peer"].at = "again"
  BY DEF Role, BeginHandshake, In
<1>2. PICK c : c = At("negotiate") /\ c.at = "negotiate" /\ call' = [call EXCEPT !["peer"] = c]
  BY DEF BeginHandshake, Goes, At
<1>3. Session("peer") # NULL /\ ~Up("peer")
  BY <1>1, ObjectType DEF RoleOK
<1>4. OnlyData /\ UNCHANGED <<ssl, sock>>
  BY <1>1, ObjectType, KernelIsData DEF BeginHandshake
<1> QED
  BY <1>1, <1>2, <1>3, <1>4, CallMoves

LEMMA DataApp ==
  ASSUME AppInv, NEW r \in {"client", "peer"}, SslSend(r) \/ SslRecv(r), ptr' = ptr
  PROVE  AppInv'
<1>1. r \in Role /\ Exists(r)
  BY DEF Role, SslSend, SslRecv, Ready, Up, HasSession
<1>2. CASE SslClose(r)
  BY <1>1, <1>2, ClosesKeep
<1>3. CASE OnlyData /\ UNCHANGED <<tlsVars, sock>>
  <2>1. UNCHANGED <<ssl, sock, ptr>> /\ call' = [call EXCEPT ![r] = call[r]]
    BY <1>1, <1>3, ObjectType DEF tlsVars
  <2> QED
    BY <1>1, <1>3, <2>1, CallMoves
<1>4. KernelTypes
  BY <1>1, ObjectType
<1> QED
  BY <1>2, <1>3, <1>4, KSendIsData, KRecvIsData DEF SslSend, SslRecv

LEMMA TlsKeeps ==
  ASSUME AppInv, TlsNext
  PROVE  AppInv'
<1>1. CASE Network /\ UNCHANGED <<sock, tlsVars>> /\ UNCHANGED <<ptr, op>>
  BY <1>1, PlainApp DEF SocketNext, socketVars
<1>2. CASE TlsCall /\ UNCHANGED <<ptr, op>>
  <2>1. ASSUME NEW r \in Role, CloseSsl(r) \/ FreeSsl(r) PROVE AppInv'
    BY <1>2, <2>1, ClosesKeep DEF CloseSsl, FreeSsl
  <2> QED
    BY <1>2, <2>1, NewListenerKeeps, NewClientKeeps, BindKeeps, AcceptApp, BeginConnectKeeps,
       ConnectApp, BeginHandshakeKeeps, NegotiateKeeps, VerifyKeeps, DataApp DEF TlsCall
<1> QED
  BY <1>1, <1>2 DEF TlsNext

LEMMA AppStutters == ASSUME AppInv, UNCHANGED TlsAll PROVE AppInv'
<1>1. UNCHANGED <<sock, kernelVars, ptr, ssl>> /\ call' = call
  BY DEF TlsAll, kernelVars, socketVars, tlsVars
<1>2. SocketInv' /\ CallType' /\ Elsewhere(NULL)
  BY <1>1, Unmoved DEF AppInv, CallType, Elsewhere
<1>3. \A q \in Role : RoleOK(q)'
  BY <1>1, <1>2, RoleStays
<1> QED
  BY <1>2, <1>3 DEF AppInv

LEMMA AppKeeps ==
  ASSUME AppInv, [AppNext]_TlsAll
  PROVE  AppInv'
BY PlainApp, TlsKeeps, AppStutters DEF AppNext

LEMMA AppInvariant == AppSpec => []AppInv
<1> QED
  BY AppInitial, AppKeeps, PTL DEF AppSpec

-----------------------------------------------------------------------------
\* However many descriptors, blocks and connections there are: every open
\* descriptor and every pcl_socket_t has one owner, a pointer of the application
\* or one pcl_ssl_t, through every failure of connecting, accepting, negotiating
\* and verifying (accept.c, connect.c, socket_close.c, ssl_connect.c, ssl_close.c).
THEOREM SocketsOwned == AppSpec => []DescriptorsOwned
<1>1. AppInv => DescriptorsOwned
  BY DEF AppInv, SocketInv
<1> QED
  BY <1>1, AppInvariant, PTL

\* A socket that says it is connected is the end of a connection that was made,
\* whatever was retried, interrupted, shut down or reset (connect.c:41-74, accept.c:90).
THEOREM SocketsConnected == AppSpec => []ConnectedTrue
<1>1. AppInv => ConnectedTrue
  BY DEF AppInv, SocketInv
<1> QED
  BY <1>1, AppInvariant, PTL

\* A pcl_ssl_t that is to be called again has what the call needs, and one that is
\* not has an open session or nothing (ssl_connect.c:60-113, ssl_handshake.c, ssl_close.c).
THEOREM SessionsUsable == AppSpec => []SessionUsable
<1> QED
  BY AppUsable, AppInvariant, PTL

-----------------------------------------------------------------------------
(* The streams of a connection. *)
Symbol == Byte \cup {"hello", "answer", "cert", "fin", "data", "bye"}

IsStream(c) ==
  /\ "sent" \in DOMAIN c /\ c.sent \in [End -> Seq(Symbol)]
  /\ "read" \in DOMAIN c /\ c.read \in [End -> Nat]
  /\ \A e \in End : c.read[e] <= Len(c.sent[Other(e)])

\* Nothing came from or was read by a server that has not accepted.
Fresh(c, e) == c.sent[e] = <<>> /\ c.read[e] = 0
StreamInv == \A k \in Conn :
  IsStream(conns[k]) /\ (conns[k].st # "open" => Fresh(conns[k], "server"))

Grows(s, t) == Len(s) <= Len(t) /\ \A i \in 1 .. Len(s) : t[i] = s[i]

\* What end e has sent and read stays, and what it may still read.
SameEnd(c, d, e) ==
  d.sent[e] = c.sent[e] /\ d.read[e] = c.read[e] /\ Grows(c.sent[Other(e)], d.sent[Other(e)])
SameStreams(c, d) == d.sent = c.sent /\ d.read = c.read

LEMMA OtherEnd ==
  ASSUME NEW e \in End
  PROVE  Other(e) \in End /\ Other(e) # e /\ Other(Other(e)) = e /\ End = {e, Other(e)}
BY DEF End, Other

LEMMA StreamTypes ==
  ASSUME NEW c, IsStream(c), NEW e \in End
  PROVE  /\ c.sent[e] \in Seq(Symbol) /\ Len(c.sent[e]) \in Nat /\ c.read[e] \in Nat
         /\ c.sent[Other(e)] \in Seq(Symbol) /\ Len(c.sent[Other(e)]) \in Nat
         /\ c.read[e] <= Len(c.sent[Other(e)])
BY OtherEnd DEF IsStream

LEMMA SameStreamsStay ==
  ASSUME NEW c, NEW d, IsStream(c), SameStreams(c, d), "sent" \in DOMAIN d, "read" \in DOMAIN d
  PROVE  /\ IsStream(d) /\ \A e \in End : SameEnd(c, d, e)
         /\ Fresh(c, "server") => Fresh(d, "server")
<1>1. IsStream(d)
  BY DEF IsStream, SameStreams
<1>2. \A e \in End : SameEnd(c, d, e)
  BY OtherEnd DEF SameEnd, SameStreams, IsStream, Grows
<1> QED
  BY <1>1, <1>2 DEF Fresh, SameStreams

LEMMA GrowsByAppending ==
  ASSUME NEW T, NEW s \in Seq(T), NEW t \in Seq(T)
  PROVE  s \o t \in Seq(T) /\ Len(s \o t) = Len(s) + Len(t) /\ Grows(s, s \o t)
BY DEF Grows

LEMMA SendsStream ==
  ASSUME NEW c, IsStream(c), NEW e \in End, NEW data \in Seq(Symbol)
  PROVE  LET d == Sends(c, e, data)
         IN  /\ IsStream(d) /\ d.sent[e] = c.sent[e] \o data
             /\ d.sent[Other(e)] = c.sent[Other(e)] /\ d.read = c.read
             /\ SameEnd(c, d, Other(e))
<1> DEFINE d == Sends(c, e, data)  o == Other(e)
<1>1. o \in End /\ o # e /\ Other(o) = e /\ End = {e, o}
  BY OtherEnd
<1>2. c.sent[e] \in Seq(Symbol) /\ c.sent[o] \in Seq(Symbol)
  BY <1>1 DEF IsStream
<1>3. /\ c.sent[e] \o data \in Seq(Symbol) /\ Grows(c.sent[e], c.sent[e] \o data)
      /\ Len(c.sent[e] \o data) >= Len(c.sent[e])
  BY <1>2, GrowsByAppending
<1>4. /\ d.sent = [c.sent EXCEPT ![e] = @ \o data] /\ d.read = c.read
      /\ "sent" \in DOMAIN d /\ "read" \in DOMAIN d
  BY DEF Sends, IsStream
<1> HIDE DEF d, o
<1>5. d.sent[e] = c.sent[e] \o data /\ d.sent[o] = c.sent[o] /\ d.sent \in [End -> Seq(Symbol)]
  BY <1>1, <1>2, <1>3, <1>4 DEF IsStream
<1>6. \A x \in End : d.read[x] <= Len(d.sent[Other(x)])
  <2>1. d.read[e] <= Len(d.sent[o])
    BY <1>4, <1>5 DEF IsStream, o
  <2>2. d.read[o] <= Len(d.sent[e])
    <3>1. c.read[o] <= Len(c.sent[e]) /\ c.read[o] \in Nat /\ Len(c.sent[e]) \in Nat
      BY <1>1, <1>2 DEF IsStream
    <3>2. Len(c.sent[e] \o data) \in Nat
      BY <1>3
    <3> QED
      BY <1>3, <1>4, <1>5, <3>1, <3>2
  <2> QED
    BY <1>1, <2>1, <2>2 DEF o
<1>7. IsStream(d)
  BY <1>4, <1>5, <1>6 DEF IsStream
<1>8. SameEnd(c, d, o)
  BY <1>1, <1>3, <1>4, <1>5 DEF SameEnd
<1> QED
  BY <1>4, <1>5, <1>7, <1>8 DEF o, d

LEMMA ReadsStream ==
  ASSUME NEW c, IsStream(c), NEW e \in End, NEW n \in 0 .. Len(Unread(c, e))
  PROVE  LET d == Reads(c, e, n)
         IN  /\ IsStream(d) /\ d.sent = c.sent /\ d.read[e] = c.read[e] + n
             /\ SameEnd(c, d, Other(e))
<1> DEFINE d == Reads(c, e, n)  o == Other(e)
<1>1. o \in End /\ o # e /\ Other(o) = e /\ End = {e, o}
  BY OtherEnd
<1>2. /\ c.sent[o] \in Seq(Symbol) /\ c.read[e] \in Nat /\ c.read[e] <= Len(c.sent[o])
      /\ c.sent[e] \in Seq(Symbol) /\ c.read[o] \in Nat /\ c.read[o] <= Len(c.sent[e])
  BY <1>1 DEF IsStream
<1>3. Len(Unread(c, e)) = Len(c.sent[o]) - c.read[e]
  BY SMTT(20), <1>2 DEF Unread
<1>4. /\ d.read = [c.read EXCEPT ![e] = @ + n] /\ d.sent = c.sent
      /\ "sent" \in DOMAIN d /\ "read" \in DOMAIN d
  BY DEF Reads, IsStream
<1> HIDE DEF d, o
<1>5. d.read[e] = c.read[e] + n /\ d.read[o] = c.read[o] /\ d.read \in [End -> Nat]
  BY <1>1, <1>2, <1>4 DEF IsStream
<1>6. \A x \in End : d.read[x] <= Len(d.sent[Other(x)])
  <2>1. d.read[e] <= Len(d.sent[o]) /\ d.read[o] <= Len(d.sent[e])
    BY <1>2, <1>3, <1>4, <1>5
  <2> QED
    BY <1>1, <2>1 DEF o
<1>7. IsStream(d)
  BY <1>4, <1>5, <1>6 DEF IsStream
<1>8. SameEnd(c, d, o)
  BY <1>1, <1>2, <1>4, <1>5 DEF SameEnd, Grows
<1> QED
  BY <1>4, <1>5, <1>7, <1>8 DEF o, d

LEMMA LeavesStream ==
  ASSUME NEW c, IsStream(c), IsConn(c), NEW e \in End
  PROVE  LET d == Leaves(c, e)
         IN  /\ IsStream(d)
             /\ IF c.left[Other(e)] \/ c.st \in {"syn", "refused"} THEN d = NoConn
                ELSE SameStreams(c, d) /\ "sent" \in DOMAIN d /\ "read" \in DOMAIN d
<1> DEFINE g == Finishes(c, e)
           h == [g EXCEPT !.left[e] = TRUE, !.reset = @ \/ Unread(c, e) # <<>>]
<1>1. Leaves(c, e) = IF c.left[Other(e)] \/ c.st \in {"syn", "refused"} THEN NoConn ELSE h
  BY DEF Leaves
<1>2. SameStreams(c, g) /\ "sent" \in DOMAIN g /\ "read" \in DOMAIN g
  BY DEF Finishes, IsStream, SameStreams
<1> HIDE DEF g
<1>3. SameStreams(c, h) /\ "sent" \in DOMAIN h /\ "read" \in DOMAIN h
  BY <1>2 DEF SameStreams
<1> HIDE DEF h
<1>4. IsStream(h)
  BY <1>3, SameStreamsStay
<1>5. IsStream(NoConn)
  BY DEF IsStream, NoConn, NewConn, Other, End
<1> QED
  BY <1>1, <1>3, <1>4, <1>5

LEMMA NewStreams ==
  /\ IsStream(NoConn) /\ IsStream(NewConn) /\ NoConn.st = "unused" /\ NewConn.st = "syn"
  /\ \A e \in End : Fresh(NoConn, e) /\ Fresh(NewConn, e)
BY DEF IsStream, NoConn, NewConn, Other, End, Fresh

LEMMA UnacceptedStream ==
  ASSUME NEW c, IsStream(c), IsConn(c), c.st # "open" => Fresh(c, "server")
  PROVE  LET d == Unaccepted(c)
         IN  /\ IsStream(d)
             /\ Fresh(c, "server") => Fresh(d, "server")
             /\ ~c.left["client"] => \A e \in End : SameEnd(c, d, e)
             /\ c.st # "queued" => d = c
<1> DEFINE g == [c EXCEPT !.reset = TRUE, !.st = "open"]
<1>1. /\ IsConn(g) /\ g.st = "open" /\ g.left = c.left
      /\ SameStreams(c, g) /\ "sent" \in DOMAIN g /\ "read" \in DOMAIN g
  BY DEF IsConn, State, IsStream, SameStreams
<1>2. Unaccepted(c) = IF c.st = "queued" THEN Leaves(g, "server") ELSE c
  BY DEF Unaccepted
<1> HIDE DEF g
<1>3. IsStream(g)
  BY <1>1, SameStreamsStay
<1>4. "server" \in End /\ "client" \in End /\ Other("server") = "client"
  BY DEF End, Other
<1> DEFINE h == Leaves(g, "server")
<1>5. /\ IsStream(h)
      /\ IF c.left["client"] THEN h = NoConn
         ELSE SameStreams(g, h) /\ "sent" \in DOMAIN h /\ "read" \in DOMAIN h
  BY <1>1, <1>3, <1>4, LeavesStream
<1> HIDE DEF h
<1>6. ~c.left["client"] => SameStreams(c, h)
  BY <1>1, <1>5 DEF SameStreams
<1>7. /\ ~c.left["client"] => \A e \in End : SameEnd(c, h, e)
      /\ Fresh(c, "server") => Fresh(h, "server")
  <2>1. Fresh(NoConn, "server")
    BY <1>4, NewStreams
  <2> QED
    BY <1>5, <1>6, <2>1, SameStreamsStay
<1>8. \A e \in End : SameEnd(c, c, e)
  BY SameStreamsStay DEF IsStream, SameStreams
<1>9. Unaccepted(c) = IF c.st = "queued" THEN h ELSE c
  BY <1>2 DEF h
<1> QED
  BY <1>5, <1>7, <1>8, <1>9

-----------------------------------------------------------------------------
(* What a step does to the streams of a descriptor it is not about. *)
EndOf(f) == fds[f].end
Keeps(f) ==
  /\ f \in OpenFds' /\ fds'[f].conn = fds[f].conn /\ EndOf(f)' = EndOf(f)
  /\ fds[f].conn # 0 => SameEnd(Link(f), conns'[fds[f].conn], EndOf(f))
KeepsBut(F) == \A f \in OpenFds \ F : Keeps(f)

LEMMA SameItself ==
  ASSUME NEW c, IsStream(c)
  PROVE  \A e \in End : SameEnd(c, c, e)
BY SameStreamsStay DEF IsStream, SameStreams

LEMMA EndTypes ==
  ASSUME KernelInv, NEW f \in OpenFds
  PROVE  /\ f \in Fd /\ fds[f] \in Descriptor /\ EndOf(f) \in End
         /\ fds[f].conn # 0 => fds[f].conn \in Conn /\ IsConn(Link(f))
         /\ fds[f].conn # 0 /\ EndOf(f) = "server" => Link(f).st = "open"
         /\ DOMAIN conns = Conn
BY DEF KernelInv, KernelTypes, Ends, OpenFds, Descriptor, Conn, EndOf, Link

\* One connection changes, at most in what one end of it has sent and read.
LEMMA OneChanges ==
  ASSUME KernelInv, StreamInv, fds' = fds, NEW g \in OpenFds, fds[g].conn # 0,
         NEW d, conns' = [conns EXCEPT ![fds[g].conn] = d], IsStream(d), d.st = Link(g).st,
         SameEnd(Link(g), d, Other(EndOf(g)))
  PROVE  StreamInv' /\ KeepsBut({g}) /\ Link(g)' = d /\ OpenFds' = OpenFds
<1> DEFINE k == fds[g].conn
<1>1. k \in Conn /\ EndOf(g) \in End /\ DOMAIN conns = Conn /\ OpenFds' = OpenFds
  BY EndTypes DEF OpenFds
<1>2. conns'[k] = d /\ \A j \in Conn \ {k} : conns'[j] = conns[j]
  BY <1>1
<1>3. conns[k] = Link(g) /\ Link(g)' = d
  BY <1>2 DEF Link
<1>4. d.st # "open" => Fresh(d, "server")
  <2> SUFFICES ASSUME d.st # "open" PROVE Fresh(d, "server")
    OBVIOUS
  <2>1. EndOf(g) = "client" /\ Other(EndOf(g)) = "server"
    BY <1>1, EndTypes DEF End, Other
  <2>2. Fresh(conns[k], "server")
    BY <1>1, <1>3 DEF StreamInv
  <2> QED
    BY <1>3, <2>1, <2>2 DEF Fresh, SameEnd
<1>5. StreamInv'
  BY <1>2, <1>4 DEF StreamInv
<1>6. ASSUME NEW f \in OpenFds \ {g} PROVE Keeps(f)
  <2>1. CASE fds[f].conn = k
    <3>1. EndOf(f) # EndOf(g)
      BY <2>1 DEF KernelInv, OneEnd, EndOf
    <3>2. EndOf(f) \in End
      BY EndTypes
    <3>3. EndOf(f) = Other(EndOf(g))
      BY <1>1, <3>1, <3>2 DEF End, Other
    <3>4. SameEnd(Link(f), conns'[fds[f].conn], EndOf(f))
      BY <1>2, <1>3, <2>1, <3>3 DEF Link
    <3> QED
      BY <1>1, <3>4 DEF Keeps, EndOf
  <2>2. CASE fds[f].conn # k
    <3>1. fds[f].conn # 0 => SameEnd(Link(f), conns'[fds[f].conn], EndOf(f))
      <4> HAVE fds[f].conn # 0
      <4>1. fds[f].conn \in Conn /\ EndOf(f) \in End
        BY EndTypes
      <4>2. conns'[fds[f].conn] = Link(f) /\ IsStream(Link(f))
        BY <1>2, <2>2, <4>1 DEF Link, StreamInv
      <4> QED
        BY <4>1, <4>2, SameItself
    <3> QED
      BY <1>1, <3>1 DEF Keeps, EndOf
  <2> QED
    BY <2>1, <2>2
<1> QED
  BY <1>1, <1>3, <1>5, <1>6 DEF KeepsBut

\* Every connection keeps its streams.
LEMMA AllKeep ==
  ASSUME KernelInv, StreamInv, OpenFds \subseteq OpenFds',
         \A f \in OpenFds : fds'[f].conn = fds[f].conn /\ EndOf(f)' = EndOf(f),
         \A k \in Conn : /\ SameStreams(conns[k], conns'[k])
                         /\ "sent" \in DOMAIN conns'[k] /\ "read" \in DOMAIN conns'[k]
                         /\ conns[k].st = "open" => conns'[k].st = "open"
  PROVE  StreamInv' /\ KeepsBut({})
<1>1. \A k \in Conn : /\ IsStream(conns'[k]) /\ \A e \in End : SameEnd(conns[k], conns'[k], e)
                      /\ Fresh(conns[k], "server") => Fresh(conns'[k], "server")
  BY SameStreamsStay DEF StreamInv
<1>2. StreamInv'
  BY <1>1 DEF StreamInv
<1>3. ASSUME NEW f \in OpenFds PROVE Keeps(f)
  <2>1. fds[f].conn # 0 => SameEnd(Link(f), conns'[fds[f].conn], EndOf(f))
    BY <1>1, EndTypes DEF Link
  <2> QED
    BY <2>1 DEF Keeps
<1> QED
  BY <1>2, <1>3 DEF KeepsBut

LEMMA NothingMoves ==
  ASSUME KernelInv, StreamInv, UNCHANGED kernelVars
  PROVE  StreamInv' /\ KeepsBut({})
<1>1. fds' = fds /\ conns' = conns /\ OpenFds' = OpenFds
  BY DEF kernelVars, OpenFds
<1>2. \A k \in Conn : "sent" \in DOMAIN conns[k] /\ "read" \in DOMAIN conns[k]
  BY DEF StreamInv, IsStream
<1> QED
  BY <1>1, <1>2, AllKeep DEF SameStreams, EndOf

LEMMA RestOfSeq ==
  ASSUME NEW T, NEW s \in Seq(T), NEW n \in Nat, n <= Len(s)
  PROVE  LET u == SubSeq(s, n + 1, Len(s))
         IN  u \in Seq(T) /\ Len(u) = Len(s) - n /\ \A i \in 1 .. Len(u) : u[i] = s[n + i]
BY SMTT(20)

LEMMA UnreadType ==
  ASSUME NEW c, IsStream(c), NEW e \in End
  PROVE  /\ Unread(c, e) \in Seq(Symbol) /\ Len(Unread(c, e)) = Len(c.sent[Other(e)]) - c.read[e]
         /\ \A i \in 1 .. Len(Unread(c, e)) : Unread(c, e)[i] = c.sent[Other(e)][c.read[e] + i]
<1>1. /\ c.sent[Other(e)] \in Seq(Symbol) /\ c.read[e] \in Nat /\ c.read[e] <= Len(c.sent[Other(e)])
  BY OtherEnd DEF IsStream
<1>2. PICK s : s = c.sent[Other(e)]
  OBVIOUS
<1>3. PICK n : n = c.read[e]
  OBVIOUS
<1>4. PICK u : u = SubSeq(s, n + 1, Len(s))
  OBVIOUS
<1>5. Unread(c, e) = u
  BY <1>2, <1>3, <1>4 DEF Unread
<1>6. s \in Seq(Symbol) /\ n \in Nat /\ n <= Len(s)
  BY <1>1, <1>2, <1>3
<1>7. u \in Seq(Symbol) /\ Len(u) = Len(s) - n /\ \A i \in 1 .. Len(u) : u[i] = s[n + i]
  BY ONLY <1>4, <1>6, RestOfSeq
<1> QED
  BY ONLY <1>2, <1>3, <1>5, <1>7

LEMMA SendStreams ==
  ASSUME KernelInv, StreamInv, NEW g \in OpenFds, fds[g].conn # 0, NEW data \in Seq(Symbol),
         NEW n, NEW r, KSend(g, data, n, r)
  PROVE  /\ StreamInv' /\ KeepsBut({g}) /\ fds' = fds
         /\ Link(g)'.read = Link(g).read
         /\ Link(g)'.sent[Other(EndOf(g))] = Link(g).sent[Other(EndOf(g))]
         /\ r # "0" => UNCHANGED kernelVars
         /\ r = "0" => /\ n \in 0 .. Len(data)
                       /\ Link(g)'.sent[EndOf(g)] = Link(g).sent[EndOf(g)] \o SubSeq(data, 1, n)
                       /\ n = 0 <=> data = <<>>
<1>1. CASE r = "0"
  <2> DEFINE x == SubSeq(data, 1, n)  d == Sends(Link(g), EndOf(g), x)
  <2>1. /\ n \in 0 .. Least(Len(data), Room(Link(g), fds[g].end)) /\ (n = 0 <=> data = <<>>)
        /\ conns' = [conns EXCEPT ![fds[g].conn] = d] /\ fds' = fds
    BY <1>1 DEF KSend, EndOf, Link
  <2>2. n \in 0 .. Len(data)
    <3>1. Len(data) \in Nat /\ Room(Link(g), fds[g].end) \in Int
      <4>1. Unread(Link(g), Other(EndOf(g))) \in Seq(Symbol)
        <5>1. IsStream(Link(g)) /\ EndOf(g) \in End /\ Other(EndOf(g)) \in End
          BY EndTypes, OtherEnd DEF StreamInv, Link
        <5> QED
          BY <5>1, UnreadType
      <4> QED
        BY <4>1, KernelAssumption DEF Room, EndOf
    <3> QED
      BY <2>1, <3>1 DEF Least
  <2>3. x \in Seq(Symbol)
    BY <2>2
  <2>4. IsStream(Link(g)) /\ IsConn(Link(g)) /\ EndOf(g) \in End
    BY EndTypes DEF StreamInv, Link
  <2> HIDE DEF x
  <2>5. /\ IsStream(d) /\ d.sent[EndOf(g)] = Link(g).sent[EndOf(g)] \o x /\ d.read = Link(g).read
        /\ SameEnd(Link(g), d, Other(EndOf(g))) /\ d.st = Link(g).st
        /\ d.sent[Other(EndOf(g))] = Link(g).sent[Other(EndOf(g))]
    BY <2>3, <2>4, SendsStream, SendIsData
  <2> HIDE DEF d
  <2>6. StreamInv' /\ KeepsBut({g}) /\ Link(g)' = d
    BY <2>1, <2>5, OneChanges
  <2> QED
    BY <1>1, <2>1, <2>2, <2>5, <2>6 DEF x
<1>2. CASE r # "0"
  <2>1. UNCHANGED kernelVars
    BY <1>2 DEF KSend
  <2> QED
    BY <1>2, <2>1, NothingMoves DEF KeepsBut, kernelVars, Link
<1> QED
  BY <1>1, <1>2

LEMMA RecvStreams ==
  ASSUME KernelInv, StreamInv, NEW g \in OpenFds, fds[g].conn # 0, NEW count \in Nat,
         NEW n, NEW r, KRecv(g, count, n, r)
  PROVE  /\ StreamInv' /\ KeepsBut({g}) /\ fds' = fds
         /\ Link(g)'.sent = Link(g).sent
         /\ r # "0" => UNCHANGED kernelVars
         /\ r = "0" => /\ n \in 0 .. count /\ n \in 0 .. Len(Here(g))
                       /\ Link(g)'.read[EndOf(g)] = Link(g).read[EndOf(g)] + n
<1>1. CASE r = "0"
  <2> DEFINE d == Reads(Link(g), EndOf(g), n)
  <2>1. /\ n \in 0 .. Least(count, Len(Here(g)))
        /\ conns' = [conns EXCEPT ![fds[g].conn] = d] /\ fds' = fds
    BY <1>1 DEF KRecv, EndOf, Link
  <2>2. IsStream(Link(g)) /\ IsConn(Link(g)) /\ EndOf(g) \in End
    BY EndTypes DEF StreamInv, Link
  <2>3. Here(g) = Unread(Link(g), EndOf(g)) /\ Len(Here(g)) \in Nat
    BY <2>2, UnreadType DEF Here, EndOf
  <2>4. n \in 0 .. count /\ n \in 0 .. Len(Here(g))
    BY <2>1, <2>3 DEF Least
  <2>5. /\ IsStream(d) /\ d.sent = Link(g).sent /\ d.read[EndOf(g)] = Link(g).read[EndOf(g)] + n
        /\ SameEnd(Link(g), d, Other(EndOf(g))) /\ d.st = Link(g).st
    BY <2>2, <2>3, <2>4, ReadsStream, ReadIsData
  <2> HIDE DEF d
  <2>6. StreamInv' /\ KeepsBut({g}) /\ Link(g)' = d
    BY <2>1, <2>5, OneChanges
  <2> QED
    BY <1>1, <2>1, <2>4, <2>5, <2>6
<1>2. CASE r # "0"
  <2>1. UNCHANGED kernelVars
    BY <1>2 DEF KRecv
  <2> QED
    BY <1>2, <2>1, NothingMoves DEF KeepsBut, kernelVars, Link
<1> QED
  BY <1>1, <1>2

LEMMA ShutdownStreams ==
  ASSUME KernelInv, StreamInv, NEW g, NEW e, fds' = fds,
         conns' = [conns EXCEPT ![fds[g].conn] = Finishes(@, e)]
  PROVE  StreamInv' /\ KeepsBut({})
<1> DEFINE k == fds[g].conn  d == Finishes(conns[k], e)
<1>1. DOMAIN conns = Conn /\ conns' = [conns EXCEPT ![k] = d] /\ OpenFds' = OpenFds
  BY DEF KernelInv, KernelTypes, OpenFds
<1>2. k \in Conn => /\ SameStreams(conns[k], d) /\ "sent" \in DOMAIN d /\ "read" \in DOMAIN d
                    /\ d.st = conns[k].st
  <2> HAVE k \in Conn
  <2>1. IsConn(conns[k]) /\ IsStream(conns[k])
    BY DEF KernelInv, KernelTypes, StreamInv
  <2> QED
    BY <2>1 DEF Finishes, SameStreams, IsStream, IsConn
<1> HIDE DEF d, k
<1>3. \A j \in Conn : conns'[j] = IF j = k THEN d ELSE conns[j]
  BY <1>1
<1>4. \A j \in Conn : /\ SameStreams(conns[j], conns'[j])
                      /\ "sent" \in DOMAIN conns'[j] /\ "read" \in DOMAIN conns'[j]
                      /\ conns[j].st = "open" => conns'[j].st = "open"
  BY <1>2, <1>3 DEF StreamInv, IsStream, SameStreams
<1> QED
  BY <1>1, <1>4, AllKeep DEF EndOf

LEMMA NetworkStreams ==
  ASSUME KernelInv, StreamInv, Network
  PROVE  StreamInv' /\ KeepsBut({})
<1>1. PICK k \in Conn : /\ fds' = fds
                        /\ \/ conns' = [conns EXCEPT ![k].reset = TRUE]
                           \/ conns[k].st = "syn" /\ \E st \in {"queued", "refused"} : Become(k, st)
  BY DEF Network, Resolve, Reset, Used
<1>2. DOMAIN conns = Conn /\ IsConn(conns[k]) /\ IsStream(conns[k]) /\ OpenFds' = OpenFds
  BY <1>1 DEF KernelInv, KernelTypes, StreamInv, OpenFds
<1>3. PICK d : /\ conns' = [conns EXCEPT ![k] = d] /\ SameStreams(conns[k], d)
               /\ "sent" \in DOMAIN d /\ "read" \in DOMAIN d
               /\ conns[k].st = "open" => d.st = "open"
  <2>1. ASSUME NEW st PROVE LET d == [conns[k] EXCEPT !.st = st]
                            IN SameStreams(conns[k], d) /\ "sent" \in DOMAIN d /\ "read" \in DOMAIN d
    BY <1>2 DEF SameStreams, IsStream
  <2>2. LET d == [conns[k] EXCEPT !.reset = TRUE]
        IN  SameStreams(conns[k], d) /\ "sent" \in DOMAIN d /\ "read" \in DOMAIN d /\ d.st = conns[k].st
    BY <1>2 DEF SameStreams, IsStream, IsConn
  <2>3. CASE conns' = [conns EXCEPT ![k].reset = TRUE]
    BY <2>2, <2>3
  <2>4. CASE conns[k].st = "syn" /\ \E st \in {"queued", "refused"} : Become(k, st)
    <3>1. PICK st : conns' = [conns EXCEPT ![k].st = st]
      BY <2>4 DEF Become
    <3> QED
      BY <2>1, <2>4, <3>1
  <2> QED
    BY <1>1, <2>3, <2>4
<1>4. \A j \in Conn : conns'[j] = IF j = k THEN d ELSE conns[j]
  BY <1>2, <1>3
<1>5. \A j \in Conn : /\ SameStreams(conns[j], conns'[j])
                      /\ "sent" \in DOMAIN conns'[j] /\ "read" \in DOMAIN conns'[j]
                      /\ conns[j].st = "open" => conns'[j].st = "open"
  BY <1>3, <1>4 DEF StreamInv, IsStream, SameStreams
<1> QED
  BY <1>1, <1>2, <1>5, AllKeep DEF EndOf

LEMMA OpenStreams ==
  ASSUME KernelInv, StreamInv, NEW f, NEW new \in Descriptor, new.conn = 0, KSocket(f, new)
  PROVE  StreamInv' /\ KeepsBut({}) /\ fds'[f].conn = 0
<1>1. f \in Fd \ OpenFds /\ fds' = [fds EXCEPT ![f] = new] /\ conns' = conns
  BY DEF KSocket, Lowest
<1>2. /\ fds'[f] = new /\ OpenFds \subseteq OpenFds'
      /\ \A g \in OpenFds : fds'[g] = fds[g]
  BY <1>1, KernelAssumption DEF KernelInv, KernelTypes, OpenFds
<1>3. \A k \in Conn : "sent" \in DOMAIN conns[k] /\ "read" \in DOMAIN conns[k]
  BY DEF StreamInv, IsStream
<1> QED
  BY <1>1, <1>2, <1>3, AllKeep DEF SameStreams, EndOf

\* A field of a descriptor changes.
LEMMA FieldStreams ==
  ASSUME KernelInv, StreamInv, NEW f \in OpenFds, NEW d \in Descriptor,
         d.conn = fds[f].conn, d.end = fds[f].end,
         fds' = [fds EXCEPT ![f] = d], conns' = conns
  PROVE  StreamInv' /\ KeepsBut({})
<1>1. /\ OpenFds \subseteq OpenFds'
      /\ \A g \in OpenFds : fds'[g].conn = fds[g].conn /\ fds'[g].end = fds[g].end
  BY KernelAssumption DEF KernelInv, KernelTypes, OpenFds
<1>2. \A k \in Conn : "sent" \in DOMAIN conns[k] /\ "read" \in DOMAIN conns[k]
  BY DEF StreamInv, IsStream
<1> QED
  BY <1>1, <1>2, AllKeep DEF SameStreams, EndOf

\* Connection j, which no other descriptor is an end of, begins anew or is given up.
LEMMA RenewStreams ==
  ASSUME KernelInv, StreamInv, NEW f \in OpenFds, NEW j \in Conn, NEW n \in 0 .. MaxConns, NEW c,
         fds' = [fds EXCEPT ![f].conn = n], conns' = [conns EXCEPT ![j] = c],
         IsStream(c), \A e \in End : Fresh(c, e),
         \A g \in OpenFds \ {f} : fds[g].conn # j
  PROVE  StreamInv' /\ KeepsBut({f}) /\ f \in OpenFds' /\ fds'[f].conn = n /\ EndOf(f)' = EndOf(f)
<1> DEFINE d == [fds[f] EXCEPT !.conn = n]
<1>1. f \in Fd /\ fds[f] \in Descriptor /\ DOMAIN conns = Conn /\ fds \in [Fd -> Descriptor \cup {NULL}]
  BY EndTypes DEF KernelInv, KernelTypes
<1>2. d.conn = n /\ d.end = fds[f].end
  BY <1>1 DEF Descriptor
<1>3. fds' = [fds EXCEPT ![f] = d]
  OBVIOUS
<1>9. d # NULL
  BY <1>1, KernelAssumption DEF Descriptor
<1> HIDE DEF d
<1>4. fds'[f] = d /\ \A g \in OpenFds \ {f} : fds'[g] = fds[g]
  BY <1>1, <1>3 DEF OpenFds
<1>5. conns'[j] = c /\ \A k \in Conn \ {j} : conns'[k] = conns[k]
  BY <1>1
<1>6. "server" \in End
  BY DEF End
<1>7. StreamInv'
  BY <1>5, <1>6 DEF StreamInv
<1>8. ASSUME NEW g \in OpenFds \ {f} PROVE Keeps(g)
  <2>1. g \in OpenFds' /\ fds'[g] = fds[g]
    BY <1>4 DEF OpenFds
  <2>2. fds[g].conn # 0 => SameEnd(Link(g), conns'[fds[g].conn], EndOf(g))
    <3> HAVE fds[g].conn # 0
    <3>1. fds[g].conn \in Conn \ {j} /\ EndOf(g) \in End
      BY EndTypes
    <3>2. conns'[fds[g].conn] = Link(g) /\ IsStream(Link(g))
      BY <1>5, <3>1 DEF Link, StreamInv
    <3> QED
      BY <3>1, <3>2, SameItself
  <2> QED
    BY <2>1, <2>2 DEF Keeps, EndOf
<1> QED
  BY <1>1, <1>2, <1>4, <1>7, <1>8, <1>9 DEF KeepsBut, EndOf, OpenFds

\* connect(2): the descriptor's streams stay, or it gets new ones or none.
LEMMA ConnectStreams ==
  ASSUME KernelInv, KernelInv', StreamInv, NEW f \in OpenFds, NEW r, KConnect(f, r)
  PROVE  /\ StreamInv' /\ KeepsBut({f}) /\ f \in OpenFds'
         /\ \/ Keeps(f)
            \/ fds'[f].conn = 0
            \/ fds'[f].conn # 0 /\ Fresh(Link(f)', EndOf(f)')
<1> DEFINE k == fds[f].conn
<1>1. f \in Fd /\ fds[f] \in Descriptor /\ (k # 0 => k \in Conn)
  BY EndTypes
<1>2. CASE UNCHANGED kernelVars
  <2>1. StreamInv' /\ KeepsBut({})
    BY <1>2, NothingMoves
  <2>2. f \in OpenFds'
    BY <1>2 DEF kernelVars, OpenFds
  <2> QED
    BY <2>1, <2>2 DEF KeepsBut
<1>3. CASE k = 0 /\ \E new \in Conn : /\ new \notin Used
                                     /\ conns' = [conns EXCEPT ![new] = NewConn]
                                     /\ fds' = [fds EXCEPT ![f].conn = new]
  <2>1. PICK new \in Conn : /\ new \notin Used
                            /\ conns' = [conns EXCEPT ![new] = NewConn]
                            /\ fds' = [fds EXCEPT ![f].conn = new]
    BY <1>3
  <2>2. new # 0 /\ DOMAIN conns = Conn /\ new \in 0 .. MaxConns
    BY EndTypes, KernelAssumption DEF Conn
  <2>3. \A g \in OpenFds \ {f} : fds[g].conn # new
    BY <2>1, <2>2, EndTypes DEF KernelInv, Ends, Used
  <2>4. StreamInv' /\ KeepsBut({f}) /\ f \in OpenFds' /\ fds'[f].conn = new /\ EndOf(f)' = EndOf(f)
    BY <2>1, <2>2, <2>3, NewStreams, RenewStreams
  <2>5. Link(f)' = NewConn
    BY <2>1, <2>2, <2>4 DEF Link
  <2> QED
    BY <2>2, <2>4, <2>5, NewStreams, EndTypes
<1>4. CASE k # 0 /\ conns[k].st = "refused"
           /\ fds' = [fds EXCEPT ![f].conn = 0] /\ conns' = [conns EXCEPT ![k] = NoConn]
  <2>1. k \in Conn /\ EndOf(f) = "client"
    BY <1>1, <1>4, EndTypes DEF End, Link
  <2>2. \A g \in OpenFds \ {f} : fds[g].conn # k
    <3> SUFFICES ASSUME NEW g \in OpenFds, fds[g].conn = k PROVE g = f
      OBVIOUS
    <3>1. EndOf(g) = "client"
      BY <1>4, EndTypes DEF End, Link
    <3> QED
      BY <1>4, <2>1, <3>1 DEF KernelInv, OneEnd, EndOf
  <2>3. StreamInv' /\ KeepsBut({f}) /\ f \in OpenFds' /\ fds'[f].conn = 0
    <3>1. 0 \in 0 .. MaxConns
      BY KernelAssumption
    <3> QED
      BY <1>4, <2>1, <2>2, <3>1, NewStreams, RenewStreams
  <2> QED
    BY <2>3
<1> QED
  BY <1>2, <1>3, <1>4 DEF KConnect, Lowest

\* accept(2): nothing has been sent or read at the new descriptor.
LEMMA AcceptStreams ==
  ASSUME KernelInv, StreamInv, NEW l, NEW f, NEW nb \in BOOLEAN, KAccept(l, f, nb, "0")
  PROVE  /\ StreamInv' /\ KeepsBut({}) /\ fds'[f].conn # 0 /\ Fresh(Link(f)', EndOf(f)')
<1>1. f \in Fd \ OpenFds
  BY DEF KAccept, Lowest
<1>2. PICK k \in Backlog :
        /\ Become(k, "open")
        /\ fds' = [fds EXCEPT ![f] = [NewSocket EXCEPT !.conn = k, !.end = "server", !.nb = nb]]
  BY DEF KAccept
<1>3. k \in Conn /\ conns[k].st = "queued" /\ DOMAIN conns = Conn /\ k # 0
  BY DEF Backlog, Used, KernelInv, KernelTypes, Conn
<1> DEFINE d == [conns[k] EXCEPT !.st = "open"]
           new == [NewSocket EXCEPT !.conn = k, !.end = "server", !.nb = nb]
<1>4. /\ SameStreams(conns[k], d) /\ "sent" \in DOMAIN d /\ "read" \in DOMAIN d
      /\ Fresh(d, "server")
  BY <1>3 DEF SameStreams, StreamInv, IsStream, Fresh
<1>5. new.conn = k /\ new.end = "server" /\ new # NULL
  <2>1. k \in 0 .. MaxConns
    BY <1>3, KernelAssumption DEF Conn
  <2>2. new \in Descriptor
    BY <2>1, NewSocketType DEF Descriptor, End
  <2> QED
    BY <2>2, KernelAssumption DEF NewSocket
<1>6. conns' = [conns EXCEPT ![k] = d] /\ fds' = [fds EXCEPT ![f] = new]
  BY <1>2 DEF Become
<1> HIDE DEF d, new
<1>7. conns'[k] = d /\ \A j \in Conn \ {k} : conns'[j] = conns[j]
  BY <1>3, <1>6
<1>8. fds'[f] = new /\ OpenFds \subseteq OpenFds' /\ \A g \in OpenFds : fds'[g] = fds[g]
  BY <1>1, <1>5, <1>6 DEF KernelInv, KernelTypes, OpenFds
<1>9. \A j \in Conn : /\ SameStreams(conns[j], conns'[j])
                      /\ "sent" \in DOMAIN conns'[j] /\ "read" \in DOMAIN conns'[j]
                      /\ conns[j].st = "open" => conns'[j].st = "open"
  BY <1>3, <1>4, <1>7 DEF StreamInv, IsStream, SameStreams
<1>10. StreamInv' /\ KeepsBut({})
  BY <1>8, <1>9, AllKeep DEF EndOf
<1> QED
  BY <1>3, <1>4, <1>5, <1>7, <1>8, <1>10 DEF Link, EndOf

\* Connections that differ from conns at most in what g's end has sent and read.
ButOwn(cs, g) == \A f \in OpenFds \ {g} :
  fds[f].conn # 0 => SameEnd(Link(f), cs[fds[f].conn], EndOf(f))
AreStreams(cs) == \A k \in Conn :
  IsStream(cs[k]) /\ (cs[k].st # "open" => Fresh(cs[k], "server"))

LEMMA SameEndTwice ==
  ASSUME NEW b, NEW c, NEW d, NEW e, SameEnd(b, c, e), SameEnd(c, d, e),
         Len(b.sent[Other(e)]) \in Nat, Len(c.sent[Other(e)]) \in Nat, Len(d.sent[Other(e)]) \in Nat
  PROVE  SameEnd(b, d, e)
BY DEF SameEnd, Grows

LEMMA CloseStreams ==
  ASSUME KernelInv, StreamInv, NEW cs, SameLinks(cs), AreStreams(cs), NEW g \in OpenFds, ButOwn(cs, g),
         fds' = [fds EXCEPT ![g] = NULL], conns' = AfterClose(cs, g)
  PROVE  StreamInv' /\ KeepsBut({g})
<1>1. OpenFds' = OpenFds \ {g} /\ \A f \in OpenFds' : fds'[f] = fds[f]
  BY DEF KernelInv, KernelTypes, OpenFds
<1>2. ASSUME NEW f \in OpenFds \ {g}, fds[f].conn # 0,
             SameEnd(cs[fds[f].conn], conns'[fds[f].conn], EndOf(f)), IsStream(conns'[fds[f].conn])
      PROVE  Keeps(f)
  <2>1. fds[f].conn \in Conn /\ EndOf(f) \in End /\ Other(EndOf(f)) \in End
    BY <1>2, EndTypes, OtherEnd
  <2>2. IsStream(Link(f)) /\ IsStream(cs[fds[f].conn]) /\ SameEnd(Link(f), cs[fds[f].conn], EndOf(f))
    BY <1>2, <2>1 DEF StreamInv, AreStreams, ButOwn, Link
  <2>3. SameEnd(Link(f), conns'[fds[f].conn], EndOf(f))
    <3>1. /\ Len(Link(f).sent[Other(EndOf(f))]) \in Nat
          /\ Len(cs[fds[f].conn].sent[Other(EndOf(f))]) \in Nat
          /\ Len(conns'[fds[f].conn].sent[Other(EndOf(f))]) \in Nat
      BY ONLY <1>2, <2>1, <2>2, StreamTypes
    <3> QED
      BY <1>2, <2>2, <3>1, SameEndTwice
  <2> QED
    BY <1>1, <2>3 DEF Keeps, EndOf
<1>3. ASSUME \A f \in OpenFds \ {g} : fds[f].conn # 0 =>
               /\ SameEnd(cs[fds[f].conn], conns'[fds[f].conn], EndOf(f))
               /\ IsStream(conns'[fds[f].conn])
      PROVE  KeepsBut({g})
  <2> SUFFICES ASSUME NEW f \in OpenFds \ {g} PROVE Keeps(f)
    BY DEF KeepsBut
  <2>1. CASE fds[f].conn = 0
    BY <1>1, <2>1 DEF Keeps, EndOf
  <2> QED
    BY <1>2, <1>3, <2>1
<1>4. \A f \in OpenFds \ {g} : fds[f].conn # 0 =>
        /\ fds[f].conn \in Conn /\ EndOf(f) \in End /\ IsStream(cs[fds[f].conn])
        /\ IsConn(cs[fds[f].conn]) /\ ~cs[fds[f].conn].left[EndOf(f)]
        /\ EndOf(f) = "server" => cs[fds[f].conn].st = "open"
        /\ SameEnd(cs[fds[f].conn], cs[fds[f].conn], EndOf(f))
  BY EndTypes, SameItself DEF AreStreams, SameLinks, KernelInv, Ends, EndOf, Link
<1>5. CASE fds[g].listening
  <2>1. \A j \in Conn : conns'[j] = Unaccepted(cs[j])
    BY <1>5 DEF AfterClose
  <2>2. \A j \in Conn : /\ IsConn(cs[j]) /\ IsStream(cs[j]) /\ (cs[j].st # "open" => Fresh(cs[j], "server"))
    BY DEF SameLinks, AreStreams
  <2>3. \A j \in Conn : /\ IsStream(conns'[j])
                        /\ Fresh(cs[j], "server") => Fresh(conns'[j], "server")
                        /\ ~cs[j].left["client"] => \A e \in End : SameEnd(cs[j], conns'[j], e)
                        /\ cs[j].st # "queued" => conns'[j] = cs[j]
    BY <2>1, <2>2, UnacceptedStream
  <2>4. StreamInv'
    BY <2>2, <2>3 DEF StreamInv
  <2>5. \A f \in OpenFds \ {g} : fds[f].conn # 0 =>
          SameEnd(cs[fds[f].conn], conns'[fds[f].conn], EndOf(f)) /\ IsStream(conns'[fds[f].conn])
    BY <1>4, <2>3 DEF End
  <2> QED
    BY <1>3, <2>4, <2>5
<1>6. CASE ~fds[g].listening /\ fds[g].conn = 0
  <2>1. conns' = cs
    BY <1>6 DEF AfterClose
  <2> QED
    BY <1>3, <1>4, <2>1 DEF StreamInv, AreStreams
<1>7. CASE ~fds[g].listening /\ fds[g].conn # 0
  <2> DEFINE k == fds[g].conn  e == EndOf(g)  d == Leaves(cs[k], e)
  <2>1. /\ k \in Conn /\ e \in End /\ IsConn(cs[k]) /\ IsStream(cs[k])
        /\ cs[k].st = conns[k].st /\ cs[k].left = conns[k].left
        /\ cs[k].st # "open" => Fresh(cs[k], "server")
    BY <1>7, EndTypes DEF SameLinks, AreStreams
  <2>2. conns' = [cs EXCEPT ![k] = d]
    BY <1>6, <1>7 DEF AfterClose, EndOf
  <2>3. /\ IsStream(d)
        /\ IF cs[k].left[Other(e)] \/ cs[k].st \in {"syn", "refused"} THEN d = NoConn
           ELSE SameStreams(cs[k], d) /\ "sent" \in DOMAIN d /\ "read" \in DOMAIN d
    BY <2>1, LeavesStream
  <2>4. IF cs[k].left[Other(e)] \/ cs[k].st \in {"syn", "refused"} THEN d.st = "unused"
        ELSE d.st = cs[k].st
    BY <2>1, LeavesResult
  <2> HIDE DEF d
  <2>5. conns'[k] = d /\ \A j \in Conn \ {k} : conns'[j] = cs[j]
    BY <2>1, <2>2 DEF SameLinks
  <2>6. d.st # "open" => Fresh(d, "server")
    <3>1. "server" \in End
      BY DEF End
    <3> QED
      BY <2>1, <2>3, <2>4, <3>1, NewStreams, SameStreamsStay
  <2>7. StreamInv'
    BY <2>3, <2>5, <2>6 DEF StreamInv, AreStreams
  <2>8. ASSUME NEW f \in OpenFds \ {g}, fds[f].conn # 0
        PROVE  SameEnd(cs[fds[f].conn], conns'[fds[f].conn], EndOf(f)) /\ IsStream(conns'[fds[f].conn])
    <3>1. CASE fds[f].conn # k
      BY <1>4, <2>5, <2>8, <3>1
    <3>2. CASE fds[f].conn = k
      <4>1. EndOf(f) # e
        BY <2>8, <3>2 DEF KernelInv, OneEnd, EndOf
      <4>2. EndOf(f) = Other(e) /\ EndOf(f) \in End
        BY <1>4, <2>1, <2>8, <4>1 DEF End, Other
      <4>3. ~cs[k].left[Other(e)]
        BY <1>4, <2>8, <3>2, <4>2
      <4>4. cs[k].st \notin {"syn", "refused"}
        BY <1>4, <1>7, <2>1, <2>8, <3>2, <4>1, EndTypes DEF End, Link
      <4> QED
        BY <2>1, <2>3, <2>5, <3>2, <4>2, <4>3, <4>4, SameStreamsStay
    <3> QED
      BY <3>1, <3>2
  <2> QED
    BY <1>3, <2>7, <2>8
<1> QED
  BY <1>5, <1>6, <1>7

-----------------------------------------------------------------------------
(* What a step does to the blocks it is not about. *)
ButBlock(b) == Elsewhere(b) /\ \A c \in Live \ {b} : Keeps(FdOf(c))

LEMMA ButBlocks ==
  ASSUME SocketInv, NEW b, Elsewhere(b), KeepsBut({}) \/ (b \in Live /\ KeepsBut({FdOf(b)}))
  PROVE  ButBlock(b)
<1> SUFFICES ASSUME NEW c \in Live \ {b} PROVE Keeps(FdOf(c))
  BY DEF ButBlock
<1>1. FdOf(c) \in OpenFds /\ (b \in Live => FdOf(c) # FdOf(b))
  BY LiveFds DEF SocketInv, DescriptorsOwned, Owned
<1> QED
  BY <1>1 DEF KeepsBut

LEMMA PlainButBlock ==
  ASSUME SocketInv, NEW r \in Role, Elsewhere(ptr[r]),
         KeepsBut({}) \/ (ptr[r] # NULL /\ KeepsBut({FdOf(ptr[r])}))
  PROVE  ButBlock(ptr[r])
BY PtrLive, ButBlocks

LEMMA OneSymbol ==
  ASSUME NEW T, NEW x \in T
  PROVE  <<x>> \in Seq(T) /\ Len(<<x>>) = 1 /\ <<x>>[1] = x
OBVIOUS

LEMMA GoodbyeStreams ==
  ASSUME AppInv, StreamInv, NEW r \in Role, Exists(r), ssl[r].sock # NULL
  PROVE  AreStreams(Goodbye(r)) /\ ButOwn(Goodbye(r), SockFd(r))
<1>1. CASE Goodbye(r) = conns
  <2>1. \A f \in OpenFds : fds[f].conn # 0 => SameEnd(Link(f), conns[fds[f].conn], EndOf(f))
    BY EndTypes, SameItself DEF AppInv, SocketInv, StreamInv, Link
  <2> QED
    BY <1>1, <2>1 DEF AreStreams, ButOwn, StreamInv
<1>2. CASE Up(r) /\ Goodbye(r) = [conns EXCEPT ![fds[SslFd(r)].conn] = Sends(@, fds[SslFd(r)].end, <<"bye">>)]
  <2>1. PICK g \in OpenFds : g = SockFd(r) /\ g = SslFd(r) /\ fds[g].conn # 0
    <3>1. ssl[r].sock \in Live /\ SslFd(r) = SockFd(r) /\ sock[ssl[r].sock].connected
      BY <1>2, OwnSock DEF AppInv, RoleOK, Up, HasSession
    <3> QED
      BY <3>1, LiveFds DEF AppInv, SocketInv, ConnectedTrue, Established, SockFd, FdOf
  <2>3. PICK y \in Seq(Symbol) : y = <<"bye">>
    <3>1. "bye" \in Symbol
      BY DEF Symbol
    <3>2. <<"bye">> \in Seq(Symbol)
      BY <3>1, OneSymbol
    <3> QED
      BY <3>2
  <2> DEFINE k == fds[g].conn  e == EndOf(g)  d == Sends(conns[k], e, y)
  <2>2. k \in Conn /\ e \in End /\ IsConn(conns[k]) /\ IsStream(conns[k]) /\ DOMAIN conns = Conn
    BY <2>1, EndTypes DEF AppInv, SocketInv, StreamInv, Link
  <2>4. /\ IsStream(d) /\ SameEnd(conns[k], d, Other(e)) /\ d.st = conns[k].st
        /\ d.sent[Other(e)] = conns[k].sent[Other(e)] /\ d.read = conns[k].read
    BY <2>2, SendsStream, SendIsData
  <2>5. Goodbye(r) = [conns EXCEPT ![k] = d]
    BY <1>2, <2>1, <2>3 DEF EndOf
  <2> HIDE DEF d, k, e
  <2> DEFINE cs == Goodbye(r)
  <2>6. cs[k] = d /\ \A j \in Conn \ {k} : cs[j] = conns[j]
    BY <2>2, <2>5
  <2> HIDE DEF cs
  <2>7. d.st # "open" => Fresh(d, "server")
    <3> SUFFICES ASSUME d.st # "open" PROVE Fresh(d, "server")
      OBVIOUS
    <3>1. e = "client" /\ Other(e) = "server"
      BY <2>1, <2>2, <2>4, EndTypes DEF End, Other, AppInv, SocketInv, Link, e, k
    <3>2. Fresh(conns[k], "server")
      BY <2>2, <2>4 DEF StreamInv
    <3> QED
      BY <2>4, <3>1, <3>2 DEF Fresh, SameEnd
  <2>8. AreStreams(cs)
    BY <2>4, <2>6, <2>7 DEF AreStreams, StreamInv
  <2>9. ASSUME NEW f \in OpenFds \ {g}, fds[f].conn # 0
        PROVE  SameEnd(Link(f), cs[fds[f].conn], EndOf(f))
    <3>1. fds[f].conn \in Conn /\ EndOf(f) \in End
      BY <2>9, EndTypes DEF AppInv, SocketInv
    <3>2. CASE fds[f].conn = k
      <4>1. EndOf(f) # e
        BY <2>9, <3>2 DEF AppInv, SocketInv, KernelInv, OneEnd, EndOf, k, e
      <4>2. EndOf(f) = Other(e)
        BY <2>2, <3>1, <4>1 DEF End, Other
      <4> QED
        BY <2>4, <2>6, <3>2, <4>2 DEF Link
    <3>3. CASE fds[f].conn # k
      BY <2>6, <3>1, <3>3, SameItself DEF Link, StreamInv
    <3> QED
      BY <3>2, <3>3
  <2> QED
    BY <2>1, <2>8, <2>9 DEF ButOwn, cs
<1> QED
  BY <1>1, <1>2 DEF Goodbye

-----------------------------------------------------------------------------
(* The handshake. *)
LEMMA OneMore ==
  ASSUME NEW S, IsFiniteSet(S), NEW x
  PROVE  /\ IsFiniteSet(S \cup {x}) /\ Cardinality(S) \in Nat
         /\ x \notin S => Cardinality(S \cup {x}) = Cardinality(S) + 1
BY FS_AddElement, FS_CardinalityType

LEMMA TurnsGrow ==
  ASSUME NEW r, NEW io, NEW n \in Nat
  PROVE  /\ n + 1 \notin Turns(r, io, n)
         /\ Turns(r, io, n + 1) = IF Script(r)[n + 1][1] = io THEN Turns(r, io, n) \cup {n + 1}
                                  ELSE Turns(r, io, n)
BY DEF Turns

\* How many of the first n records of the script are io's.
Turned(r, io, n) == Cardinality(Turns(r, io, n))
LEMMA TurnedStep ==
  ASSUME NEW r, NEW io, NEW n \in Nat, IsFiniteSet(Turns(r, io, n))
  PROVE  /\ IsFiniteSet(Turns(r, io, n + 1)) /\ Turned(r, io, n) \in Nat
         /\ Turned(r, io, n + 1) = IF Script(r)[n + 1][1] = io THEN Turned(r, io, n) + 1
                                   ELSE Turned(r, io, n)
<1>1. CASE Script(r)[n + 1][1] = io
  <2>1. PICK S : S = Turns(r, io, n)
    OBVIOUS
  <2>2. Turns(r, io, n + 1) = S \cup {n + 1} /\ n + 1 \notin S /\ IsFiniteSet(S)
    BY <1>1, <2>1, TurnsGrow
  <2>3. /\ IsFiniteSet(S \cup {n + 1}) /\ Cardinality(S) \in Nat
        /\ Cardinality(S \cup {n + 1}) = Cardinality(S) + 1
    BY ONLY <2>2, OneMore
  <2> QED
    BY ONLY <1>1, <2>1, <2>2, <2>3 DEF Turned
<1>2. CASE Script(r)[n + 1][1] # io
  <2>1. Turns(r, io, n + 1) = Turns(r, io, n)
    BY <1>2 DEF Turns
  <2> QED
    BY <1>2, <2>1, FS_CardinalityType DEF Turned
<1> QED
  BY <1>1, <1>2

LEMMA TurnedAre ==
  ASSUME NEW r, NEW io
  PROVE  /\ Turned(r, io, 0) = 0
         /\ \A n \in 0 .. 4 : Turned(r, io, n) \in Nat
         /\ \A n \in 0 .. 3 : Turned(r, io, n + 1) = Turned(r, io, n) + (IF Script(r)[n + 1][1] = io THEN 1 ELSE 0)
<1>1. Turns(r, io, 0) = {}
  BY DEF Turns
<1>2. IsFiniteSet(Turns(r, io, 0)) /\ Turned(r, io, 0) = 0
  BY <1>1, FS_EmptySet DEF Turned
<1>3. 0 \in Nat /\ 1 \in Nat /\ 2 \in Nat /\ 3 \in Nat /\ 0 + 1 = 1 /\ 1 + 1 = 2 /\ 2 + 1 = 3 /\ 3 + 1 = 4
  OBVIOUS
<1>4. IsFiniteSet(Turns(r, io, 1))
  BY <1>2, <1>3, TurnedStep
<1>5. IsFiniteSet(Turns(r, io, 2))
  BY <1>4, <1>3, TurnedStep
<1>6. IsFiniteSet(Turns(r, io, 3))
  BY <1>5, <1>3, TurnedStep
<1>7. IsFiniteSet(Turns(r, io, 4)) /\ Turned(r, io, 4) \in Nat
  BY <1>6, <1>3, TurnedStep, FS_CardinalityType DEF Turned
<1>8. \A n \in 0 .. 3 : /\ Turned(r, io, n) \in Nat
                         /\ Turned(r, io, n + 1) = Turned(r, io, n) + (IF Script(r)[n + 1][1] = io THEN 1 ELSE 0)
  <2> SUFFICES ASSUME NEW n \in 0 .. 3
               PROVE  /\ Turned(r, io, n) \in Nat
                      /\ Turned(r, io, n + 1) = Turned(r, io, n) + (IF Script(r)[n + 1][1] = io THEN 1 ELSE 0)
    OBVIOUS
  <2>1. n \in Nat /\ IsFiniteSet(Turns(r, io, n))
    BY <1>2, <1>4, <1>5, <1>6
  <2> QED
    BY <2>1, TurnedStep
<1>9. \A n \in 0 .. 4 : n \in 0 .. 3 \/ n = 4
  OBVIOUS
<1> QED
  BY <1>2, <1>7, <1>8, <1>9

\* HandshakeOnce of one object, before its step 'step' of the handshake, at the
\* end e of the connection c.
Records(r, step, c, e) ==
  LET done == step - 1  written == Turned(r, "w", done)  gotten == Turned(r, "r", done)
  IN  /\ \A i \in Turns(r, "w", done) : c.sent[e][Turned(r, "w", i)] = Script(r)[i][2]
      /\ \A i \in Turns(r, "r", done) : c.sent[Other(e)][Turned(r, "r", i)] = Script(r)[i][2]
      /\ written <= Len(c.sent[e]) /\ gotten <= c.read[e]
      /\ \A j \in written + 1 .. Len(c.sent[e]) : c.sent[e][j] = "data"
      /\ step <= 4 => Len(c.sent[e]) = written /\ c.read[e] = gotten

LEMMA TurnedOrder ==
  ASSUME NEW r, NEW io, NEW n \in 0 .. 4, NEW i \in Turns(r, io, n)
  PROVE  i \in 1 .. 4 /\ i <= n /\ Turned(r, io, i) \in 1 .. Turned(r, io, n)
<1>1. i \in 1 .. 4 /\ i <= n /\ Script(r)[i][1] = io
  BY DEF Turns
<1> DEFINE T(k) == Turned(r, io, k)
<1>2. /\ T(0) = 0 /\ T(0) \in Nat /\ T(1) \in Nat /\ T(2) \in Nat /\ T(3) \in Nat /\ T(4) \in Nat
      /\ T(0) <= T(1) /\ T(1) <= T(2) /\ T(2) <= T(3) /\ T(3) <= T(4)
  <2>1. \A k \in 0 .. 3 : k \in 0 .. 4 /\ k + 1 \in 0 .. 4 /\ T(k) <= T(k + 1)
    BY TurnedAre
  <2>2. T(0) <= T(0 + 1) /\ T(1) <= T(1 + 1) /\ T(2) <= T(2 + 1) /\ T(3) <= T(3 + 1)
    BY <2>1
  <2> QED
    BY <2>2, TurnedAre
<1>3. T(i) >= 1
  <2>1. i - 1 \in 0 .. 3 /\ (i - 1) + 1 = i
    BY <1>1
  <2>2. T(i) = T(i - 1) + 1 /\ T(i - 1) \in Nat
    BY <1>1, <2>1, TurnedAre
  <2> QED
    BY <2>2
<1>4. T(i) <= T(n) /\ T(i) \in Nat
  BY <1>1, <1>2
<1> QED
  BY <1>1, <1>3, <1>4

LEMMA RecordsBegin ==
  ASSUME NEW r, NEW c, NEW e, Fresh(c, e)
  PROVE  Records(r, 1, c, e)
<1>1. Turns(r, "w", 0) = {} /\ Turns(r, "r", 0) = {}
  BY DEF Turns
<1>2. Turned(r, "w", 0) = 0 /\ Turned(r, "r", 0) = 0
  BY TurnedAre
<1> QED
  BY <1>1, <1>2 DEF Records, Fresh

LEMMA RecordsStay ==
  ASSUME NEW r, NEW step \in 1 .. 5, NEW c, NEW d, NEW e \in End,
         IsStream(c), SameEnd(c, d, e), Records(r, step, c, e)
  PROVE  Records(r, step, d, e)
<1> DEFINE done == step - 1
<1>1. done \in 0 .. 4
  OBVIOUS
<1>2. \A i \in Turns(r, "r", done) :
        Turned(r, "r", i) \in 1 .. Len(c.sent[Other(e)])
  <2> SUFFICES ASSUME NEW i \in Turns(r, "r", done)
               PROVE  Turned(r, "r", i) \in 1 .. Len(c.sent[Other(e)])
    OBVIOUS
  <2>1. Turned(r, "r", i) \in 1 .. Turned(r, "r", done)
    BY <1>1, TurnedOrder
  <2>2. Turned(r, "r", done) <= c.read[e] /\ Turned(r, "r", done) \in Nat
    BY <1>1, TurnedAre DEF Records
  <2>3. c.read[e] <= Len(c.sent[Other(e)]) /\ Len(c.sent[Other(e)]) \in Nat /\ c.read[e] \in Nat
    BY StreamTypes
  <2> HIDE DEF done
  <2> QED
    BY ONLY <2>1, <2>2, <2>3
<1>3. \A j \in 1 .. Len(c.sent[Other(e)]) : d.sent[Other(e)][j] = c.sent[Other(e)][j]
  BY DEF SameEnd, Grows
<1>4. \A i \in Turns(r, "r", done) : d.sent[Other(e)][Turned(r, "r", i)] = Script(r)[i][2]
  BY <1>2, <1>3 DEF Records
<1> QED
  BY <1>4 DEF Records, SameEnd

LEMMA Pushed ==
  ASSUME NEW T, NEW s \in Seq(T), NEW x \in T
  PROVE  LET t == s \o <<x>>
         IN  /\ t \in Seq(T) /\ Len(t) = Len(s) + 1 /\ t[Len(s) + 1] = x
             /\ \A i \in 1 .. Len(s) : t[i] = s[i]
OBVIOUS

LEMMA TurnedTable ==
  ASSUME NEW r, NEW io, NEW step \in 1 .. 4
  PROVE  /\ Turned(r, io, step - 1) \in Nat /\ Turned(r, io, step) \in Nat
         /\ IF Script(r)[step][1] = io
            THEN /\ Turned(r, io, step) = Turned(r, io, step - 1) + 1
                 /\ \A i \in Turns(r, io, step) : i = step \/ i \in Turns(r, io, step - 1)
            ELSE /\ Turned(r, io, step) = Turned(r, io, step - 1)
                 /\ Turns(r, io, step) = Turns(r, io, step - 1)
<1>1. step - 1 \in 0 .. 3 /\ (step - 1) + 1 = step /\ step - 1 \in 0 .. 4 /\ step \in 0 .. 4
  OBVIOUS
<1>2. Turned(r, io, step) = Turned(r, io, step - 1) + (IF Script(r)[step][1] = io THEN 1 ELSE 0)
  BY <1>1, TurnedAre
<1>3. Turned(r, io, step - 1) \in Nat /\ Turned(r, io, step) \in Nat
  BY <1>1, TurnedAre
<1>4. \A i \in Turns(r, io, step) : i = step \/ i \in Turns(r, io, step - 1)
  BY DEF Turns
<1>5. Script(r)[step][1] # io => Turns(r, io, step) = Turns(r, io, step - 1)
  BY DEF Turns
<1> QED
  BY <1>2, <1>3, <1>4, <1>5

LEMMA RecordsSend ==
  ASSUME NEW r, NEW step \in 1 .. 4, NEW c, NEW d, NEW e \in End, IsStream(c),
         Records(r, step, c, e), Script(r)[step][1] = "w", NEW x \in Symbol, x = Script(r)[step][2],
         d.sent[e] = c.sent[e] \o <<x>>, d.sent[Other(e)] = c.sent[Other(e)], d.read[e] = c.read[e]
  PROVE  Records(r, step + 1, d, e)
<1> DEFINE W == Turned(r, "w", step - 1)  G == Turned(r, "r", step - 1)
<1>1. /\ W \in Nat /\ G \in Nat /\ Turned(r, "w", step) = W + 1 /\ Turned(r, "r", step) = G
      /\ \A i \in Turns(r, "w", step) : i = step \/ i \in Turns(r, "w", step - 1)
      /\ Turns(r, "r", step) = Turns(r, "r", step - 1)
  BY ZenonT(30), TurnedTable
<1>2. Len(c.sent[e]) = W /\ c.read[e] = G
  BY DEF Records
<1>3. /\ Len(d.sent[e]) = W + 1 /\ d.sent[e][W + 1] = x
      /\ \A i \in 1 .. W : d.sent[e][i] = c.sent[e][i]
  <2>1. PICK s : s = c.sent[e]
    OBVIOUS
  <2>2. PICK t : t = s \o <<x>>
    OBVIOUS
  <2>3. s \in Seq(Symbol) /\ Len(s) = W /\ d.sent[e] = t
    BY <1>2, <2>1, <2>2, StreamTypes
  <2>4. Len(t) = Len(s) + 1 /\ t[Len(s) + 1] = x /\ \A i \in 1 .. Len(s) : t[i] = s[i]
    BY ONLY SMTT(20), <2>2, <2>3, Pushed, x \in Symbol
  <2> QED
    BY ONLY <2>1, <2>3, <2>4
<1>4. \A i \in Turns(r, "w", step - 1) : Turned(r, "w", i) \in 1 .. W
  BY TurnedOrder
<1> HIDE DEF W, G
<1>5. \A i \in Turns(r, "w", step) : d.sent[e][Turned(r, "w", i)] = Script(r)[i][2]
  BY <1>1, <1>3, <1>4 DEF Records
<1>6. step + 1 - 1 = step
  OBVIOUS
<1>7. \A i \in Turns(r, "r", step) : d.sent[Other(e)][Turned(r, "r", i)] = Script(r)[i][2]
  BY <1>1 DEF Records
<1>8. \A j \in Turned(r, "w", step) + 1 .. Len(d.sent[e]) : d.sent[e][j] = "data"
  BY <1>1, <1>3
<1>9. /\ Turned(r, "w", step) = Len(d.sent[e]) /\ Turned(r, "w", step) <= Len(d.sent[e])
      /\ d.read[e] = Turned(r, "r", step) /\ Turned(r, "r", step) <= d.read[e]
  BY <1>1, <1>2, <1>3
<1> QED
  BY ONLY <1>5, <1>6, <1>7, <1>8, <1>9 DEF Records

LEMMA RecordsRecv ==
  ASSUME NEW r, NEW step \in 1 .. 4, NEW c, NEW d, NEW e \in End, IsStream(c),
         Records(r, step, c, e), Script(r)[step][1] = "r",
         c.sent[Other(e)][c.read[e] + 1] = Script(r)[step][2],
         d.sent = c.sent, d.read[e] = c.read[e] + 1
  PROVE  Records(r, step + 1, d, e)
<1> DEFINE W == Turned(r, "w", step - 1)  G == Turned(r, "r", step - 1)
<1>1. /\ W \in Nat /\ G \in Nat /\ Turned(r, "r", step) = G + 1 /\ Turned(r, "w", step) = W
      /\ \A i \in Turns(r, "r", step) : i = step \/ i \in Turns(r, "r", step - 1)
      /\ Turns(r, "w", step) = Turns(r, "w", step - 1)
  BY TurnedTable
<1>2. Len(c.sent[e]) = W /\ c.read[e] = G
  BY DEF Records
<1> HIDE DEF W, G
<1>3. \A i \in Turns(r, "r", step) : d.sent[Other(e)][Turned(r, "r", i)] = Script(r)[i][2]
  BY <1>1, <1>2 DEF Records
<1>4. step + 1 - 1 = step
  OBVIOUS
<1> QED
  BY <1>1, <1>2, <1>3, <1>4 DEF Records

\* The session is up: data follows.
LEMMA RecordsData ==
  ASSUME NEW r, NEW c, NEW d, NEW e \in End, IsStream(c), Records(r, 5, c, e), IsStream(d),
         d.sent[Other(e)] = c.sent[Other(e)],
         \/ d.sent[e] = c.sent[e] \o <<"data">> /\ d.read[e] = c.read[e]
         \/ d.sent[e] = c.sent[e] /\ d.read[e] = c.read[e] + 1
  PROVE  Records(r, 5, d, e)
<1> DEFINE W == Turned(r, "w", 4)  G == Turned(r, "r", 4)
<1>1. W \in Nat /\ G \in Nat /\ (\A i \in Turns(r, "w", 4) : Turned(r, "w", i) \in 1 .. W)
  BY TurnedAre, TurnedOrder
<1>2. W <= Len(c.sent[e]) /\ G <= c.read[e] /\ \A j \in W + 1 .. Len(c.sent[e]) : c.sent[e][j] = "data"
  BY DEF Records
<1>3. c.sent[e] \in Seq(Symbol) /\ Len(c.sent[e]) \in Nat /\ c.read[e] \in Nat
  BY StreamTypes
<1>4. \/ d.sent[e] = c.sent[e]
      \/ /\ Len(d.sent[e]) = Len(c.sent[e]) + 1 /\ d.sent[e][Len(c.sent[e]) + 1] = "data"
         /\ \A i \in 1 .. Len(c.sent[e]) : d.sent[e][i] = c.sent[e][i]
  <2>1. "data" \in Symbol
    BY DEF Symbol
  <2> QED
    BY <1>3, <2>1, Pushed
<1> HIDE DEF W, G
<1>5. /\ W <= Len(d.sent[e]) /\ \A j \in W + 1 .. Len(d.sent[e]) : d.sent[e][j] = "data"
      /\ \A i \in 1 .. W : d.sent[e][i] = c.sent[e][i]
  <2>1. PICK s : s = c.sent[e]
    OBVIOUS
  <2>2. PICK t : t = d.sent[e]
    OBVIOUS
  <2>3. /\ W \in Nat /\ Len(s) \in Nat /\ W <= Len(s) /\ \A j \in W + 1 .. Len(s) : s[j] = "data"
        /\ \/ t = s
           \/ /\ Len(t) = Len(s) + 1 /\ t[Len(s) + 1] = "data"
              /\ \A i \in 1 .. Len(s) : t[i] = s[i]
    BY <1>1, <1>2, <1>3, <1>4, <2>1, <2>2
  <2>4. /\ W <= Len(t) /\ \A j \in W + 1 .. Len(t) : t[j] = "data"
        /\ \A i \in 1 .. W : t[i] = s[i]
    BY ONLY <2>3
  <2> QED
    BY ONLY <2>1, <2>2, <2>4
<1>6. G <= d.read[e]
  BY <1>1, <1>2, <1>3
<1>7. \A i \in Turns(r, "w", 4) : d.sent[e][Turned(r, "w", i)] = Script(r)[i][2]
  BY <1>1, <1>5 DEF Records
<1>8. 5 - 1 = 4 /\ ~(5 <= 4)
  OBVIOUS
<1> QED
  BY <1>5, <1>6, <1>7, <1>8 DEF Records, W, G

Handshaker == {"client", "peer"}
StepOf(r) == IF Session(r) = NULL THEN 1 ELSE Session(r).step
OnLink(r) == Exists(r) /\ ssl[r].sock # NULL /\ fds[SockFd(r)].conn # 0
\* A socket that is not connected yet has no session, and is at step 1.
StreamOK(r) == OnLink(r) => Records(r, StepOf(r), Link(SockFd(r)), EndOf(SockFd(r)))

LEMMA RoleLink ==
  ASSUME AppInv, StreamInv, NEW r \in Role, Exists(r), ssl[r].sock # NULL
  PROVE  /\ ssl[r].sock \in Live /\ SockFd(r) \in OpenFds /\ StepOf(r) \in 1 .. 5
         /\ EndOf(SockFd(r)) \in End
         /\ fds[SockFd(r)].conn # 0 => fds[SockFd(r)].conn \in Conn /\ IsStream(Link(SockFd(r)))
         /\ Session(r) # NULL => fds[SockFd(r)].conn # 0 /\ SslFd(r) = SockFd(r)
<1>1. ssl[r].sock \in Live /\ SocketInv /\ KernelInv /\ ConnectedTrue /\ RoleOK(r)
  BY OwnSock DEF AppInv, SocketInv
<1>2. SockFd(r) \in OpenFds
  BY <1>1, LiveFds DEF SockFd
<1>3. StepOf(r) \in 1 .. 5
  BY ObjectType DEF StepOf, Session, SslSession
<1>4. EndOf(SockFd(r)) \in End /\ (fds[SockFd(r)].conn # 0 => fds[SockFd(r)].conn \in Conn)
  BY <1>1, <1>2, EndTypes
<1>5. Session(r) # NULL => fds[SockFd(r)].conn # 0 /\ SslFd(r) = SockFd(r)
  BY <1>1 DEF RoleOK, ConnectedTrue, Established, SockFd, FdOf
<1> QED
  BY <1>1, <1>2, <1>3, <1>4, <1>5 DEF StreamInv, Link

LEMMA StreamStays ==
  ASSUME AppInv, StreamInv, NEW r \in Handshaker, StreamOK(r),
         OnLink(r)' => /\ Exists(r) /\ ssl[r].sock # NULL /\ SockFd(r)' = SockFd(r)
                       /\ Keeps(SockFd(r)) /\ StepOf(r)' = StepOf(r)
  PROVE  StreamOK(r)'
<1> SUFFICES ASSUME OnLink(r)'
             PROVE  Records(r, StepOf(r)', Link(SockFd(r))', EndOf(SockFd(r))')
  BY DEF StreamOK
<1> DEFINE f == SockFd(r)
<1>1. /\ Exists(r) /\ ssl[r].sock # NULL /\ SockFd(r)' = f /\ Keeps(f) /\ StepOf(r)' = StepOf(r)
      /\ r \in Role
  BY DEF Handshaker, Role
<1>2. fds'[f].conn = fds[f].conn /\ EndOf(f)' = EndOf(f) /\ fds[f].conn # 0
  BY <1>1 DEF Keeps, OnLink
<1>3. Link(SockFd(r))' = conns'[fds[f].conn] /\ EndOf(SockFd(r))' = EndOf(f)
  BY <1>1, <1>2 DEF Link, EndOf
<1>4. SameEnd(Link(f), conns'[fds[f].conn], EndOf(f)) /\ Records(r, StepOf(r), Link(f), EndOf(f))
  BY <1>1, <1>2 DEF Keeps, StreamOK, OnLink
<1>5. IsStream(Link(f)) /\ StepOf(r) \in 1 .. 5 /\ EndOf(f) \in End
  BY <1>1, <1>2, RoleLink
<1> HIDE DEF f
<1> QED
  BY <1>1, <1>3, <1>4, <1>5, RecordsStay

LEMMA StreamBegins ==
  ASSUME NEW r, OnLink(r)' => StepOf(r)' = 1 /\ Fresh(Link(SockFd(r))', EndOf(SockFd(r))')
  PROVE  StreamOK(r)'
BY RecordsBegin DEF StreamOK

\* The others' objects stay.
LEMMA OthersStreams ==
  ASSUME AppInv, StreamInv, NEW r \in Handshaker, StreamOK(r), ssl'[r] = ssl[r],
         NEW b, ButBlock(b), Exists(r) /\ ssl[r].sock # NULL => ssl[r].sock # b
  PROVE  StreamOK(r)'
<1>1. Exists(r)' = Exists(r) /\ StepOf(r)' = StepOf(r) /\ r \in Role
  BY DEF Exists, StepOf, Session, Handshaker, Role
<1>2. Exists(r) /\ ssl[r].sock # NULL => SockFd(r)' = SockFd(r) /\ Keeps(SockFd(r))
  <2> HAVE Exists(r) /\ ssl[r].sock # NULL
  <2>1. ssl[r].sock \in Live \ {b}
    BY <1>1, RoleLink
  <2> QED
    BY <2>1 DEF ButBlock, Elsewhere, SockFd, FdOf
<1>3. OnLink(r)' => Exists(r) /\ ssl[r].sock # NULL
  BY <1>1 DEF OnLink
<1> QED
  BY <1>1, <1>2, <1>3, StreamStays

-----------------------------------------------------------------------------
(* The calls of the application on its own sockets. *)
IONames == {"send", "sendall", "recv", "recvall"}
Calls == [name : IONames \cup {"none", "connect"}, data : Seq(Symbol), count : Nat, base : Nat,
          moved : Seq(Symbol), again : BOOLEAN,
          result : {"running", "0", "failed", "EAGAIN", "EINTR"}]

\* A beginning of the data has moved, and is the end of stream s.
Went(data, moved, s, base) ==
  /\ Len(moved) <= Len(data) /\ Len(s) = base + Len(moved)
  /\ \A i \in 1 .. Len(moved) : moved[i] = data[i] /\ s[base + i] = data[i]
\* What has moved are the elements of stream s from base on.
Came(moved, s, base) == \A i \in 1 .. Len(moved) : moved[i] = s[base + i]

SendFits(o, s) ==
  /\ Went(o.data, o.moved, s, o.base)
  /\ o.name = "send" => o.moved = <<>>
\* What has been received is what was read of stream s since it began.
RecvFits(o, s, read) ==
  /\ read = o.base + Len(o.moved) /\ Len(o.moved) <= o.count
  /\ Came(o.moved, s, o.base)
  /\ o.count > 0 => Len(o.moved) < o.count
  /\ o.name = "recv" => o.moved = <<>>
OpFits(o, c, e) ==
  /\ o.name \in {"send", "sendall"} => SendFits(o, c.sent[e])
  /\ o.name \in {"recv", "recvall"} => RecvFits(o, c.sent[Other(e)], c.read[e])
OpOK(r) == Running(r, IONames) =>
  /\ ptr[r] # NULL /\ sock[ptr[r]].connected
  /\ OpFits(op[r], Link(FdOf(ptr[r])), EndOf(FdOf(ptr[r])))
OpInv == op \in [Role -> Calls] /\ \A r \in Role : OpOK(r)

LEMMA OpFitsStays ==
  ASSUME NEW o \in Calls, NEW c, NEW d, NEW e \in End, IsStream(c), SameEnd(c, d, e), OpFits(o, c, e)
  PROVE  OpFits(o, d, e)
<1>1. o.moved \in Seq(Symbol) /\ o.base \in Nat /\ Len(o.moved) \in Nat
  BY DEF Calls
<1>2. c.read[e] <= Len(c.sent[Other(e)]) /\ Len(c.sent[Other(e)]) \in Nat /\ c.read[e] \in Nat
  BY StreamTypes
<1>3. \A i \in 1 .. Len(c.sent[Other(e)]) : d.sent[Other(e)][i] = c.sent[Other(e)][i]
  BY DEF SameEnd, Grows
<1>4. d.read[e] = c.read[e] /\ d.sent[e] = c.sent[e]
  BY DEF SameEnd
<1>5. CASE o.name \in {"recv", "recvall"}
  <2>1. \A i \in 1 .. Len(o.moved) : o.base + i \in 1 .. Len(c.sent[Other(e)])
    BY <1>1, <1>2, <1>5 DEF OpFits, RecvFits
  <2> QED
    BY <1>3, <1>4, <1>5, <2>1 DEF OpFits, RecvFits, Came
<1> QED
  BY <1>4, <1>5 DEF OpFits

LEMMA OpLink ==
  ASSUME SocketInv, StreamInv, NEW r \in Role, ptr[r] # NULL
  PROVE  /\ ptr[r] \in Live /\ FdOf(ptr[r]) \in OpenFds /\ EndOf(FdOf(ptr[r])) \in End
         /\ sock[ptr[r]].connected => /\ fds[FdOf(ptr[r])].conn # 0 /\ fds[FdOf(ptr[r])].conn \in Conn
                                      /\ IsStream(Link(FdOf(ptr[r])))
<1>1. ptr[r] \in Live /\ FdOf(ptr[r]) \in OpenFds
  BY PtrLive, LiveFds
<1>2. sock[ptr[r]].connected => fds[FdOf(ptr[r])].conn # 0
  BY <1>1 DEF SocketInv, ConnectedTrue, Established
<1>3. EndOf(FdOf(ptr[r])) \in End /\ (fds[FdOf(ptr[r])].conn # 0 => fds[FdOf(ptr[r])].conn \in Conn)
  BY <1>1, EndTypes DEF SocketInv
<1> QED
  BY <1>1, <1>2, <1>3 DEF StreamInv, Link

LEMMA PtrOnly ==
  ASSUME SocketInv, NEW r \in Role, NEW q \in Role \ {r}, ptr[q] # NULL
  PROVE  ptr[q] # ptr[r]
<1>1. /\ Owners[<<"ptr", r>>] = ptr[r] /\ <<"ptr", r>> \in DOMAIN Owners
      /\ Owners[<<"ptr", q>>] = ptr[q] /\ <<"ptr", q>> \in DOMAIN Owners
  BY OwnersType DEF SocketInv
<1>2. <<"ptr", r>> # <<"ptr", q>>
  OBVIOUS
<1> QED
  BY <1>1, <1>2 DEF SocketInv, DescriptorsOwned, Owned

LEMMA OpStays ==
  ASSUME SocketInv, StreamInv, OpInv, NEW q \in Role, op'[q] = op[q], ptr'[q] = ptr[q],
         NEW b, ButBlock(b), ptr[q] # NULL => ptr[q] # b
  PROVE  OpOK(q)'
<1> SUFFICES ASSUME Running(q, IONames)'
             PROVE  /\ ptr[q] # NULL /\ sock'[ptr[q]].connected
                    /\ OpFits(op[q], Link(FdOf(ptr[q]))', EndOf(FdOf(ptr[q]))')
  BY DEF OpOK
<1> DEFINE f == FdOf(ptr[q])
<1>1. Running(q, IONames)
  BY DEF Running, Idle
<1>2. ptr[q] # NULL /\ sock[ptr[q]].connected /\ OpFits(op[q], Link(f), EndOf(f)) /\ op[q] \in Calls
  BY <1>1 DEF OpInv, OpOK
<1>3. ptr[q] \in Live \ {b} /\ fds[f].conn # 0 /\ IsStream(Link(f)) /\ EndOf(f) \in End
  BY <1>2, OpLink
<1>4. sock'[ptr[q]] = sock[ptr[q]] /\ Keeps(f) /\ FdOf(ptr[q])' = f
  BY <1>3 DEF ButBlock, Elsewhere, FdOf
<1>5. /\ Link(FdOf(ptr[q]))' = conns'[fds[f].conn] /\ EndOf(FdOf(ptr[q]))' = EndOf(f)
      /\ SameEnd(Link(f), conns'[fds[f].conn], EndOf(f))
  BY <1>3, <1>4 DEF Keeps, Link, EndOf
<1> HIDE DEF f
<1> QED
  BY <1>2, <1>3, <1>4, <1>5, OpFitsStays

\* The call of r becomes x.
LEMMA CallBecomes ==
  ASSUME SocketInv, StreamInv, OpInv, NEW r \in Role, NEW x \in Calls, op' = [op EXCEPT ![r] = x],
         x.result # "running" \/ x.name \notin IONames \/ OpOK(r)',
         \A q \in Role \ {r} : ptr'[q] = ptr[q], NEW b, ButBlock(b), b = NULL \/ b = ptr[r]
  PROVE  OpInv'
<1>1. op' \in [Role -> Calls] /\ op'[r] = x
  BY DEF OpInv
<1>2. OpOK(r)'
  BY <1>1 DEF OpOK, Running, Idle
<1>3. \A q \in Role \ {r} : OpOK(q)'
  <2> SUFFICES ASSUME NEW q \in Role \ {r} PROVE OpOK(q)'
    OBVIOUS
  <2>1. op'[q] = op[q]
    BY DEF OpInv
  <2>2. ptr[q] # NULL => ptr[q] # b
    BY PtrOnly
  <2> QED
    BY <2>1, <2>2, OpStays
<1> QED
  BY <1>1, <1>2, <1>3 DEF OpInv

LEMMA NoCallMoves ==
  ASSUME SocketInv, StreamInv, OpInv, op' = op, ptr' = ptr, NEW b, ButBlock(b),
         \A q \in Role : ptr[q] # NULL => ptr[q] # b
  PROVE  OpInv'
BY OpStays DEF OpInv

Plain(b) == StreamInv' /\ OpInv' /\ ButBlock(b)

LEMMA EndedType ==
  ASSUME NEW r \in {"0", "failed", "EAGAIN", "EINTR"}
  PROVE  Ended(r) \in Calls /\ Ended(r).result = r
<1>1. PICK y : y = NewCall("none", <<>>, 0, 0)
  OBVIOUS
<1>2. y \in Calls
  BY <1>1 DEF NewCall, Calls
<1>3. Ended(r) = [y EXCEPT !.result = r]
  BY <1>1 DEF Ended
<1> QED
  BY <1>2, <1>3 DEF Calls

LEMMA NoCallType == NoCall \in Calls /\ NoCall.result = "0"
BY EndedType DEF NoCall

LEMMA OpenStream ==
  ASSUME SocketInv, StreamInv, OpInv, NEW r \in Role, Open(r), UNCHANGED tlsVars
  PROVE  Plain(ptr[r])
<1>1. PICK b \in Block \cup {NULL}, e \in {"0", "failed"} : PclSocket(b, e) /\ ptr' = [ptr EXCEPT ![r] = b]
  BY DEF Open
<1>2. StreamInv' /\ KeepsBut({})
  <2>1. CASE UNCHANGED kernelVars
    BY <2>1, NothingMoves DEF SocketInv
  <2>2. CASE NewBlock(b, NewSocket)
    <3>1. PICK f : KSocket(f, NewSocket)
      BY <2>2 DEF NewBlock
    <3> QED
      BY <3>1, OpenStreams, NewSocketType DEF SocketInv
  <2> QED
    BY <1>1, <2>1, <2>2 DEF PclSocket
<1>3. ButBlock(ptr[r])
  BY <1>2, OpenPlain, PlainButBlock
<1>4. op' = [op EXCEPT ![r] = NoCall] /\ \A q \in Role \ {r} : ptr'[q] = ptr[q]
  BY <1>1 DEF Open, Forgets, SocketInv, Types
<1> QED
  BY <1>2, <1>3, <1>4, CallBecomes, NoCallType DEF Plain

LEMMA AcceptStream ==
  ASSUME SocketInv, StreamInv, OpInv, NEW r \in Role, Accept(r), UNCHANGED tlsVars
  PROVE  Plain(NULL)
<1>1. PICK b \in Block \cup {NULL}, e \in {"0", "EAGAIN", "failed"} :
        /\ ptr[r] # NULL /\ PclAccept(ptr[r], b, e) /\ ptr["peer"] = NULL
        /\ ptr' = [ptr EXCEPT !["peer"] = b]
  BY DEF Accept
<1>2. PICK k \in {"0", "EMFILE", "EAGAIN", "EINTR"}, f \in Fd \cup {NULL} :
        /\ KAccept(FdOf(ptr[r]), f, sock[ptr[r]].nonblock, k)
        /\ \/ /\ k = "0" /\ b \in Block \ Live
              /\ sock' = [sock EXCEPT ![b] = [fd |-> f, nonblock |-> sock[ptr[r]].nonblock, connected |-> TRUE]]
           \/ k # "0" /\ UNCHANGED sock
  BY <1>1 DEF PclAccept, Lowest
<1>3. StreamInv' /\ KeepsBut({})
  <2>1. CASE k = "0"
    <3>1. sock[ptr[r]].nonblock \in BOOLEAN
      BY <1>1, PtrLive, LiveFds DEF Fields
    <3> QED
      BY <1>2, <2>1, <3>1, AcceptStreams DEF SocketInv
  <2>2. CASE k # "0"
    BY <1>2, <2>2, NothingMoves DEF KAccept, SocketInv
  <2> QED
    BY <2>1, <2>2
<1>4. Elsewhere(NULL)
  <2>1. sock \in [Block -> Fields \cup {NULL}]
    BY DEF SocketInv, Types
  <2> SUFFICES ASSUME NEW c \in Live PROVE sock'[c] = sock[c]
    BY DEF Elsewhere
  <2> QED
    BY <1>2, <2>1 DEF Live
<1>5. ButBlock(NULL)
  BY <1>3, <1>4, ButBlocks
<1>6. "peer" \in Role /\ op' = [op EXCEPT !["peer"] = NoCall] /\ \A q \in Role \ {"peer"} : ptr'[q] = ptr[q]
  BY <1>1 DEF Accept, Forgets, Role, SocketInv, Types
<1> QED
  BY <1>3, <1>5, <1>6, CallBecomes, NoCallType DEF Plain

LEMMA SetStream ==
  ASSUME SocketInv, StreamInv, OpInv, NEW r \in Role, SetNonblocking(r), UNCHANGED tlsVars
  PROVE  Plain(ptr[r])
<1> DEFINE b == ptr[r]
<1>1. PICK f \in OpenFds : f = FdOf(b) /\ fds[f] \in Descriptor
  BY PtrLive, LiveFds DEF SetNonblocking
<1> DEFINE d == [fds[f] EXCEPT !.nb = TRUE]
<1>2. d \in Descriptor /\ d.conn = fds[f].conn /\ d.end = fds[f].end
  BY <1>1 DEF Descriptor
<1>3. fds' = [fds EXCEPT ![f] = d] /\ conns' = conns
  BY <1>1 DEF SetNonblocking, SetNonblock
<1> HIDE DEF d
<1>4. StreamInv' /\ KeepsBut({})
  BY <1>2, <1>3, FieldStreams DEF SocketInv
<1>5. ButBlock(ptr[r])
  BY <1>4, SetPlain, PlainButBlock
<1>6. op' = op /\ ptr' = ptr /\ op[r].result # "running"
  BY DEF SetNonblocking, Idle
<1>7. op[r] \in Calls /\ op' = [op EXCEPT ![r] = op[r]]
  BY <1>6 DEF OpInv
<1> QED
  BY <1>4, <1>5, <1>6, <1>7, CallBecomes DEF Plain

LEMMA ListenStreams ==
  ASSUME SocketInv, StreamInv, NEW b \in Live, Listens(b)
  PROVE  StreamInv' /\ KeepsBut({})
<1>1. PICK f \in OpenFds : f = FdOf(b) /\ fds[f] \in Descriptor
  BY LiveFds
<1> DEFINE d == [fds[f] EXCEPT !.listening = TRUE]
<1>2. d \in Descriptor /\ d.conn = fds[f].conn /\ d.end = fds[f].end
  BY <1>1 DEF Descriptor
<1>3. fds' = [fds EXCEPT ![f] = d] /\ conns' = conns
  BY <1>1 DEF Listens
<1> HIDE DEF d
<1> QED
  BY <1>2, <1>3, FieldStreams DEF SocketInv

LEMMA ListenStream ==
  ASSUME SocketInv, StreamInv, OpInv, NEW r \in Role, Listen(r), UNCHANGED tlsVars
  PROVE  Plain(NULL)
<1>1. ptr[r] \in Live /\ Listens(ptr[r]) /\ UNCHANGED <<sock, ptr, op>>
  BY PtrLive DEF Listen
<1>2. StreamInv' /\ KeepsBut({}) /\ Elsewhere(NULL)
  BY <1>1, ListenStreams DEF Elsewhere
<1> QED
  BY <1>1, <1>2, ButBlocks, NoCallMoves DEF Plain

LEMMA PclConnectStreams ==
  ASSUME SocketInv, SocketInv', StreamInv, NEW b \in Live, NEW r, PclConnect(b, r), NEW f, f = FdOf(b)
  PROVE  /\ StreamInv' /\ KeepsBut({f}) /\ f \in OpenFds'
         /\ \/ Keeps(f)
            \/ fds'[f].conn = 0
            \/ fds'[f].conn # 0 /\ Fresh(Link(f)', EndOf(f)')
<1>1. f \in OpenFds
  BY LiveFds
<1>2. CASE UNCHANGED kernelVars
  <2>1. StreamInv' /\ KeepsBut({})
    BY <1>2, NothingMoves DEF SocketInv
  <2> QED
    BY <1>1, <1>2, <2>1 DEF KeepsBut, kernelVars, OpenFds
<1>3. ASSUME NEW k, KConnect(f, k)
      PROVE  /\ StreamInv' /\ KeepsBut({f}) /\ f \in OpenFds'
             /\ \/ Keeps(f)
                \/ fds'[f].conn = 0
                \/ fds'[f].conn # 0 /\ Fresh(Link(f)', EndOf(f)')
  BY <1>1, <1>3, ConnectStreams DEF SocketInv
<1> QED
  BY <1>2, <1>3 DEF PclConnect

LEMMA ConnectStream ==
  ASSUME SocketInv, SocketInv', StreamInv, OpInv, NEW r \in Role, Connect(r), UNCHANGED tlsVars
  PROVE  Plain(ptr[r])
<1>1. PICK e : /\ PclConnect(ptr[r], e)
               /\ op' = [op EXCEPT ![r] = IF e = "running" THEN NewCall("connect", <<>>, 0, 0) ELSE NoCall]
  BY DEF Connect
<1>2. ptr[r] \in Live /\ ptr' = ptr /\ ptr[r] # NULL
  BY PtrLive DEF Connect
<1>3. StreamInv' /\ KeepsBut({FdOf(ptr[r])})
  BY <1>1, <1>2, PclConnectStreams
<1>4. ButBlock(ptr[r])
  BY <1>2, <1>3, ConnectPlain, PlainButBlock
<1>5. PICK x : x = IF e = "running" THEN NewCall("connect", <<>>, 0, 0) ELSE NoCall
  OBVIOUS
<1>6. x \in Calls /\ (x.result # "running" \/ x.name \notin IONames)
  <2>1. LET y == NewCall("connect", <<>>, 0, 0) IN y \in Calls /\ y.name \notin IONames
    BY DEF NewCall, Calls, IONames
  <2> QED
    BY <1>5, <2>1, NoCallType
<1>7. op' = [op EXCEPT ![r] = x]
  BY <1>1, <1>5
<1> QED
  BY <1>2, <1>3, <1>4, <1>6, <1>7, CallBecomes DEF Plain

LEMMA ShutdownStream ==
  ASSUME SocketInv, StreamInv, OpInv, NEW r \in Role, NEW how, Shutdown(r, how), UNCHANGED tlsVars
  PROVE  Plain(ptr[r])
<1>1. PICK f : f = FdOf(ptr[r])
  OBVIOUS
<1>2. fds' = fds /\ conns' = [conns EXCEPT ![fds[f].conn] = Finishes(@, fds[f].end)]
      /\ ptr' = ptr /\ op' = op /\ op[r].result # "running"
  BY <1>1 DEF Shutdown, Idle
<1>3. StreamInv' /\ KeepsBut({})
  BY <1>2, ShutdownStreams DEF SocketInv
<1>4. ButBlock(ptr[r])
  BY <1>3, ShutdownPlain, PlainButBlock
<1>5. op[r] \in Calls /\ op' = [op EXCEPT ![r] = op[r]]
  BY <1>2 DEF OpInv
<1> QED
  BY <1>2, <1>3, <1>4, <1>5, CallBecomes DEF Plain

LEMMA CloseStream ==
  ASSUME SocketInv, StreamInv, OpInv, NEW r \in Role, Close(r), UNCHANGED tlsVars
  PROVE  Plain(ptr[r])
<1>1. PICK g \in OpenFds : g = FdOf(ptr[r]) /\ ptr[r] \in Live /\ ptr[r] # NULL
  BY PtrLive, LiveFds DEF Close
<1>2. /\ fds' = [fds EXCEPT ![g] = NULL] /\ conns' = AfterClose(conns, g)
      /\ ptr' = [ptr EXCEPT ![r] = NULL] /\ op' = [op EXCEPT ![r] = NoCall]
  BY <1>1 DEF Close, PclClose, Forgets
<1>3. SameLinks(conns) /\ AreStreams(conns)
  BY DEF SameLinks, SocketInv, KernelInv, KernelTypes, AreStreams, StreamInv
<1>4. ButOwn(conns, g)
  <2> SUFFICES ASSUME NEW f \in OpenFds, fds[f].conn # 0
               PROVE  SameEnd(Link(f), conns[fds[f].conn], EndOf(f))
    BY DEF ButOwn
  <2>1. fds[f].conn \in Conn /\ EndOf(f) \in End
    BY EndTypes DEF SocketInv
  <2> QED
    BY <2>1, SameItself DEF Link, StreamInv
<1>5. StreamInv' /\ KeepsBut({g})
  BY <1>2, <1>3, <1>4, CloseStreams DEF SocketInv
<1>6. ButBlock(ptr[r])
  BY <1>1, <1>5, ClosePlain, PlainButBlock
<1>7. \A q \in Role \ {r} : ptr'[q] = ptr[q]
  BY <1>2 DEF SocketInv, Types
<1> QED
  BY <1>2, <1>5, <1>6, <1>7, CallBecomes, NoCallType DEF Plain

LEMMA WiderSeq ==
  ASSUME NEW A, NEW B, A \subseteq B, NEW s \in Seq(A)
  PROVE  s \in Seq(B)
OBVIOUS

LEMMA FirstOf ==
  ASSUME NEW T, NEW s \in Seq(T), NEW n \in 0 .. Len(s)
  PROVE  LET u == SubSeq(s, 1, n)
         IN  u \in Seq(T) /\ Len(u) = n /\ \A i \in 1 .. n : u[i] = s[i]
OBVIOUS

LEMMA Joined ==
  ASSUME NEW T, NEW s \in Seq(T), NEW x \in Seq(T), NEW n, n = Len(x), NEW t, t = s \o x
  PROVE  /\ t \in Seq(T) /\ Len(t) = Len(s) + n
         /\ \A i \in 1 .. Len(s) : t[i] = s[i]
         /\ \A i \in 1 .. n : t[Len(s) + i] = x[i]
<1>1. t \in Seq(T) /\ Len(t) = Len(s) + n
  OBVIOUS
<1>2. ASSUME NEW i \in 1 .. Len(s) PROVE t[i] = s[i]
  OBVIOUS
<1>3. ASSUME NEW i \in 1 .. n PROVE t[Len(s) + i] = x[i]
  OBVIOUS
<1> QED
  BY <1>1, <1>2, <1>3

Cat(s, x) == s \o x

\* The first n of the elements of s from base on.
LEMMA FirstCame ==
  ASSUME NEW s \in Seq(Symbol), NEW base \in Nat, NEW here \in Seq(Symbol), Came(here, s, base),
         NEW n \in 0 .. Len(here), NEW x, x = Prefix(here, n)
  PROVE  x \in Seq(Symbol) /\ Len(x) = n /\ Came(x, s, base)
<1>1. x \in Seq(Symbol) /\ Len(x) = n /\ \A i \in 1 .. n : x[i] = here[i]
  BY FirstOf DEF Prefix
<1>2. \A i \in 1 .. n : i \in 1 .. Len(here)
  OBVIOUS
<1> QED
  BY <1>1, <1>2 DEF Came

LEMMA RestCame ==
  ASSUME NEW s \in Seq(Symbol), NEW k \in Nat, k <= Len(s), NEW rest, rest = SubSeq(s, k + 1, Len(s))
  PROVE  rest \in Seq(Symbol) /\ Len(rest) = Len(s) - k /\ Came(rest, s, k)
BY RestOfSeq DEF Came

Follows(x, moved, s, base) == Came(x, s, base + Len(moved))
LEMMA MoreCame ==
  ASSUME NEW s \in Seq(Symbol), NEW base \in Nat, NEW moved \in Seq(Symbol), Came(moved, s, base),
         NEW x \in Seq(Symbol), Follows(x, moved, s, base), NEW more, more = Cat(moved, x)
  PROVE  more \in Seq(Symbol) /\ Len(more) = Len(moved) + Len(x) /\ Came(more, s, base)
<1>1. PICK k \in Nat : k = Len(moved)
  OBVIOUS
<1>2. PICK n \in Nat : n = Len(x)
  OBVIOUS
<1>3. /\ more \in Seq(Symbol) /\ Len(more) = k + n
      /\ \A i \in 1 .. k : more[i] = moved[i]
      /\ \A i \in 1 .. n : more[k + i] = x[i]
  BY <1>1, <1>2, Joined DEF Cat
<1>4. ASSUME NEW i \in 1 .. k + n PROVE more[i] = s[base + i]
  <2>1. CASE i <= k
    BY <1>1, <1>3, <2>1 DEF Came
  <2>2. CASE i > k
    <3>1. PICK j \in 1 .. n : i = k + j /\ base + i = base + k + j
      <4>1. i - k \in 1 .. n /\ i = k + (i - k) /\ base + i = base + k + (i - k)
        BY <2>2
      <4> QED
        BY <4>1
    <3>2. x[j] = s[base + k + j]
      BY <1>1, <1>2 DEF Came, Follows
    <3>3. more[i] = x[j]
      BY ONLY <1>3, <3>1, j \in 1 .. n
    <3> QED
      BY ONLY <3>1, <3>2, <3>3, Zenon
  <2> QED
    BY <2>1, <2>2
<1> QED
  BY <1>1, <1>2, <1>3, <1>4 DEF Came

\* send(2) takes x, the next of the data, and it is the end of the stream.
LEMMA SendMore ==
  ASSUME NEW data \in Seq(Symbol), NEW moved \in Seq(Symbol), NEW s \in Seq(Symbol), NEW base \in Nat,
         Went(data, moved, s, base), NEW x \in Seq(Symbol), Came(x, data, Len(moved)),
         Len(moved) + Len(x) <= Len(data), NEW more, more = Cat(moved, x), NEW t, t = Cat(s, x)
  PROVE  more \in Seq(Symbol) /\ t \in Seq(Symbol) /\ Went(data, more, t, base)
<1>1. PICK k \in Nat : k = Len(moved)
  OBVIOUS
<1>2. PICK n \in Nat : n = Len(x)
  OBVIOUS
<1>3. Len(s) = base + k /\ k + n <= Len(data) /\ \A i \in 1 .. k : moved[i] = data[0 + i]
  BY <1>1, <1>2 DEF Went
<1>4. more \in Seq(Symbol) /\ Len(more) = k + n /\ Came(more, data, 0)
  <2>1. Came(moved, data, 0) /\ 0 \in Nat /\ Follows(x, moved, data, 0)
    BY <1>1, <1>3 DEF Came, Follows
  <2> QED
    BY ONLY <1>1, <1>2, <2>1, MoreCame, data \in Seq(Symbol), moved \in Seq(Symbol), x \in Seq(Symbol),
            more = Cat(moved, x)
<1>5. /\ t \in Seq(Symbol) /\ Len(t) = Len(s) + n
      /\ \A i \in 1 .. Len(s) : t[i] = s[i]
      /\ \A i \in 1 .. n : t[Len(s) + i] = x[i]
  BY <1>2, Joined DEF Cat
<1>6. ASSUME NEW i \in 1 .. k + n PROVE t[base + i] = data[i]
  <2>1. CASE i <= k
    <3>1. base + i \in 1 .. Len(s) /\ i \in 1 .. k
      BY <1>3, <2>1
    <3> QED
      BY <1>1, <1>5, <3>1 DEF Went
  <2>2. CASE i > k
    <3>1. PICK j \in 1 .. n : i = k + j /\ base + i = base + k + j
      <4>1. i - k \in 1 .. n /\ i = k + (i - k) /\ base + i = base + k + (i - k)
        BY <2>2
      <4> QED
        BY <4>1
    <3>2. x[j] = data[i]
      BY <1>1, <1>2, <3>1 DEF Came
    <3>3. base + i = Len(s) + j /\ t[Len(s) + j] = x[j]
      BY <1>3, <1>5, <3>1
    <3> QED
      BY ONLY <3>2, <3>3
  <2> QED
    BY <2>1, <2>2
<1>7. \A i \in 1 .. k + n : more[i] = data[i]
  BY <1>4 DEF Came
<1>8. Len(t) = base + (k + n)
  BY <1>3, <1>5
<1> QED
  BY <1>3, <1>4, <1>5, <1>6, <1>7, <1>8 DEF Went

LEMMA BeginSendStream ==
  ASSUME SocketInv, StreamInv, OpInv, NEW r \in Role, BeginSend(r), UNCHANGED tlsVars
  PROVE  Plain(NULL)
<1>1. PICK name \in {"send", "sendall"}, m \in Messages :
        op' = [op EXCEPT ![r] = NewCall(name, m, 0, Len(Link(FdOf(ptr[r])).sent[EndOf(FdOf(ptr[r]))]))]
  BY DEF BeginSend, EndOf
<1>2. /\ ptr[r] # NULL /\ sock[ptr[r]].connected /\ UNCHANGED <<sock, ptr, kernelVars>>
  BY DEF BeginSend, Alive
<1>3. PICK s : s = Link(FdOf(ptr[r])).sent[EndOf(FdOf(ptr[r]))]
  OBVIOUS
<1>4. s \in Seq(Symbol) /\ Len(s) \in Nat
  BY <1>2, <1>3, OpLink, StreamTypes
<1>5. PICK x : x = NewCall(name, m, 0, Len(s))
  OBVIOUS
<1>6. m \in Seq(Symbol)
  BY SocketAssumption, WiderSeq DEF Symbol
<1>7. /\ x \in Calls /\ x.name = name /\ x.data = m /\ x.moved = <<>> /\ x.base = Len(s)
  BY <1>4, <1>5, <1>6 DEF NewCall, Calls, IONames
<1>8. OpFits(x, Link(FdOf(ptr[r])), EndOf(FdOf(ptr[r])))
  <2>1. SendFits(x, s)
    BY <1>4, <1>6, <1>7 DEF SendFits, Went
  <2> QED
    BY <1>3, <1>7, <2>1 DEF OpFits
<1>9. op' = [op EXCEPT ![r] = x] /\ op'[r] = x
  BY <1>1, <1>3, <1>5 DEF OpInv
<1>10. OpOK(r)'
  BY <1>2, <1>8, <1>9 DEF OpOK, kernelVars, Link, FdOf, EndOf
<1>11. StreamInv' /\ KeepsBut({}) /\ Elsewhere(NULL)
  BY <1>2, NothingMoves DEF SocketInv, Elsewhere
<1> QED
  BY <1>2, <1>7, <1>9, <1>10, <1>11, ButBlocks, CallBecomes DEF Plain

LEMMA BeginRecvStream ==
  ASSUME SocketInv, StreamInv, OpInv, NEW r \in Role, BeginRecv(r), UNCHANGED tlsVars
  PROVE  Plain(NULL)
<1>1. PICK name \in {"recv", "recvall"}, n \in Counts :
        op' = [op EXCEPT ![r] = NewCall(name, <<>>, n, Link(FdOf(ptr[r])).read[EndOf(FdOf(ptr[r]))])]
  BY DEF BeginRecv, EndOf
<1>2. /\ ptr[r] # NULL /\ sock[ptr[r]].connected /\ UNCHANGED <<sock, ptr, kernelVars>>
  BY DEF BeginRecv, Alive
<1>3. PICK read : read = Link(FdOf(ptr[r])).read[EndOf(FdOf(ptr[r]))]
  OBVIOUS
<1>4. read \in Nat /\ n \in Nat
  BY <1>2, <1>3, OpLink, StreamTypes, SocketAssumption
<1>5. PICK x : x = NewCall(name, <<>>, n, read)
  OBVIOUS
<1>6. /\ x \in Calls /\ x.name = name /\ x.count = n /\ x.moved = <<>> /\ x.base = read
  BY <1>4, <1>5 DEF NewCall, Calls, IONames
<1>7. OpFits(x, Link(FdOf(ptr[r])), EndOf(FdOf(ptr[r])))
  <2>1. ASSUME NEW s PROVE RecvFits(x, s, read)
    BY <1>4, <1>6 DEF RecvFits, Came
  <2> QED
    BY <1>3, <1>6, <2>1 DEF OpFits
<1>8. op' = [op EXCEPT ![r] = x] /\ op'[r] = x
  BY <1>1, <1>3, <1>5 DEF OpInv
<1>9. OpOK(r)'
  BY <1>2, <1>7, <1>8 DEF OpOK, kernelVars, Link, FdOf, EndOf
<1>10. StreamInv' /\ KeepsBut({}) /\ Elsewhere(NULL)
  BY <1>2, NothingMoves DEF SocketInv, Elsewhere
<1> QED
  BY <1>2, <1>6, <1>8, <1>9, <1>10, ButBlocks, CallBecomes DEF Plain

\* An interrupted or refused call has moved nothing more.
LEMMA FailureFits ==
  ASSUME NEW o \in Calls, o.result = "running", NEW k \in {"ECONNRESET", "EAGAIN", "EINTR"},
         NEW i \in {"EAGAIN", "EINTR"}, NEW x, x = AfterFailure(o, k, i)
  PROVE  /\ x \in Calls /\ x.result # "0"
         /\ x.result = "running" => /\ x.moved = o.moved /\ x.base = o.base /\ x.data = o.data
                                    /\ x.name = o.name /\ x.count = o.count
<1>1. CASE k = "EINTR" /\ ~o.again
  <2>1. x = [o EXCEPT !.again = TRUE]
    BY <1>1 DEF AfterFailure
  <2> QED
    BY <2>1 DEF Calls
<1>2. CASE ~(k = "EINTR" /\ ~o.again)
  <2>1. PICK e \in {"failed", "EAGAIN", "EINTR"} : x = Ended(e)
    BY <1>2 DEF AfterFailure
  <2> QED
    BY <2>1, EndedType
<1> QED
  BY <1>1, <1>2

\* SentExactly and ReceivedExactly of a call o that becomes x.
SendExact(o, x, t) ==
  LET n == Len(t) - o.base
  IN  /\ n \in 0 .. Len(o.data)
      /\ SubSeq(t, o.base + 1, Len(t)) = Prefix(o.data, n)
      /\ x.result = "running" => n = Len(x.moved)
      /\ o.name = "sendall" /\ x.result = "0" /\ Len(o.data) < UIntLimit => n = Len(o.data)
RecvExact(o, x, s, read) ==
  LET n == read - o.base
  IN  /\ x.result = "running" => x.moved = SubSeq(s, o.base + 1, o.base + n)
      /\ o.name = "recvall" /\ o.count < UIntLimit =>
           (x.result = "0" <=> n = o.count /\ o.count > 0)
Continues(o, x) == x.data = o.data /\ x.base = o.base /\ x.name = o.name /\ x.count = o.count

LEMMA Uncut ==
  ASSUME NEW a \in Nat, NEW b \in Nat \ {0}, a < b
  PROVE  a % b = a
OBVIOUS

\* The loops of pcl_sendall and pcl_recvall: all that was asked for is enough,
\* and only that when an unsigned int holds the count.
LEMMA EnoughIsAll ==
  ASSUME NEW moved, NEW count \in Nat, Len(moved) \in Nat, Len(moved) <= count
  PROVE  /\ Len(moved) = count => Enough(moved, count)
         /\ count < UIntLimit /\ Enough(moved, count) => Len(moved) = count
<1>1. PICK l \in Nat : l = Len(moved)
  OBVIOUS
<1>2. PICK u \in Nat \ {0} : u = UIntLimit
  BY SocketAssumption DEF SocketAssumption
<1>3. l % u \in Nat /\ count % u \in Nat
  BY ONLY l \in Nat, count \in Nat, u \in Nat \ {0}
<1>4. count < u => count % u = count /\ l % u = l
  <2> SUFFICES ASSUME count < u
               PROVE  count % u = count /\ l % u = l
    OBVIOUS
  <2>1. l < u
    BY ONLY <1>1, Len(moved) <= count, count < u, count \in Nat, u \in Nat \ {0}, l \in Nat
  <2> QED
    BY ONLY <2>1, Uncut, count < u, count \in Nat, u \in Nat \ {0}, l \in Nat
<1>5. Enough(moved, count) <=> ~(l % u < count % u)
  BY <1>1, <1>2 DEF Enough, Unsigned
<1> QED
  BY <1>1, <1>2, <1>3, <1>4, <1>5

LEMMA CallFields ==
  ASSUME NEW o \in Calls
  PROVE  /\ o.data \in Seq(Symbol) /\ o.moved \in Seq(Symbol) /\ o.base \in Nat /\ o.count \in Nat
         /\ Len(o.data) \in Nat /\ Len(o.moved) \in Nat
BY DEF Calls

LEMMA MovedCall ==
  ASSUME NEW o \in Calls, NEW bytes \in Seq(Symbol), NEW x, x = Moved(o, bytes)
  PROVE  /\ x \in Calls /\ Continues(o, x) /\ x.result = o.result /\ x.moved = o.moved \o bytes
<1>1. PICK m : m = o.moved \o bytes
  OBVIOUS
<1>2. m \in Seq(Symbol)
  BY <1>1, CallFields
<1>3. x = [o EXCEPT !.moved = m, !.again = FALSE]
  BY <1>1 DEF Moved
<1> QED
  BY <1>1, <1>2, <1>3 DEF Calls, Continues

LEMMA TailOfSend ==
  ASSUME NEW data \in Seq(Symbol), NEW moved \in Seq(Symbol), NEW s \in Seq(Symbol), NEW base \in Nat,
         Went(data, moved, s, base)
  PROVE  /\ SubSeq(s, base + 1, Len(s)) = Prefix(data, Len(moved))
         /\ Len(s) - base = Len(moved) /\ Len(moved) \in 0 .. Len(data)
<1>1. PICK n : n = Len(moved)
  OBVIOUS
<1>2. /\ n \in Nat /\ n <= Len(data) /\ Len(s) = base + n /\ Len(data) \in Nat
      /\ \A i \in 1 .. n : s[base + i] = data[i]
  <2>1. Len(moved) \in Nat /\ Len(data) \in Nat
    OBVIOUS
  <2> QED
    BY <1>1, <2>1 DEF Went
<1> DEFINE u == SubSeq(s, base + 1, base + n)  v == SubSeq(data, 1, n)
<1>3. u \in Seq(Symbol) /\ Len(u) = n /\ \A i \in 1 .. n : u[i] = s[base + i]
  BY <1>2
<1>4. v \in Seq(Symbol) /\ Len(v) = n /\ \A i \in 1 .. n : v[i] = data[i]
  BY <1>2
<1> HIDE DEF u, v
<1>5. u = v
  BY <1>2, <1>3, <1>4, SeqEqual
<1> QED
  BY <1>1, <1>2, <1>5 DEF Prefix, u, v

LEMMA TailOfRecv ==
  ASSUME NEW moved \in Seq(Symbol), NEW s \in Seq(Symbol), NEW base \in Nat,
         base + Len(moved) <= Len(s), Came(moved, s, base)
  PROVE  moved = SubSeq(s, base + 1, base + Len(moved))
<1>1. PICK n : n = Len(moved)
  OBVIOUS
<1>2. n \in Nat /\ base + n <= Len(s) /\ \A i \in 1 .. n : moved[i] = s[base + i]
  BY <1>1 DEF Came
<1> DEFINE u == SubSeq(s, base + 1, base + n)
<1>3. u \in Seq(Symbol) /\ Len(u) = n /\ \A i \in 1 .. n : u[i] = s[base + i]
  BY <1>2
<1> HIDE DEF u
<1>5. u = moved
  BY <1>1, <1>2, <1>3, SeqEqual
<1> QED
  BY <1>1, <1>5 DEF u

LEMMA SendFailed ==
  ASSUME NEW o \in Calls, o.result = "running", NEW s \in Seq(Symbol), SendFits(o, s),
         NEW k \in {"ECONNRESET", "EAGAIN", "EINTR"}, NEW x, x = AfterFailure(o, k, "EAGAIN")
  PROVE  /\ x \in Calls /\ SendExact(o, x, s)
         /\ x.result = "running" => SendFits(x, s) /\ Continues(o, x)
<1>1. /\ x \in Calls /\ x.result # "0"
      /\ x.result = "running" => /\ x.moved = o.moved /\ x.base = o.base /\ x.data = o.data
                                 /\ x.name = o.name /\ x.count = o.count
  BY FailureFits
<1>2. /\ SubSeq(s, o.base + 1, Len(s)) = Prefix(o.data, Len(o.moved))
      /\ Len(s) - o.base = Len(o.moved) /\ Len(o.moved) \in 0 .. Len(o.data)
  BY CallFields, TailOfSend DEF SendFits
<1>3. SendExact(o, x, s)
  BY <1>1, <1>2 DEF SendExact
<1> QED
  BY <1>1, <1>3 DEF SendFits, Continues

LEMMA SendTaken ==
  ASSUME NEW o \in Calls, o.result = "running", o.name \in {"send", "sendall"},
         NEW s \in Seq(Symbol), SendFits(o, s), NEW n \in 0 .. Len(Rest(o)),
         NEW t, t = s \o SubSeq(Rest(o), 1, n), NEW x, x = AfterSend(o, n)
  PROVE  /\ x \in Calls /\ SendExact(o, x, t)
         /\ x.result = "running" => SendFits(x, t) /\ Continues(o, x)
<1>1. PICK rest : rest = Rest(o)
  OBVIOUS
<1>2. PICK bytes : bytes = SubSeq(rest, 1, n)
  OBVIOUS
<1>3. PICK more : more = o.moved \o bytes
  OBVIOUS
<1>4. PICK m : m = Moved(o, bytes)
  OBVIOUS
<1>5. PICK data \in Seq(Symbol) : data = o.data
  BY CallFields
<1>6. PICK moved \in Seq(Symbol) : moved = o.moved
  BY CallFields
<1>7. PICK base \in Nat : base = o.base
  BY CallFields
<1>8. /\ Went(data, moved, s, base)
      /\ rest = SubSeq(data, Len(moved) + 1, Len(data)) /\ n \in 0 .. Len(rest)
      /\ more = moved \o bytes /\ t = s \o bytes
  BY <1>1, <1>2, <1>3, <1>5, <1>6, <1>7 DEF SendFits, Rest
<1>9. /\ more \in Seq(Symbol) /\ t \in Seq(Symbol) /\ bytes \in Seq(Symbol)
      /\ Went(data, more, t, base)
  <2>1. PICK l : l = Len(moved) /\ l <= Len(data) /\ l \in Nat
    <3>1. Len(moved) \in Nat /\ Len(moved) <= Len(data)
      BY <1>8 DEF Went
    <3> QED
      BY <3>1
  <2>2. rest \in Seq(Symbol) /\ Len(rest) = Len(data) - l /\ Came(rest, data, l)
    BY ONLY <1>8, <2>1, RestCame, data \in Seq(Symbol)
  <2>6. bytes = Prefix(rest, n) /\ more = Cat(moved, bytes) /\ t = Cat(s, bytes)
    BY <1>2, <1>8 DEF Prefix, Cat
  <2>3. bytes \in Seq(Symbol) /\ Len(bytes) = n /\ Came(bytes, data, l)
    <3>1. /\ l \in Nat /\ rest \in Seq(Symbol) /\ Came(rest, data, l) /\ n \in 0 .. Len(rest)
          /\ bytes = Prefix(rest, n)
      BY ONLY <1>8, <2>1, <2>2, <2>6
    <3> QED
      BY ONLY <3>1, FirstCame, data \in Seq(Symbol)
  <2>4. l + n <= Len(data)
    <3>1. PICK m1 \in Nat : m1 = Len(data)
      OBVIOUS
    <3> QED
      BY ONLY <1>8, <2>1, <2>2, <3>1
  <2>5. Came(bytes, data, Len(moved)) /\ Len(moved) + Len(bytes) <= Len(data)
    BY ONLY <2>1, <2>3, <2>4
  <2> QED
    BY ONLY <1>8, <2>3, <2>5, <2>6, SendMore, data \in Seq(Symbol), moved \in Seq(Symbol), s \in Seq(Symbol),
            base \in Nat
<1>10. /\ SubSeq(t, base + 1, Len(t)) = Prefix(data, Len(more))
       /\ Len(t) - base = Len(more) /\ Len(more) \in 0 .. Len(data)
  BY ONLY <1>9, TailOfSend, data \in Seq(Symbol), base \in Nat
<1>11. m \in Calls /\ Continues(o, m) /\ m.result = o.result /\ m.moved = more
  BY <1>3, <1>4, <1>9, MovedCall
<1>12. x = IF o.name = "send" \/ Enough(more, Len(data)) THEN Ended("0") ELSE m
  BY <1>1, <1>2, <1>4, <1>5, <1>11 DEF AfterSend
<1>15. /\ Len(more) = Len(data) => Enough(more, Len(data))
       /\ Len(data) < UIntLimit /\ Enough(more, Len(data)) => Len(more) = Len(data)
  <2>1. Len(data) \in Nat /\ Len(more) \in Nat /\ Len(more) <= Len(data)
    BY <1>10
  <2> QED
    BY <2>1, EnoughIsAll
<1>13. CASE o.name = "send" \/ Enough(more, Len(data))
  <2>1. x \in Calls /\ x.result = "0"
    BY <1>12, <1>13, EndedType
  <2>2. SendExact(o, x, t)
    BY ONLY <1>5, <1>7, <1>10, <1>13, <1>15, <2>1 DEF SendExact
  <2> QED
    BY <2>1, <2>2
<1>14. CASE ~(o.name = "send" \/ Enough(more, Len(data)))
  <2>1. x = m
    BY <1>12, <1>14
  <2>2. SendExact(o, x, t)
    BY ONLY <1>5, <1>7, <1>10, <1>11, <1>14, <2>1, o.result = "running" DEF SendExact
  <2>3. SendFits(x, t)
    BY ONLY <1>5, <1>7, <1>9, <1>11, <1>14, <1>15, <2>1 DEF SendFits, Continues
  <2> QED
    BY <1>11, <2>1, <2>2, <2>3
<1> QED
  BY <1>13, <1>14

LEMMA RecvFailed ==
  ASSUME NEW o \in Calls, o.result = "running", NEW s \in Seq(Symbol), NEW read \in Nat,
         read <= Len(s), RecvFits(o, s, read),
         NEW k \in {"ECONNRESET", "EAGAIN", "EINTR"}, NEW x, x = AfterFailure(o, k, "EINTR")
  PROVE  /\ x \in Calls /\ RecvExact(o, x, s, read)
         /\ x.result = "running" => RecvFits(x, s, read) /\ Continues(o, x)
<1>1. /\ x \in Calls /\ x.result # "0"
      /\ x.result = "running" => /\ x.moved = o.moved /\ x.base = o.base /\ x.data = o.data
                                 /\ x.name = o.name /\ x.count = o.count
  BY FailureFits
<1>2. o.moved = SubSeq(s, o.base + 1, o.base + Len(o.moved)) /\ read - o.base = Len(o.moved)
  <2>1. o.base + Len(o.moved) <= Len(s) /\ Came(o.moved, s, o.base) /\ read - o.base = Len(o.moved)
    BY CallFields DEF RecvFits
  <2> QED
    BY <2>1, CallFields, TailOfRecv
<1>3. RecvExact(o, x, s, read)
  BY <1>1, <1>2, CallFields DEF RecvExact, RecvFits
<1> QED
  BY <1>1, <1>3 DEF RecvFits, Continues

LEMMA RecvTaken ==
  ASSUME NEW o \in Calls, o.result = "running", o.name \in {"recv", "recvall"},
         NEW s \in Seq(Symbol), NEW read \in Nat, RecvFits(o, s, read),
         NEW here \in Seq(Symbol), Came(here, s, read), Len(s) = read + Len(here),
         NEW n \in 0 .. Len(here), n <= o.count - Len(o.moved),
         NEW x, x = AfterRecv(o, SubSeq(here, 1, n))
  PROVE  /\ x \in Calls /\ RecvExact(o, x, s, read + n)
         /\ x.result = "running" => RecvFits(x, s, read + n) /\ Continues(o, x)
<1>1. PICK bytes : bytes = SubSeq(here, 1, n)
  OBVIOUS
<1>2. PICK more : more = o.moved \o bytes
  OBVIOUS
<1>3. PICK m : m = Moved(o, bytes)
  OBVIOUS
<1>4. PICK moved \in Seq(Symbol) : moved = o.moved
  BY CallFields
<1>5. PICK base \in Nat : base = o.base
  BY CallFields
<1>6. PICK count \in Nat : count = o.count
  BY CallFields
<1>7. /\ Came(moved, s, base) /\ read = base + Len(moved) /\ Len(moved) <= count /\ Len(moved) \in Nat
      /\ count > 0 => Len(moved) < count
      /\ n <= count - Len(moved) /\ more = moved \o bytes /\ Came(here, s, base + Len(moved))
  BY <1>2, <1>4, <1>5, <1>6 DEF RecvFits
<1>8. /\ bytes \in Seq(Symbol) /\ Len(bytes) = n
      /\ more \in Seq(Symbol) /\ Len(more) = Len(moved) + n /\ Came(more, s, base)
  <2>1. base + Len(moved) \in Nat
    BY <1>7
  <2>2. bytes \in Seq(Symbol) /\ Len(bytes) = n /\ Follows(bytes, moved, s, base)
    <3>1. PICK from : from = base + Len(moved)
      OBVIOUS
    <3>2. from \in Nat /\ Came(here, s, from)
      BY <1>7, <2>1, <3>1
    <3>4. bytes = Prefix(here, n)
      BY <1>1 DEF Prefix
    <3>3. bytes \in Seq(Symbol) /\ Len(bytes) = n /\ Came(bytes, s, from)
      BY ONLY <3>4, <3>2, FirstCame, here \in Seq(Symbol), s \in Seq(Symbol), n \in 0 .. Len(here)
    <3> QED
      BY <3>1, <3>3 DEF Follows
  <2>3. more = Cat(moved, bytes)
    BY <1>7 DEF Cat
  <2> QED
    BY ONLY <1>7, <2>2, <2>3, MoreCame, moved \in Seq(Symbol), s \in Seq(Symbol), base \in Nat
<1>9. /\ Len(more) \in Nat /\ Len(here) \in Nat /\ base + Len(more) <= Len(s)
      /\ (read + n) - base = Len(more) /\ read + n = base + Len(more) /\ Len(more) <= count
  BY <1>7, <1>8
<1>10. more = SubSeq(s, base + 1, base + Len(more))
  BY ONLY <1>8, <1>9, TailOfRecv, s \in Seq(Symbol), base \in Nat
<1>11. m \in Calls /\ Continues(o, m) /\ m.result = o.result /\ m.moved = more
  BY <1>2, <1>3, <1>8, MovedCall
<1>12. x = IF o.name = "recv" THEN Ended("0")
           ELSE IF bytes = <<>> THEN Ended("failed")
           ELSE IF Enough(more, count) THEN Ended("0") ELSE m
  BY <1>1, <1>3, <1>6, <1>11 DEF AfterRecv
<1>18. /\ Len(more) = count => Enough(more, count)
       /\ count < UIntLimit /\ Enough(more, count) => Len(more) = count
  BY <1>9, EnoughIsAll
<1>13. bytes = <<>> <=> n = 0
  BY <1>8
<1>14. CASE o.name = "recv"
  <2>1. x \in Calls /\ x.result = "0"
    BY <1>12, <1>14, EndedType
  <2> QED
    BY <2>1, <1>14 DEF RecvExact
<1>15. CASE o.name # "recv" /\ bytes = <<>>
  <2>1. x \in Calls /\ x.result = "failed"
    BY <1>12, <1>15, EndedType
  <2>2. ~(Len(more) = count /\ count > 0)
    <3>1. n = 0 /\ Len(more) = Len(moved) + n
      BY <1>8, <1>13, <1>15
    <3> QED
      BY ONLY <1>7, <3>1
  <2>3. RecvExact(o, x, s, read + n)
    BY ONLY <1>5, <1>6, <1>9, <2>1, <2>2 DEF RecvExact
  <2> QED
    BY <2>1, <2>3
<1>16. CASE o.name # "recv" /\ bytes # <<>> /\ Enough(more, count)
  <2>1. x \in Calls /\ x.result = "0"
    BY <1>12, <1>16, EndedType
  <2>2. count < UIntLimit => Len(more) = count /\ count > 0
    BY <1>7, <1>8, <1>13, <1>16, <1>18
  <2>3. RecvExact(o, x, s, read + n)
    BY ONLY <1>5, <1>6, <1>9, <2>1, <2>2 DEF RecvExact
  <2> QED
    BY <2>1, <2>3
<1>17. CASE o.name # "recv" /\ bytes # <<>> /\ ~Enough(more, count)
  <2>1. x = m
    BY <1>12, <1>17
  <2>2. x.result # "0" /\ x.moved = more /\ Continues(o, x) /\ x \in Calls
    BY <1>11, <2>1
  <2>3. RecvExact(o, x, s, read + n)
    BY ONLY <1>5, <1>6, <1>9, <1>10, <1>17, <1>18, <2>2 DEF RecvExact
  <2>4. RecvFits(x, s, read + n)
    <3>1. x.base = base /\ x.count = count /\ x.name # "recv" /\ Len(more) < count
      BY SMTT(20), <1>5, <1>6, <1>9, <1>17, <1>18, <2>2 DEF Continues
    <3> QED
      BY ONLY <1>8, <1>9, <2>2, <3>1 DEF RecvFits
  <2> QED
    BY <2>2, <2>3, <2>4
<1> QED
  BY <1>14, <1>15, <1>16, <1>17

SendNames == {"send", "sendall"}
RecvNames == {"recv", "recvall"}

\* The socket and the connection of a call that runs.
LEMMA RunningCall ==
  ASSUME SocketInv, StreamInv, OpInv, NEW r \in Role, Running(r, IONames)
  PROVE  /\ op[r] \in Calls /\ op[r].result = "running" /\ ptr[r] \in Live /\ sock[ptr[r]].connected
         /\ FdOf(ptr[r]) \in OpenFds /\ fds[FdOf(ptr[r])].conn # 0 /\ EndOf(FdOf(ptr[r])) \in End
         /\ IsStream(Link(FdOf(ptr[r])))
         /\ OpFits(op[r], Link(FdOf(ptr[r])), EndOf(FdOf(ptr[r])))
BY OpLink DEF OpInv, OpOK, Running, Idle

\* A step of a call of r on the socket it has: the call becomes x.
LEMMA CallGoesOn ==
  ASSUME SocketInv, StreamInv, OpInv, NEW r \in Role, Running(r, IONames), NEW x \in Calls,
         op' = [op EXCEPT ![r] = x], UNCHANGED <<sock, ptr>>, StreamInv', fds' = fds,
         NEW g, g = FdOf(ptr[r]), KeepsBut({g}),
         x.result = "running" => OpFits(x, Link(g)', EndOf(g))
  PROVE  Plain(ptr[r])
<1>1. op'[r] = x
  BY DEF OpInv
<1>2. ptr[r] \in Live /\ ptr[r] # NULL /\ sock[ptr[r]].connected
  BY RunningCall, PtrLive DEF OpInv, OpOK
<1>3. OpOK(r)' \/ x.result # "running"
  <2> SUFFICES ASSUME x.result = "running" PROVE OpOK(r)'
    OBVIOUS
  <2>1. OpFits(x, Link(g)', EndOf(g))
    OBVIOUS
  <2>2. FdOf(ptr[r])' = g /\ EndOf(FdOf(ptr[r]))' = EndOf(g)
        /\ Link(FdOf(ptr[r]))' = conns'[fds[g].conn] /\ Link(g)' = conns'[fds[g].conn]
    BY DEF FdOf, EndOf, Link
  <2> QED
    BY <1>1, <1>2, <2>1, <2>2 DEF OpOK
<1>4. ButBlock(ptr[r])
  BY <1>2, ButBlocks DEF Elsewhere
<1> QED
  BY <1>3, <1>4, CallBecomes DEF Plain

LEMMA SendStepStream ==
  ASSUME SocketInv, StreamInv, OpInv, NEW r \in Role, SendStep(r), UNCHANGED tlsVars
  PROVE  Plain(ptr[r]) /\ SentExactly(r)
<1>1. PICK n \in 0 .. QueueSize, k \in {"0", "ECONNRESET", "EAGAIN", "EINTR"} :
        /\ KSend(FdOf(ptr[r]), Rest(op[r]), n, k)
        /\ op' = [op EXCEPT ![r] = IF k = "0" THEN AfterSend(op[r], n) ELSE AfterFailure(op[r], k, "EAGAIN")]
  BY DEF SendStep, OpInv
<1>2. /\ Running(r, IONames) /\ op[r].name \in SendNames /\ UNCHANGED <<sock, ptr>>
      /\ op[r].name \notin RecvNames
  BY DEF SendStep, Running, IONames, SendNames, RecvNames
<1>3. PICK g \in OpenFds : g = FdOf(ptr[r])
  BY <1>2, RunningCall
<1>4. PICK o \in Calls : o = op[r]
  BY <1>2, RunningCall
<1>5. PICK s : s = Link(g).sent[EndOf(g)]
  OBVIOUS
<1>6. /\ fds[g].conn # 0 /\ s \in Seq(Symbol) /\ o.result = "running" /\ SendFits(o, s) /\ EndOf(g) \in End
  BY <1>2, <1>3, <1>4, <1>5, RunningCall, StreamTypes DEF OpFits, SendNames
<1>7. Rest(o) \in Seq(Symbol)
  BY <1>6, CallFields, RestOfSeq DEF Rest, SendFits, Went
<1>8. PICK x : x = IF k = "0" THEN AfterSend(o, n) ELSE AfterFailure(o, k, "EAGAIN")
  OBVIOUS
<1>9. PICK t : t = Link(g)'.sent[EndOf(g)]
  OBVIOUS
<1>10. KSend(g, Rest(o), n, k) /\ op' = [op EXCEPT ![r] = x] /\ op'[r] = x
  BY <1>1, <1>3, <1>4, <1>8 DEF OpInv
<1>11. /\ StreamInv' /\ KeepsBut({g}) /\ fds' = fds /\ (k # "0" => UNCHANGED kernelVars)
       /\ k = "0" => /\ n \in 0 .. Len(Rest(o))
                     /\ Link(g)'.sent[EndOf(g)] = Link(g).sent[EndOf(g)] \o SubSeq(Rest(o), 1, n)
  BY <1>6, <1>7, <1>10, SendStreams DEF SocketInv
<1>12. x \in Calls /\ SendExact(o, x, t) /\ (x.result = "running" => SendFits(x, t) /\ Continues(o, x))
  <2>1. CASE k = "0"
    <3>1. n \in 0 .. Len(Rest(o)) /\ t = s \o SubSeq(Rest(o), 1, n) /\ x = AfterSend(o, n)
      BY <1>5, <1>8, <1>9, <1>11, <2>1
    <3>2. o.name \in {"send", "sendall"}
      BY <1>2, <1>4 DEF SendNames
    <3> QED
      BY ONLY <1>6, <3>1, <3>2, SendTaken, o \in Calls
  <2>2. CASE k # "0"
    <3>1. t = s
      BY <1>5, <1>9, <1>11, <2>2 DEF Link, kernelVars
    <3>2. k \in {"ECONNRESET", "EAGAIN", "EINTR"} /\ x = AfterFailure(o, k, "EAGAIN")
      BY <1>8, <2>2
    <3> QED
      BY ONLY <1>6, <3>1, <3>2, SendFailed, o \in Calls
  <2> QED
    BY <2>1, <2>2
<1>13. x.result = "running" => OpFits(x, Link(g)', EndOf(g))
  BY <1>2, <1>4, <1>9, <1>12 DEF Continues, OpFits, SendNames, RecvNames
<1>14. Plain(ptr[r])
  BY <1>2, <1>3, <1>10, <1>11, <1>12, <1>13, CallGoesOn
<1>15. Link(g)' = conns'[fds[g].conn]
  BY <1>11 DEF Link
<1>16. SentExactly(r)
  BY <1>3, <1>4, <1>9, <1>10, <1>12, <1>15 DEF SentExactly, SendExact, EndOf
<1> QED
  BY <1>14, <1>16

LEMMA RecvStepStream ==
  ASSUME SocketInv, StreamInv, OpInv, NEW r \in Role, RecvStep(r), UNCHANGED tlsVars
  PROVE  Plain(ptr[r]) /\ ReceivedExactly(r)
<1>1. PICK n \in 0 .. QueueSize, k \in {"0", "ECONNRESET", "EAGAIN", "EINTR"} :
        /\ KRecv(FdOf(ptr[r]), op[r].count - Len(op[r].moved), n, k)
        /\ op' = [op EXCEPT ![r] = IF k = "0" THEN AfterRecv(op[r], SubSeq(Here(FdOf(ptr[r])), 1, n))
                                   ELSE AfterFailure(op[r], k, "EINTR")]
  BY DEF RecvStep, OpInv
<1>2. /\ Running(r, IONames) /\ op[r].name \in RecvNames /\ UNCHANGED <<sock, ptr>>
      /\ op[r].name \notin SendNames
  BY DEF RecvStep, Running, IONames, SendNames, RecvNames
<1>3. PICK g \in OpenFds : g = FdOf(ptr[r])
  BY <1>2, RunningCall
<1>4. PICK o \in Calls : o = op[r]
  BY <1>2, RunningCall
<1>5. PICK e \in End : e = EndOf(g)
  BY <1>2, <1>3, RunningCall
<1>6. PICK s : s = Link(g).sent[Other(e)]
  OBVIOUS
<1>7. PICK read : read = Link(g).read[e]
  OBVIOUS
<1>8. PICK here : here = Here(g)
  OBVIOUS
<1>9. /\ fds[g].conn # 0 /\ s \in Seq(Symbol) /\ read \in Nat /\ read <= Len(s)
      /\ o.result = "running" /\ RecvFits(o, s, read)
  BY <1>2, <1>3, <1>4, <1>5, <1>6, <1>7, RunningCall, StreamTypes DEF OpFits, RecvNames
<1>10. here \in Seq(Symbol) /\ Came(here, s, read) /\ Len(s) = read + Len(here)
  <2>1. /\ Unread(Link(g), e) \in Seq(Symbol) /\ Len(Unread(Link(g), e)) = Len(s) - read
        /\ \A i \in 1 .. Len(Unread(Link(g), e)) : Unread(Link(g), e)[i] = s[read + i]
    BY <1>2, <1>3, <1>6, <1>7, RunningCall, UnreadType
  <2>2. here = Unread(Link(g), e)
    BY <1>5, <1>8 DEF Here, EndOf
  <2> QED
    BY <1>9, <2>1, <2>2 DEF Came
<1>11. PICK count \in Nat : count = o.count - Len(o.moved)
  BY <1>9, CallFields DEF RecvFits
<1>12. PICK x : x = IF k = "0" THEN AfterRecv(o, SubSeq(here, 1, n)) ELSE AfterFailure(o, k, "EINTR")
  OBVIOUS
<1>13. PICK read2 : read2 = Link(g)'.read[e]
  OBVIOUS
<1>14. KRecv(g, count, n, k) /\ op' = [op EXCEPT ![r] = x] /\ op'[r] = x
  BY <1>1, <1>3, <1>4, <1>8, <1>11, <1>12 DEF OpInv
<1>15. /\ StreamInv' /\ KeepsBut({g}) /\ fds' = fds /\ Link(g)'.sent = Link(g).sent
       /\ (k # "0" => UNCHANGED kernelVars)
       /\ k = "0" => n \in 0 .. count /\ n \in 0 .. Len(here) /\ read2 = read + n
  BY <1>5, <1>7, <1>8, <1>9, <1>13, <1>14, RecvStreams DEF SocketInv
<1>16. x \in Calls /\ RecvExact(o, x, s, read2) /\ (x.result = "running" => RecvFits(x, s, read2) /\ Continues(o, x))
  <2>1. CASE k = "0"
    <3>1. /\ n \in 0 .. Len(here) /\ n <= o.count - Len(o.moved) /\ read2 = read + n
          /\ x = AfterRecv(o, SubSeq(here, 1, n))
      BY <1>11, <1>12, <1>15, <2>1
    <3>2. o.name \in {"recv", "recvall"}
      BY <1>2, <1>4 DEF RecvNames
    <3> QED
      BY ONLY <1>9, <1>10, <3>1, <3>2, RecvTaken, o \in Calls
  <2>2. CASE k # "0"
    <3>1. read2 = read
      BY <1>7, <1>13, <1>15, <2>2 DEF Link, kernelVars
    <3>2. k \in {"ECONNRESET", "EAGAIN", "EINTR"} /\ x = AfterFailure(o, k, "EINTR")
      BY <1>12, <2>2
    <3> QED
      BY ONLY <1>9, <3>1, <3>2, RecvFailed, o \in Calls
  <2> QED
    BY <2>1, <2>2
<1>17. x.result = "running" => OpFits(x, Link(g)', EndOf(g))
  BY <1>2, <1>4, <1>5, <1>6, <1>13, <1>15, <1>16 DEF Continues, OpFits, SendNames, RecvNames
<1>18. Plain(ptr[r])
  BY <1>2, <1>3, <1>14, <1>15, <1>16, <1>17, CallGoesOn
<1>19. Link(g)' = conns'[fds[g].conn]
  BY <1>15 DEF Link
<1>20. ReceivedExactly(r)
  <2>1. conns'[fds[g].conn].sent[Other(e)] = s /\ conns'[fds[g].conn].read[e] = read2
    BY <1>6, <1>13, <1>15, <1>19
  <2> QED
    BY <1>3, <1>4, <1>5, <1>14, <1>16, <2>1 DEF ReceivedExactly, RecvExact, EndOf
<1> QED
  BY <1>18, <1>20

\* Only the loops of pcl_send and pcl_recv change a call of theirs that runs.
LEMMA OnlySteps ==
  ASSUME OpInv, SocketNext, NEW q \in Role, Running(q, IONames), op'[q] # op[q]
  PROVE  SendStep(q) \/ RecvStep(q)
<1>1. ~Idle(q) /\ ~Running(q, {"connect"}) /\ DOMAIN op = Role /\ "peer" \in Role
  BY DEF Running, IONames, OpInv, Role
<1>2. \A r : Forgets(r) => op'[q] = op[q]
  BY <1>1 DEF Forgets
<1>3. PICK r \in Role : Call(r) \/ SendStep(r) \/ RecvStep(r)
  BY DEF SocketNext, socketVars
<1>4. ~(Open(r) \/ Close(r) \/ Accept(r))
  BY <1>2 DEF Open, Close, Accept
<1>5. ~(Listen(r) \/ SetNonblocking(r) \/ \E how : Shutdown(r, how))
  BY DEF Listen, SetNonblocking, Shutdown
<1>6. ~(Connect(r) \/ BeginSend(r) \/ BeginRecv(r))
  <2>1. \A x : op' # [op EXCEPT ![r] = x] \/ r = q
    BY <1>1
  <2> QED
    BY <1>1, <2>1 DEF Connect, BeginSend, BeginRecv
<1>7. r = q
  BY <1>1, <1>3, <1>4, <1>5, <1>6 DEF Call, SendStep, RecvStep
<1> QED
  BY <1>3, <1>4, <1>5, <1>6, <1>7 DEF Call

LEMMA PlainStreams ==
  ASSUME SocketInv, SocketInv', StreamInv, OpInv, SocketNext, UNCHANGED tlsVars
  PROVE  \E b \in {NULL} \cup {ptr[r] : r \in Role} : Plain(b)
<1>1. ASSUME Network, UNCHANGED socketVars PROVE Plain(NULL)
  <2>1. StreamInv' /\ KeepsBut({})
    BY <1>1, NetworkStreams DEF SocketInv
  <2>2. op' = op /\ ptr' = ptr /\ Elsewhere(NULL)
    BY <1>1 DEF socketVars, Elsewhere
  <2> QED
    BY <2>1, <2>2, ButBlocks, NoCallMoves DEF Plain
<1>2. ASSUME NEW r \in Role, Call(r) \/ SendStep(r) \/ RecvStep(r)
      PROVE  Plain(ptr[r]) \/ Plain(NULL)
  <2>1. Open(r) \/ Connect(r) \/ SetNonblocking(r) \/ (\E how : Shutdown(r, how)) \/ Close(r)
        \/ SendStep(r) \/ RecvStep(r) => Plain(ptr[r])
    BY OpenStream, ConnectStream, SetStream, ShutdownStream, CloseStream, SendStepStream, RecvStepStream
  <2>2. Listen(r) \/ Accept(r) \/ BeginSend(r) \/ BeginRecv(r) => Plain(NULL)
    BY ListenStream, AcceptStream, BeginSendStream, BeginRecvStream
  <2> QED
    BY <1>2, <2>1, <2>2 DEF Call
<1> QED
  BY <1>1, <1>2 DEF SocketNext

-----------------------------------------------------------------------------
(* The streams of every step. *)
StreamsInv == StreamInv /\ OpInv /\ \A r \in Handshaker : StreamOK(r)

\* A step of the object of one role, or of no object, that moves no call.
LEMMA RoleStreams ==
  ASSUME AppInv, StreamsInv, NEW r \in Role, UNCHANGED <<ptr, op>>, StreamInv',
         NEW b, ButBlock(b), b = NULL \/ (Exists(r) /\ b = ssl[r].sock),
         \A q \in Role \ {r} : ssl'[q] = ssl[q], r \in Handshaker => StreamOK(r)'
  PROVE  StreamsInv'
<1>1. NULL \notin Block
  BY NullNoBlock
<1>2. \A q \in Role : ptr[q] # NULL => ptr[q] # b
  BY OwnSock DEF AppInv
<1>3. OpInv'
  BY <1>2, NoCallMoves DEF AppInv, StreamsInv
<1>4. ASSUME NEW q \in Handshaker, q # r PROVE StreamOK(q)'
  <2>1. q \in Role /\ ssl'[q] = ssl[q]
    BY <1>4 DEF Handshaker, Role
  <2>2. Exists(q) /\ ssl[q].sock # NULL => ssl[q].sock # b
    BY <1>4, <2>1, OwnSock DEF AppInv
  <2> QED
    BY <2>1, <2>2, OthersStreams DEF StreamsInv
<1> QED
  BY <1>3, <1>4 DEF StreamsInv

LEMMA PlainKeepsStreams ==
  ASSUME AppInv, AppInv', StreamsInv, SocketNext, UNCHANGED tlsVars
  PROVE  StreamsInv'
<1>1. PICK b \in {NULL} \cup {ptr[r] : r \in Role} : Plain(b)
  BY PlainStreams DEF AppInv, StreamsInv
<1>2. ASSUME NEW q \in Handshaker PROVE StreamOK(q)'
  <2>1. q \in Role /\ ssl'[q] = ssl[q]
    BY DEF Handshaker, Role, tlsVars
  <2>2. Exists(q) /\ ssl[q].sock # NULL => ssl[q].sock # b
    BY <2>1, OwnSock DEF AppInv
  <2> QED
    BY <1>1, <2>1, <2>2, OthersStreams DEF StreamsInv, Plain
<1> QED
  BY <1>1, <1>2 DEF StreamsInv, Plain

LEMMA StreamsUnmoved ==
  ASSUME AppInv, StreamsInv, UNCHANGED <<sock, kernelVars, ptr, op, ssl>>
  PROVE  StreamsInv'
<1>1. StreamInv' /\ KeepsBut({}) /\ Elsewhere(NULL)
  BY NothingMoves DEF AppInv, SocketInv, StreamsInv, Elsewhere
<1>2. ButBlock(NULL)
  BY <1>1, ButBlocks DEF AppInv
<1>3. OpInv'
  BY <1>1, <1>2, NoCallMoves DEF AppInv, StreamsInv
<1>4. ASSUME NEW q \in Handshaker PROVE StreamOK(q)'
  BY <1>2, OthersStreams, NullNoBlock DEF StreamsInv
<1> QED
  BY <1>1, <1>3, <1>4 DEF StreamsInv

LEMMA StreamsInitial == AppInit => StreamsInv
<1> SUFFICES ASSUME AppInit PROVE StreamsInv
  OBVIOUS
<1>1. StreamInv
  <2>1. \A k \in Conn : conns[k] = NoConn
    BY DEF AppInit, KernelInit
  <2>2. "server" \in End
    BY DEF End
  <2> QED
    BY <2>1, <2>2, NewStreams DEF StreamInv
<1>2. OpInv
  <2>1. op = [r \in Role |-> NoCall]
    BY DEF AppInit, SocketInit
  <2> QED
    BY <2>1, NoCallType DEF OpInv, OpOK, Running, Idle
<1>3. \A r \in Handshaker : StreamOK(r)
  <2>1. \A r \in Handshaker : ~Exists(r)
    BY DEF AppInit, TlsInit, Handshaker, Role, Exists
  <2> QED
    BY <2>1 DEF StreamOK, OnLink
<1> QED
  BY <1>1, <1>2, <1>3 DEF StreamsInv

LEMMA OtherObjects ==
  ASSUME AppInv, NEW r, NEW s, ssl' = [ssl EXCEPT ![r] = s]
  PROVE  /\ \A q \in Role \ {r} : ssl'[q] = ssl[q]
         /\ r \in Role => /\ ssl'[r] = s /\ (Exists(r)' <=> s # NULL)
                          /\ SockFd(r)' = sock'[s.sock].fd
                          /\ StepOf(r)' = IF s.session = NULL THEN 1 ELSE s.session.step
BY DEF AppInv, SocketInv, Types, Exists, SockFd, FdOf, StepOf, Session

\* pcl_ssl_close and pcl_ssl_free.
LEMMA BecomesStreams ==
  ASSUME AppInv, StreamsInv, NEW r \in Role, Exists(r), UNCHANGED <<ptr, op>>,
         NEW s, s # NULL => s.sock = NULL, Becomes(r, s)
  PROVE  StreamsInv'
<1>1. ssl' = [ssl EXCEPT ![r] = s]
  BY DEF Becomes
<1>2. ~OnLink(r)' /\ \A q \in Role \ {r} : ssl'[q] = ssl[q]
  BY <1>1, OtherObjects DEF OnLink
<1>3. StreamOK(r)'
  BY <1>2 DEF StreamOK
<1>4. CASE ssl[r].sock = NULL
  <2>1. UNCHANGED <<sock, kernelVars>>
    BY <1>4 DEF Becomes
  <2>2. StreamInv' /\ ButBlock(NULL)
    BY <2>1, NothingMoves, ButBlocks DEF AppInv, SocketInv, StreamsInv, Elsewhere
  <2> QED
    BY <1>2, <1>3, <2>2, RoleStreams
<1>5. CASE ssl[r].sock # NULL
  <2>1. PICK b \in Live : b = ssl[r].sock
    BY <1>5, OwnSock DEF AppInv
  <2>2. PICK g \in OpenFds : g = FdOf(b) /\ g = SockFd(r)
    BY <2>1, LiveFds DEF AppInv, SockFd
  <2>3. /\ sock' = [sock EXCEPT ![b] = NULL] /\ fds' = [fds EXCEPT ![g] = NULL]
        /\ conns' = AfterClose(Goodbye(r), g)
    BY <1>5, <2>1, <2>2 DEF Becomes
  <2>4. SameLinks(Goodbye(r)) /\ AreStreams(Goodbye(r)) /\ ButOwn(Goodbye(r), g)
    BY <1>5, <2>2, GoodbyeIsData, GoodbyeStreams DEF AppInv, SocketInv, KernelInv, StreamsInv
  <2>5. StreamInv' /\ KeepsBut({g})
    BY <2>3, <2>4, CloseStreams DEF AppInv, SocketInv, StreamsInv
  <2>6. Elsewhere(b)
    BY <2>3 DEF Elsewhere, Live
  <2>7. ButBlock(b)
    BY <2>1, <2>2, <2>5, <2>6, ButBlocks DEF AppInv
  <2> QED
    BY <1>2, <1>3, <2>1, <2>5, <2>7, RoleStreams
<1> QED
  BY <1>4, <1>5

LEMMA ClosesStreams ==
  ASSUME AppInv, StreamsInv, NEW r \in Role, Exists(r), UNCHANGED <<ptr, op>>,
         SslClose(r) \/ SslFree(r)
  PROVE  StreamsInv'
<1>1. Closed(ssl[r]).sock = NULL
  BY ObjectType DEF Closed, SslObject
<1> QED
  BY <1>1, BecomesStreams DEF SslClose, SslFree

LEMMA SocketMadeStreams ==
  ASSUME AppInv, StreamsInv, NEW r \in Role, NEW s \in SslObject, s.nonblock \in BOOLEAN,
         NewSocketFor(r, s), UNCHANGED <<ptr, op>>
  PROVE  StreamsInv'
<1>1. PICK b \in Block : /\ NewBlock(b, [NewSocket EXCEPT !.nb = s.nonblock])
                        /\ ssl' = [ssl EXCEPT ![r] = [s EXCEPT !.sock = b]]
  BY DEF NewSocketFor
<1>2. PICK new \in Descriptor : new = [NewSocket EXCEPT !.nb = s.nonblock] /\ new.conn = 0
  <2>1. LET new == [NewSocket EXCEPT !.nb = s.nonblock] IN new \in Descriptor /\ new.conn = 0
    BY NewSocketType DEF Descriptor
  <2> QED
    BY <2>1
<1>3. PICK f \in Fd : /\ KSocket(f, new) /\ b \in Block \ Live
                     /\ sock' = [sock EXCEPT ![b] = [fd |-> f, nonblock |-> new.nb, connected |-> FALSE]]
  BY <1>1, <1>2 DEF NewBlock, Lowest
<1>4. StreamInv' /\ KeepsBut({}) /\ fds'[f].conn = 0
  BY <1>2, <1>3, OpenStreams DEF AppInv, SocketInv, StreamsInv
<1>5. Elsewhere(NULL) /\ sock'[b].fd = f
  BY <1>3 DEF Elsewhere, AppInv, SocketInv, Types, Live
<1>6. ButBlock(NULL)
  BY <1>4, <1>5, ButBlocks DEF AppInv
<1>7. PICK t : t = [s EXCEPT !.sock = b]
  OBVIOUS
<1>8. ssl' = [ssl EXCEPT ![r] = t] /\ t.sock = b
  BY <1>1, <1>7 DEF SslObject
<1>9. SockFd(r)' = f /\ \A q \in Role \ {r} : ssl'[q] = ssl[q]
  BY <1>5, <1>8, OtherObjects
<1>10. StreamOK(r)'
  BY <1>4, <1>9 DEF StreamOK, OnLink
<1> QED
  BY <1>4, <1>6, <1>9, <1>10, RoleStreams

LEMMA NewStreamsKeep ==
  ASSUME AppInv, StreamsInv, UNCHANGED <<ptr, op>>, NEW nonblock \in BOOLEAN, NEW verify \in BOOLEAN,
         NewListener(nonblock) \/ NewClient(nonblock, verify)
  PROVE  StreamsInv'
<1>1. CASE NewListener(nonblock)
  <2>1. PICK s : s = NewSsl(nonblock, FALSE, NULL)
    OBVIOUS
  <2>2. s \in SslObject /\ s.nonblock \in BOOLEAN /\ NewSocketFor("listener", s) /\ "listener" \in Role
    BY ZenonT(30), <1>1, <2>1, NewObjectType DEF NewListener, Role
  <2> QED
    BY <2>2, SocketMadeStreams
<1>2. CASE NewClient(nonblock, verify)
  <2>1. PICK s : s = NewSsl(nonblock, verify, NULL)
    OBVIOUS
  <2>2. /\ s.sock = NULL /\ ssl' = [ssl EXCEPT !["client"] = s] /\ "client" \in Role
        /\ UNCHANGED <<sock, kernelVars>>
    BY <1>2, <2>1, NewObjectType DEF NewClient, Role
  <2>3. ~OnLink("client")' /\ \A q \in Role \ {"client"} : ssl'[q] = ssl[q]
    BY <2>2, OtherObjects DEF OnLink
  <2>4. StreamInv' /\ ButBlock(NULL)
    BY <2>2, NothingMoves, ButBlocks DEF AppInv, SocketInv, StreamsInv, Elsewhere
  <2> QED
    BY <2>2, <2>3, <2>4, RoleStreams DEF StreamOK
<1> QED
  BY <1>1, <1>2

LEMMA BindStreams ==
  ASSUME AppInv, StreamsInv, BindListener, UNCHANGED <<ptr, op>>
  PROVE  StreamsInv'
<1>1. "listener" \in Role /\ "listener" \notin Handshaker /\ Exists("listener") /\ call["listener"].at = "bind"
  BY DEF Role, BindListener, In, Handshaker
<1>2. CASE SslFree("listener")
  BY <1>1, <1>2, ClosesStreams
<1>3. CASE Listens(ssl["listener"].sock) /\ UNCHANGED <<ssl, sock>>
  <2>1. ssl["listener"].sock \in Live
    BY <1>1, OwnSock DEF AppInv, RoleOK
  <2>2. StreamInv' /\ KeepsBut({}) /\ Elsewhere(NULL)
    BY <1>3, <2>1, ListenStreams DEF AppInv, StreamsInv, Elsewhere
  <2>3. ButBlock(NULL)
    BY <2>2, ButBlocks DEF AppInv
  <2> QED
    BY <1>1, <1>3, <2>2, <2>3, RoleStreams
<1> QED
  BY <1>2, <1>3 DEF BindListener

LEMMA AcceptedStreams ==
  ASSUME AppInv, StreamsInv, SslAccept, UNCHANGED <<ptr, op>>
  PROVE  StreamsInv'
<1>1. /\ "peer" \in Role /\ "listener" \in Role /\ Exists("listener") /\ ssl["listener"].sock # NULL
  BY DEF Role, SslAccept, In
<1>2. PICK l \in Live : l = ssl["listener"].sock
  BY <1>1, OwnSock DEF AppInv
<1>3. PICK b \in Block :
        /\ PclAccept(l, b, "0")
        /\ ssl' = [ssl EXCEPT !["peer"] =
                     [NewSsl(ssl["listener"].nonblock, FALSE, b) EXCEPT !.session = NewSession(sock'[b].fd)]]
  BY <1>2 DEF SslAccept
<1>4. PICK f \in Fd : /\ KAccept(FdOf(l), f, sock[l].nonblock, "0") /\ b \in Block \ Live
                     /\ sock' = [sock EXCEPT ![b] = [fd |-> f, nonblock |-> sock[l].nonblock, connected |-> TRUE]]
  BY <1>3 DEF PclAccept, KAccept, Lowest
<1>5. sock[l].nonblock \in BOOLEAN
  BY LiveFds DEF AppInv, Fields
<1>6. /\ StreamInv' /\ KeepsBut({}) /\ Fresh(Link(f)', EndOf(f)')
  BY <1>4, <1>5, AcceptStreams DEF AppInv, SocketInv, StreamsInv
<1>7. Elsewhere(NULL) /\ sock'[b].fd = f
  BY <1>4 DEF Elsewhere, AppInv, SocketInv, Types, Live
<1>8. ButBlock(NULL)
  BY <1>6, <1>7, ButBlocks DEF AppInv
<1>9. PICK s : s = [NewSsl(ssl["listener"].nonblock, FALSE, b) EXCEPT !.session = NewSession(sock'[b].fd)]
  OBVIOUS
<1>10. ssl' = [ssl EXCEPT !["peer"] = s] /\ s.sock = b /\ s.session.step = 1
  BY <1>3, <1>9 DEF NewSsl, NewSession
<1>11. SockFd("peer")' = f /\ StepOf("peer")' = 1 /\ \A q \in Role \ {"peer"} : ssl'[q] = ssl[q]
  BY <1>1, <1>7, <1>10, OtherObjects
<1>12. StreamOK("peer")'
  BY <1>6, <1>11, StreamBegins
<1> QED
  BY <1>1, <1>6, <1>8, <1>11, <1>12, RoleStreams

\* pcl_connect on the object's socket.  A session is there only when it was
\* connected before, and then nothing happens to the streams.
LEMMA ConnectedStreams ==
  ASSUME AppInv, AppInv', StreamsInv, NEW e, UNCHANGED <<ptr, op>>,
         Exists("client"), ssl["client"].sock # NULL, PclConnect(ssl["client"].sock, e),
         NEW s, ssl' = [ssl EXCEPT !["client"] = s], s # NULL, s.sock = ssl["client"].sock,
         (IF s.session = NULL THEN 1 ELSE s.session.step) = StepOf("client")
  PROVE  StreamsInv'
<1>1. "client" \in Role /\ "client" \in Handshaker
  BY DEF Role, Handshaker
<1>2. PICK b \in Live : b = ssl["client"].sock
  BY <1>1, OwnSock DEF AppInv
<1>3. PICK f \in OpenFds : f = FdOf(b) /\ f = SockFd("client")
  BY <1>2, LiveFds DEF AppInv, SockFd
<1>4. /\ StreamInv' /\ KeepsBut({f})
      /\ \/ Keeps(f)
         \/ fds'[f].conn = 0
         \/ fds'[f].conn # 0 /\ Fresh(Link(f)', EndOf(f)')
  BY <1>2, <1>3, PclConnectStreams DEF AppInv, StreamsInv
<1>5. Elsewhere(b) /\ sock'[b].fd = sock[b].fd
  <2>1. sock' = sock \/ sock' = [sock EXCEPT ![b].connected = TRUE]
    BY <1>2 DEF PclConnect
  <2>2. sock \in [Block -> Fields \cup {NULL}] /\ b \in Block /\ sock[b] \in Fields
    BY <1>2, LiveFds DEF AppInv, SocketInv, Types
  <2>3. \A c \in Live \ {b} : c \in Block /\ c # b
    BY DEF Live
  <2>4. CASE sock' = sock
    BY <2>4 DEF Elsewhere
  <2>5. CASE sock' = [sock EXCEPT ![b].connected = TRUE]
    <3>1. sock'[b].fd = sock[b].fd
      BY <2>2, <2>5 DEF Fields
    <3>2. \A c \in Live \ {b} : sock'[c] = sock[c]
      BY <2>2, <2>3, <2>5
    <3> QED
      BY <3>1, <3>2 DEF Elsewhere
  <2> QED
    BY <2>1, <2>4, <2>5
<1>6. ButBlock(b)
  BY <1>3, <1>4, <1>5, ButBlocks DEF AppInv
<1>7. /\ SockFd("client")' = f /\ StepOf("client")' = StepOf("client")
      /\ \A q \in Role \ {"client"} : ssl'[q] = ssl[q]
  BY ZenonT(30), <1>1, <1>2, <1>3, <1>5, OtherObjects DEF FdOf
<1>8. StreamOK("client")'
  <2>1. CASE Keeps(f)
    BY <1>1, <1>3, <1>7, <2>1, StreamStays DEF StreamsInv
  <2>2. CASE fds'[f].conn = 0
    BY <1>7, <2>2 DEF StreamOK, OnLink
  <2>3. CASE Session("client") = NULL /\ Fresh(Link(f)', EndOf(f)')
    <3>1. StepOf("client")' = 1
      BY <1>7, <2>3 DEF StepOf
    <3> QED
      BY <1>7, <2>3, <3>1, StreamBegins
  <2>4. CASE Session("client") # NULL
    <3>1. Alive(b)
      BY <1>1, <1>2, <2>4, ObjectType DEF RoleOK, Alive
    <3>2. UNCHANGED kernelVars
      BY <1>2, <3>1 DEF PclConnect
    <3>3. Keeps(f)
      BY <3>2, NothingMoves DEF KeepsBut, AppInv, SocketInv, StreamsInv
    <3> QED
      BY <2>1, <3>3
  <2> QED
    BY <1>4, <2>1, <2>2, <2>3, <2>4
<1> QED
  BY <1>1, <1>2, <1>4, <1>6, <1>7, <1>8, RoleStreams

LEMMA ConnectSocketStreams ==
  ASSUME AppInv, AppInv', StreamsInv, ConnectSocket, UNCHANGED <<ptr, op>>
  PROVE  StreamsInv'
<1>1. /\ "client" \in Role /\ Exists("client") /\ ssl["client"].sock # NULL
      /\ ssl["client"] \in SslObject /\ ssl["client"] # NULL
      /\ ssl = [ssl EXCEPT !["client"] = ssl["client"]]
  <2>1. "client" \in Role /\ Exists("client") /\ call["client"].at = "connect"
    BY DEF Role, ConnectSocket, In
  <2> QED
    BY <2>1, ObjectType DEF RoleOK, Exists
<1>2. CASE PclConnect(ssl["client"].sock, "0") /\ ssl' = [ssl EXCEPT !["client"] = WithSession(@, SockFd("client"))]
  <2>1. PICK s : s = WithSession(ssl["client"], SockFd("client"))
    OBVIOUS
  <2>2. s.sock = ssl["client"].sock /\ s # NULL
        /\ (IF s.session = NULL THEN 1 ELSE s.session.step) = StepOf("client")
    <3>1. CASE ssl["client"].session = NULL
      <4>1. PICK n : n = NewSession(SockFd("client"))
        OBVIOUS
      <4>2. n.step = 1 /\ s = [ssl["client"] EXCEPT !.session = n]
        BY <2>1, <3>1, <4>1 DEF NewSession, WithSession
      <4>3. s.session = n /\ s.sock = ssl["client"].sock /\ s # NULL
        <5>1. n \in SslSession
          <6>1. SockFd("client") \in Fd
            BY <1>1, OwnSock, LiveFds DEF AppInv, SockFd, OpenFds
          <6> QED
            BY <4>1, <6>1 DEF NewSession, SslSession
        <5>2. s \in SslObject /\ s.session = n /\ s.sock = ssl["client"].sock
          BY <1>1, <4>2, <5>1 DEF SslObject
        <5> QED
          BY <5>2, TlsAssumption
      <4> QED
        BY <3>1, <4>2, <4>3 DEF StepOf, Session
    <3>2. CASE ssl["client"].session # NULL
      BY <1>1, <2>1, <3>2 DEF WithSession, StepOf, Session
    <3> QED
      BY <3>1, <3>2
  <2>3. ssl' = [ssl EXCEPT !["client"] = s]
    BY <1>1, <1>2, <2>1
  <2> QED
    BY <1>1, <1>2, <2>2, <2>3, ConnectedStreams
<1>3. ASSUME NEW e, PclConnect(ssl["client"].sock, e), UNCHANGED ssl PROVE StreamsInv'
  <2>1. ssl' = [ssl EXCEPT !["client"] = ssl["client"]]
    BY <1>1, <1>3
  <2>2. (IF ssl["client"].session = NULL THEN 1 ELSE ssl["client"].session.step) = StepOf("client")
    BY DEF StepOf, Session
  <2> QED
    BY <1>1, <1>3, <2>1, <2>2, ConnectedStreams
<1>4. CASE SslClose("client")
  BY <1>1, <1>4, ClosesStreams
<1> QED
  BY <1>2, <1>3, <1>4 DEF ConnectSocket, tlsVars

\* A connection's streams after a step.
LEMMA NextStream ==
  ASSUME KernelInv, StreamInv', fds' = fds, NEW g \in OpenFds, fds[g].conn # 0
  PROVE  IsStream(Link(g)')
<1>1. fds[g].conn \in Conn /\ Link(g)' = conns'[fds[g].conn]
  BY EndTypes DEF Link
<1> QED
  BY <1>1 DEF StreamInv

\* The session of r moves data on its own descriptor.
LEMMA SessionMoves ==
  ASSUME AppInv, StreamsInv, NEW r \in Handshaker, Exists(r), Session(r) # NULL,
         UNCHANGED <<sock, ptr, op>>, NEW s, ssl' = [ssl EXCEPT ![r] = s],
         s # NULL, s.sock = ssl[r].sock, s.session # NULL,
         StreamInv', fds' = fds, NEW g, g = SslFd(r), KeepsBut({g}),
         Records(r, s.session.step, Link(g)', EndOf(g))
  PROVE  StreamsInv'
<1>1. r \in Role
  BY DEF Handshaker, Role
<1>2. ssl[r].sock # NULL /\ SslFd(r) = SockFd(r)
  BY <1>1, ObjectType DEF RoleOK
<1>3. PICK b \in Live : b = ssl[r].sock /\ FdOf(b) = g
  BY <1>1, <1>2, OwnSock DEF AppInv, SockFd
<1>4. ButBlock(b)
  BY <1>3, ButBlocks DEF AppInv, Elsewhere
<1>5. /\ SockFd(r)' = g /\ StepOf(r)' = s.session.step
      /\ \A q \in Role \ {r} : ssl'[q] = ssl[q]
  <2>1. /\ \A q \in Role \ {r} : ssl'[q] = ssl[q]
        /\ SockFd(r)' = sock'[s.sock].fd
        /\ StepOf(r)' = IF s.session = NULL THEN 1 ELSE s.session.step
    BY ONLY <1>1, AppInv, ssl' = [ssl EXCEPT ![r] = s], OtherObjects
  <2>2. sock'[s.sock].fd = g
    BY <1>3 DEF FdOf
  <2> QED
    BY ONLY <2>1, <2>2, s.session # NULL
<1>6. StreamOK(r)'
  <2>1. EndOf(g)' = EndOf(g)
    BY DEF EndOf
  <2> QED
    BY <1>5, <2>1 DEF StreamOK
<1> QED
  BY <1>1, <1>3, <1>4, <1>5, <1>6, RoleStreams

\* What the session of r has done so far.
LEMMA SessionStream ==
  ASSUME AppInv, StreamsInv, NEW r \in Handshaker, Exists(r), Session(r) # NULL, NEW g, g = SslFd(r)
  PROVE  /\ g \in OpenFds /\ fds[g].conn # 0 /\ IsStream(Link(g)) /\ EndOf(g) \in End
         /\ Session(r).step \in 1 .. 5 /\ Records(r, Session(r).step, Link(g), EndOf(g))
<1>1. r \in Role
  BY DEF Handshaker, Role
<1>2. ssl[r].sock # NULL
  BY <1>1, ObjectType DEF RoleOK
<1>3. /\ SockFd(r) \in OpenFds /\ StepOf(r) \in 1 .. 5 /\ EndOf(SockFd(r)) \in End
      /\ fds[SockFd(r)].conn # 0 /\ IsStream(Link(SockFd(r))) /\ SslFd(r) = SockFd(r)
  BY <1>1, <1>2, RoleLink DEF StreamsInv
<1>4. Records(r, StepOf(r), Link(SockFd(r)), EndOf(SockFd(r)))
  BY <1>2, <1>3 DEF StreamsInv, StreamOK, OnLink
<1> QED
  BY <1>3, <1>4 DEF StepOf

\* Every record is of the handshake.
LEMMA ScriptSymbols ==
  ASSUME NEW r, NEW i \in 1 .. 4
  PROVE  Script(r)[i][1] \in {"r", "w"} /\ Script(r)[i][2] \in Symbol
<1>1. i = 1 \/ i = 2 \/ i = 3 \/ i = 4
  OBVIOUS
<1> QED
  BY <1>1 DEF Script, Symbol

LEMMA OneTaken ==
  ASSUME NEW x \in Symbol
  PROVE  \E data \in Seq(Symbol) : data = <<x>> /\ SubSeq(data, 1, 1) = <<x>>
<1>1. <<x>> \in Seq(Symbol)
  BY OneSymbol
<1>2. PICK data \in Seq(Symbol) : data = <<x>>
  BY <1>1
<1>3. Len(data) = 1
  BY <1>2
<1>4. PICK t : t = SubSeq(data, 1, 1)
  OBVIOUS
<1>5. t \in Seq(Symbol) /\ Len(t) = 1 /\ \A i \in 1 .. 1 : t[i] = data[i]
  BY <1>3, <1>4, FirstOf
<1>6. t = data
  BY ONLY <1>3, <1>5, SeqEqual, data \in Seq(Symbol)
<1> QED
  BY <1>2, <1>4, <1>6

LEMMA NegotiateStreams ==
  ASSUME AppInv, StreamsInv, NEW r \in Handshaker, Negotiate(r), UNCHANGED <<ptr, op>>
  PROVE  StreamsInv'
<1>1. r \in Role /\ Exists(r) /\ Session(r) # NULL /\ ~Up(r)
      /\ ssl[r] \in SslObject /\ ssl[r].session \in SslSession
  <2>1. r \in Role /\ r # "listener" /\ Exists(r) /\ call[r].at = "negotiate"
    BY DEF Role, Negotiate, In, Handshaker
  <2> QED
    BY <2>1, ObjectType DEF RoleOK, Session
<1>2. PICK g : g = SslFd(r)
  OBVIOUS
<1>3. PICK e : e = EndOf(g)
  OBVIOUS
<1>4. PICK step : step = Session(r).step
  OBVIOUS
<1>5. /\ g \in OpenFds /\ fds[g].conn # 0 /\ IsStream(Link(g)) /\ e \in End
      /\ step \in 1 .. 5 /\ Records(r, step, Link(g), e)
  BY <1>1, <1>2, <1>3, <1>4, SessionStream
<1>6. step \in 1 .. 4
  <2>1. ~(step > 4)
    BY <1>1, <1>4, ScriptLen DEF Up, HasSession
  <2> QED
    BY <1>5, <2>1
<1>7. PICK x \in Symbol : x = Script(r)[step][2]
  BY <1>6, ScriptSymbols
<1>8. Next1(r)[1] = Script(r)[step][1] /\ Next1(r)[2] = x
  BY <1>4, <1>7 DEF Next1
<1>9. CASE SslClose(r)
  BY <1>1, <1>9, ClosesStreams
<1>10. CASE UNCHANGED <<ssl, sock, kernelVars>>
  BY <1>10, StreamsUnmoved
<1>11. ASSUME Progress(r), StreamInv', fds' = fds, KeepsBut({g}), Records(r, step + 1, Link(g)', e)
       PROVE  StreamsInv'
  <2>1. PICK s : s = [ssl[r] EXCEPT !.session.step = @ + 1]
    OBVIOUS
  <2>2. /\ s \in SslObject /\ s.sock = ssl[r].sock /\ s.session \in SslSession
        /\ s.session.step = step + 1
    BY <1>1, <1>4, <1>6, <2>1 DEF SslObject, SslSession, Session
  <2>3. s # NULL /\ s.session # NULL
    BY <2>2, TlsAssumption
  <2>4. ssl' = [ssl EXCEPT ![r] = s] /\ sock' = sock
    BY <1>11, <2>1 DEF Progress
  <2> QED
    BY <1>1, <1>2, <1>3, <1>11, <2>2, <2>3, <2>4, SessionMoves
<1>12. CASE Script(r)[step][1] = "w" /\ KSend(g, <<x>>, 1, "0") /\ Progress(r)
  <2>1. PICK data \in Seq(Symbol) : data = <<x>> /\ SubSeq(data, 1, 1) = <<x>>
    BY OneTaken
  <2>2. KSend(g, data, 1, "0")
    BY <1>12, <2>1
  <2>3. /\ StreamInv' /\ KeepsBut({g}) /\ fds' = fds
        /\ Link(g)'.read = Link(g).read /\ Link(g)'.sent[Other(e)] = Link(g).sent[Other(e)]
        /\ Link(g)'.sent[e] = Link(g).sent[e] \o SubSeq(data, 1, 1)
    BY <1>3, <1>5, <2>2, SendStreams DEF AppInv, SocketInv, StreamsInv
  <2>4. Records(r, step + 1, Link(g)', e)
    <3>1. PICK c : c = Link(g)
      OBVIOUS
    <3>2. PICK d : d = Link(g)'
      OBVIOUS
    <3>3. /\ d.sent[e] = c.sent[e] \o <<x>> /\ d.sent[Other(e)] = c.sent[Other(e)] /\ d.read[e] = c.read[e]
      BY <2>1, <2>3, <3>1, <3>2
    <3>4. IsStream(c) /\ Records(r, step, c, e) /\ e \in End
      BY <1>5, <3>1
    <3>5. Records(r, step + 1, d, e)
      BY ONLY <1>6, <1>7, <1>12, <3>3, <3>4, RecordsSend, x \in Symbol
    <3> QED
      BY <3>2, <3>5
  <2> QED
    BY <1>11, <1>12, <2>3, <2>4
<1>13. CASE Script(r)[step][1] = "r" /\ Here(g) # <<>> /\ Here(g)[1] = x /\ KRecv(g, 1, 1, "0") /\ Progress(r)
  <2>1. /\ StreamInv' /\ KeepsBut({g}) /\ fds' = fds /\ Link(g)'.sent = Link(g).sent
        /\ 1 \in 0 .. Len(Here(g)) /\ Link(g)'.read[e] = Link(g).read[e] + 1
    BY <1>3, <1>5, <1>13, RecvStreams DEF AppInv, SocketInv, StreamsInv
  <2>2. Link(g).sent[Other(e)][Link(g).read[e] + 1] = x
    <3>1. \A i \in 1 .. Len(Here(g)) : Here(g)[i] = Link(g).sent[Other(e)][Link(g).read[e] + i]
      BY <1>3, <1>5, UnreadType DEF Here, EndOf
    <3>2. 1 \in 1 .. Len(Here(g))
      BY <2>1
    <3> QED
      BY <1>13, <3>1, <3>2
  <2>3. Records(r, step + 1, Link(g)', e)
    <3>1. PICK c : c = Link(g)
      OBVIOUS
    <3>2. PICK d : d = Link(g)'
      OBVIOUS
    <3>3. /\ c.sent[Other(e)][c.read[e] + 1] = Script(r)[step][2] /\ d.sent = c.sent /\ d.read[e] = c.read[e] + 1
      BY <1>7, <2>1, <2>2, <3>1, <3>2
    <3>4. IsStream(c) /\ Records(r, step, c, e) /\ e \in End
      BY <1>5, <3>1
    <3>5. Records(r, step + 1, d, e)
      BY ONLY <1>6, <1>13, <3>3, <3>4, RecordsRecv
    <3> QED
      BY <3>2, <3>5
  <2> QED
    BY <1>11, <1>13, <2>1, <2>3
<1> QED
  BY <1>2, <1>8, <1>9, <1>10, <1>12, <1>13 DEF Negotiate

\* Data comes and goes when the session is up; otherwise the object is closed.
LEMMA DataStreams ==
  ASSUME AppInv, StreamsInv, NEW r \in Handshaker, SslSend(r) \/ SslRecv(r), UNCHANGED <<ptr, op>>
  PROVE  StreamsInv'
<1>1. r \in Role /\ Exists(r) /\ Session(r) # NULL /\ Session(r).step > 4 /\ ssl[r] # NULL
  <2>1. Ready(r)
    BY DEF SslSend, SslRecv
  <2> QED
    BY <2>1, ScriptLen DEF Ready, Up, HasSession, Exists, Handshaker, Role
<1>2. PICK g : g = SslFd(r)
  OBVIOUS
<1>3. PICK e : e = EndOf(g)
  OBVIOUS
<1>4. /\ g \in OpenFds /\ fds[g].conn # 0 /\ IsStream(Link(g)) /\ e \in End
      /\ Session(r).step = 5 /\ Records(r, 5, Link(g), e)
  <2>1. Session(r).step \in 1 .. 5 /\ Records(r, Session(r).step, Link(g), e)
    BY <1>1, <1>2, <1>3, SessionStream
  <2>2. Session(r).step = 5
    BY <1>1, <2>1
  <2> QED
    BY <1>1, <1>2, <1>3, <2>1, <2>2, SessionStream
<1>5. ASSUME UNCHANGED <<tlsVars, sock>>, StreamInv', fds' = fds, KeepsBut({g}),
             Records(r, 5, Link(g)', e)
      PROVE  StreamsInv'
  <2>1. ssl' = [ssl EXCEPT ![r] = ssl[r]]
    BY <1>1, <1>5 DEF tlsVars, AppInv, SocketInv, Types
  <2>2. ssl[r].session # NULL /\ ssl[r].session.step = 5
    BY <1>1, <1>4 DEF Session
  <2> QED
    BY <1>1, <1>2, <1>3, <1>5, <2>1, <2>2, SessionMoves
<1>6. CASE SslClose(r)
  BY <1>1, <1>6, ClosesStreams
<1>7. CASE KSend(g, <<"data">>, 1, "0") /\ UNCHANGED <<tlsVars, sock>>
  <2>1. "data" \in Symbol
    BY DEF Symbol
  <2>2. PICK data \in Seq(Symbol) : data = <<"data">> /\ SubSeq(data, 1, 1) = <<"data">>
    BY <2>1, OneTaken
  <2>3. KSend(g, data, 1, "0")
    BY <1>7, <2>2
  <2>4. /\ StreamInv' /\ KeepsBut({g}) /\ fds' = fds
        /\ Link(g)'.read = Link(g).read /\ Link(g)'.sent[Other(e)] = Link(g).sent[Other(e)]
        /\ Link(g)'.sent[e] = Link(g).sent[e] \o SubSeq(data, 1, 1)
    BY <1>3, <1>4, <2>3, SendStreams DEF AppInv, SocketInv, StreamsInv
  <2>5. Records(r, 5, Link(g)', e)
    <3>1. PICK c : c = Link(g)
      OBVIOUS
    <3>2. PICK d : d = Link(g)'
      OBVIOUS
    <3>3. /\ d.sent[e] = c.sent[e] \o <<"data">> /\ d.sent[Other(e)] = c.sent[Other(e)] /\ d.read = c.read
      BY <2>2, <2>4, <3>1, <3>2
    <3>4. IsStream(c) /\ Records(r, 5, c, e) /\ e \in End
      BY <1>4, <3>1
    <3>5. IsStream(d)
      BY <1>4, <2>4, <3>2, NextStream DEF AppInv, SocketInv
    <3>6. Records(r, 5, d, e)
      BY ONLY <3>3, <3>4, <3>5, RecordsData
    <3> QED
      BY <3>2, <3>6
  <2> QED
    BY <1>5, <1>7, <2>4, <2>5
<1>8. CASE KRecv(g, 1, 1, "0") /\ UNCHANGED <<tlsVars, sock>>
  <2>1. /\ StreamInv' /\ KeepsBut({g}) /\ fds' = fds /\ Link(g)'.sent = Link(g).sent
        /\ Link(g)'.read[e] = Link(g).read[e] + 1
    BY <1>3, <1>4, <1>8, RecvStreams DEF AppInv, SocketInv, StreamsInv
  <2>2. Records(r, 5, Link(g)', e)
    <3>1. PICK c : c = Link(g)
      OBVIOUS
    <3>2. PICK d : d = Link(g)'
      OBVIOUS
    <3>3. d.sent = c.sent /\ d.read[e] = c.read[e] + 1
      BY <2>1, <3>1, <3>2
    <3>4. IsStream(c) /\ Records(r, 5, c, e) /\ e \in End
      BY <1>4, <3>1
    <3>5. IsStream(d)
      BY <1>4, <2>1, <3>2, NextStream DEF AppInv, SocketInv
    <3>6. Records(r, 5, d, e)
      BY ONLY <3>3, <3>4, <3>5, RecordsData
    <3> QED
      BY <3>2, <3>6
  <2> QED
    BY <1>5, <1>8, <2>1, <2>2
<1> QED
  BY <1>2, <1>6, <1>7, <1>8 DEF SslSend, SslRecv

LEMMA BeginConnectStreams ==
  ASSUME AppInv, StreamsInv, BeginConnect, UNCHANGED <<ptr, op>>
  PROVE  StreamsInv'
<1>1. CASE UNCHANGED <<ssl, sock, kernelVars>>
  BY <1>1, StreamsUnmoved
<1>2. CASE NewSocketFor("client", ssl["client"])
  <2>1. "client" \in Role /\ Exists("client") /\ ssl["client"] \in SslObject
    BY ObjectType DEF Role, BeginConnect
  <2>2. ssl["client"].nonblock \in BOOLEAN
    BY <2>1 DEF SslObject
  <2> QED
    BY <1>2, <2>1, <2>2, SocketMadeStreams
<1> QED
  BY <1>1, <1>2 DEF BeginConnect

LEMMA TlsStreams ==
  ASSUME AppInv, AppInv', StreamsInv, TlsNext
  PROVE  StreamsInv'
<1>1. UNCHANGED <<ptr, op>>
  BY DEF TlsNext
<1>2. CASE Network /\ UNCHANGED <<sock, tlsVars>>
  BY <1>1, <1>2, PlainKeepsStreams DEF SocketNext, socketVars
<1>3. CASE TlsCall
  <2>1. ASSUME NEW r \in Role, CloseSsl(r) \/ FreeSsl(r) PROVE StreamsInv'
    BY <1>1, <2>1, ClosesStreams DEF CloseSsl, FreeSsl
  <2>2. ASSUME NEW r \in Handshaker, Negotiate(r) \/ Verify(r) \/ SslSend(r) \/ SslRecv(r)
        PROVE  StreamsInv'
    <3>1. ASSUME Verify(r) PROVE StreamsInv'
      <4>1. r \in Role /\ Exists(r)
        BY <3>1 DEF Verify, In, Handshaker, Role
      <4> QED
        BY <1>1, <3>1, <4>1, ClosesStreams, StreamsUnmoved DEF Verify
    <3> QED
      BY <1>1, <2>2, <3>1, NegotiateStreams, DataStreams
  <2>3. ASSUME NEW nonblock \in BOOLEAN, NEW verify \in BOOLEAN,
               NewListener(nonblock) \/ NewClient(nonblock, verify)
        PROVE  StreamsInv'
    BY <1>1, <2>3, NewStreamsKeep
  <2>4. BindListener \/ SslAccept \/ BeginConnect \/ ConnectSocket \/ BeginHandshake => StreamsInv'
    <3>1. BeginHandshake => StreamsInv'
      BY <1>1, StreamsUnmoved DEF BeginHandshake
    <3> QED
      BY <1>1, <3>1, BindStreams, AcceptedStreams, BeginConnectStreams, ConnectSocketStreams
  <2>5. Handshaker = {"client", "peer"}
    BY DEF Handshaker
  <2> QED
    BY <1>3, <2>1, <2>2, <2>3, <2>4, <2>5 DEF TlsCall
<1> QED
  BY <1>2, <1>3 DEF TlsNext

LEMMA StreamsInvariant == AppSpec => [](AppInv /\ StreamsInv)
<1>1. ASSUME AppInv, StreamsInv, [AppNext]_TlsAll PROVE AppInv' /\ StreamsInv'
  <2>1. AppInv'
    BY <1>1, AppKeeps
  <2>2. CASE UNCHANGED TlsAll
    BY <1>1, <2>1, <2>2, StreamsUnmoved DEF TlsAll, socketVars, tlsVars
  <2>3. CASE SocketNext /\ UNCHANGED tlsVars
    BY <1>1, <2>1, <2>3, PlainKeepsStreams
  <2>4. CASE TlsNext
    BY <1>1, <2>1, <2>4, TlsStreams
  <2> QED
    BY <1>1, <2>1, <2>2, <2>3, <2>4 DEF AppNext
<1>2. AppInit => AppInv /\ StreamsInv
  BY AppInitial, StreamsInitial
<1> QED
  BY <1>1, <1>2, PTL DEF AppSpec

-----------------------------------------------------------------------------
\* Each record of a handshake is sent once and read once, in the order of its
\* script, and data only after them, whatever blocks, is interrupted or is called
\* again after PCL_EAGAIN (ssl_connect.c, ssl_handshake.c, ssl_send.c, ssl_recv.c).
THEOREM HandshakesOnce == AppSpec => []HandshakeOnce
<1>1. ASSUME AppInv, StreamsInv PROVE HandshakeOnce
  <2>1. ASSUME NEW r \in Handshaker, HasSession(r)
        PROVE  LET c == Link(SslFd(r))  e == fds[SslFd(r)].end  done == Session(r).step - 1
                   written == Cardinality(Turns(r, "w", done))  gotten == Cardinality(Turns(r, "r", done))
               IN  /\ InTurn(r, "w", c.sent[e]) /\ InTurn(r, "r", c.sent[Other(e)])
                   /\ written <= Len(c.sent[e]) /\ gotten <= c.read[e]
                   /\ \A j \in written + 1 .. Len(c.sent[e]) : c.sent[e][j] = "data"
                   /\ ~Up(r) => Len(c.sent[e]) = written /\ c.read[e] = gotten
    <3>1. Exists(r) /\ Session(r) # NULL /\ (Up(r) <=> Session(r).step > 4)
      BY <2>1, ScriptLen DEF HasSession, Up
    <3>2. Session(r).step \in 1 .. 5 /\ Records(r, Session(r).step, Link(SslFd(r)), EndOf(SslFd(r)))
      BY <1>1, <3>1, SessionStream
    <3> QED
      BY <3>1, <3>2 DEF Records, Turned, InTurn, EndOf
  <2> QED
    BY <2>1 DEF HandshakeOnce, Handshaker
<1> QED
  BY <1>1, StreamsInvariant, PTL

\* What a call of pcl_send, pcl_sendall, pcl_recv or pcl_recvall moves is exact:
\* the stream is what it was with a beginning of the data, and what is received is
\* the next bytes of the stream, for all messages, counts and queue sizes and
\* however often the call goes round its loop or is interrupted.  When pcl_sendall
\* or pcl_recvall succeeds it is all of it, provided an unsigned int can hold the
\* count: the loops compare no more of it (send.c, sendall.c:55, recv.c,
\* recvall.c:68).
THEOREM SocketCallsExact == AppSpec => CallsExact
<1> DEFINE Exact == \A r \in Role :
      op[r] # op'[r] => /\ Running(r, {"send", "sendall"}) => SentExactly(r)
                        /\ Running(r, {"recv", "recvall"}) => ReceivedExactly(r)
<1>1. ASSUME AppInv, StreamsInv, AppNext PROVE Exact
  <2> SUFFICES ASSUME NEW r \in Role, op[r] # op'[r]
               PROVE  /\ Running(r, {"send", "sendall"}) => SentExactly(r)
                      /\ Running(r, {"recv", "recvall"}) => ReceivedExactly(r)
    OBVIOUS
  <2>1. SocketNext /\ UNCHANGED tlsVars
    BY <1>1 DEF AppNext, TlsNext
  <2>2. Running(r, {"send", "sendall"}) => SentExactly(r)
    <3> SUFFICES ASSUME Running(r, {"send", "sendall"}) PROVE SentExactly(r)
      OBVIOUS
    <3>1. Running(r, IONames) /\ ~RecvStep(r)
      BY DEF Running, IONames, RecvStep
    <3>2. SendStep(r)
      BY <1>1, <2>1, <3>1, OnlySteps DEF StreamsInv
    <3> QED
      BY <1>1, <2>1, <3>2, SendStepStream DEF AppInv, StreamsInv
  <2>3. Running(r, {"recv", "recvall"}) => ReceivedExactly(r)
    <3> SUFFICES ASSUME Running(r, {"recv", "recvall"}) PROVE ReceivedExactly(r)
      OBVIOUS
    <3>1. Running(r, IONames) /\ ~SendStep(r)
      BY DEF Running, IONames, SendStep
    <3>2. RecvStep(r)
      BY <1>1, <2>1, <3>1, OnlySteps DEF StreamsInv
    <3> QED
      BY <1>1, <2>1, <3>2, RecvStepStream DEF AppInv, StreamsInv
  <2> QED
    BY <2>2, <2>3
<1>2. ASSUME AppInv, StreamsInv, [AppNext]_TlsAll PROVE [Exact]_<<kernelVars, socketVars>>
  BY <1>1, <1>2 DEF TlsAll
<1>3. AppSpec => [][Exact]_<<kernelVars, socketVars>>
  <2> HIDE DEF Exact
  <2> QED
    BY <1>2, StreamsInvariant, PTL DEF AppSpec
<1> QED
  BY <1>3 DEF CallsExact
=============================================================================
