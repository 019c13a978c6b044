--------------------------- MODULE RuntimeProofs ---------------------------
(***************************************************************************)
(* Proofs about Runtime, for any number of threads, foreign threads and    *)
(* handlers, when one thread calls pcl_init: the event mutex is held by    *)
(* the thread that is inside a dispatch, once per dispatch; with two       *)
(* callers that is false, for the second may replace a mutex in use.       *)
(* Threads have the error context they need, and a dispatch reaches the    *)
(* handlers it should.  A part is about ProcExec, for any number of        *)
(* threads and any streams: a call leaks no descriptor, and what it        *)
(* returns is true of its child.  The last part is about ShellWords, for   *)
(* any words: a command line that is cut gives the words it was written    *)
(* from.                                                                   *)
(***************************************************************************)
EXTENDS Runtime, ProcExec, ShellWords, Induction, FiniteSetTheorems, SequenceTheorems, TLAPS

\* Until the mutex exists nothing runs but its creator.
Setup == {"main", "cas", "setup"}
Quiet(m) == \A t \in Thread : pc[t] \in Setup =>
  /\ t = m /\ lock.owner = NoThread
  /\ \A u \in Thread :
       /\ frames[u] = <<>> /\ call[u] = NoCall
       /\ u # t => pc[u] \in {"unborn", "foreign"}

\* A key in a thread's storage comes with a context to free.
ContextHeld == \A t \in Thread : tls[t] # 0 => contexts[t] > 0

\* The inductive invariant.
RunInv(m) == TypeOK /\ LockOK /\ ContextHeld /\ Quiet(m)

-----------------------------------------------------------------------------
\* What the operators on a thread's dispatches return.
LEMMA FrameFacts ==
  ASSUME NEW s \in Seq(Frame)
  PROVE  /\ Len(s) \in Nat /\ (s = <<>> <=> Len(s) = 0)
         /\ \A f \in Frame : /\ Append(s, f) \in Seq(Frame)
                             /\ Len(Append(s, f)) = Len(s) + 1
                             /\ Append(s, f) # <<>>
         /\ s # <<>> =>
              /\ s[Len(s)] \in Frame
              /\ Popped(s) \in Seq(Frame) /\ Len(Popped(s)) = Len(s) - 1
              /\ \A f \in Frame : /\ WithTop(s, f) \in Seq(Frame)
                                  /\ Len(WithTop(s, f)) = Len(s)
                                  /\ WithTop(s, f) # <<>>
         /\ \A h \in Handler : /\ Removed(s, h) \in Seq(Frame)
                               /\ Len(Removed(s, h)) = Len(s)
  <1>1. /\ Len(s) \in Nat /\ (s = <<>> <=> Len(s) = 0)
        /\ \A f \in Frame : /\ Append(s, f) \in Seq(Frame)
                            /\ Len(Append(s, f)) = Len(s) + 1
                            /\ Append(s, f) # <<>>
    OBVIOUS
  <1>2. ASSUME s # <<>>
        PROVE  s[Len(s)] \in Frame /\ Popped(s) \in Seq(Frame)
               /\ Len(Popped(s)) = Len(s) - 1
    <2> DEFINE n == Len(s) - 1
    <2>1. n \in Nat /\ n + 1 = Len(s) /\ \A i \in 1 .. Len(s) : s[i] \in Frame
      BY <1>1, <1>2
    <2>2. s[Len(s)] \in Frame /\ \A i \in 1 .. n : s[i] \in Frame
      BY <2>1
    <2> HIDE DEF n
    <2>3. /\ SubSeq(s, 1, n) \in Seq(Frame)
          /\ Len(SubSeq(s, 1, n)) = IF 1 <= n THEN n - 1 + 1 ELSE 0
      BY <2>1, <2>2, SubSeqProperties
    <2>4. Len(SubSeq(s, 1, n)) = n
      BY <2>1, <2>3
    <2> QED
      BY <2>2, <2>3, <2>4 DEF Popped, n
  <1>3. ASSUME s # <<>>, NEW f \in Frame
        PROVE  /\ WithTop(s, f) \in Seq(Frame)
               /\ Len(WithTop(s, f)) = Len(s) /\ WithTop(s, f) # <<>>
    <2>1. Popped(s) \in Seq(Frame) /\ Len(Popped(s)) = Len(s) - 1
      BY <1>2, <1>3
    <2> QED
      BY <2>1, <1>1 DEF WithTop
  <1>4. ASSUME NEW h \in Handler
        PROVE  Removed(s, h) \in Seq(Frame) /\ Len(Removed(s, h)) = Len(s)
    <2>1. \A f \in Frame : Unregistered(f, h) \in Frame
      BY DEF Frame, Unregistered
    <2> QED
      BY <2>1 DEF Removed
  <1> QED
    BY <1>1, <1>2, <1>3, <1>4

\* A thread inside a dispatch, or with a call pending, runs after EventInit.
LEMMA Running ==
  ASSUME NEW m \in Thread, RunInv(m), NEW t \in Thread,
         frames[t] # <<>> \/ call[t] # NoCall \/ pc[t] \in {"app", "started"}
  PROVE  \A u \in Thread : pc[u] \notin Setup
  BY DEF RunInv, Quiet, Setup

\* A thread that may take the mutex has, by LockOK, the only dispatches.
LEMMA Alone ==
  ASSUME NEW t \in Thread, TypeOK, LockOK, CanLock(t)
  PROVE  /\ lock.depth = Len(frames[t]) /\ lock.depth \in Nat
         /\ \A u \in Thread \ {t} : frames[u] = <<>>
  <1>1. lock.depth \in Nat /\ (lock.owner = NoThread <=> lock.depth = 0)
    BY DEF TypeOK
  <1>2. frames[t] \in Seq(Frame) /\ Len(frames[t]) \in Nat
    BY DEF TypeOK
  <1>3. \A u \in Thread \ {t} : frames[u] = <<>>
    BY RuntimeAssumption DEF LockOK, CanLock
  <1>4. CASE lock.owner = t
    BY <1>1, <1>3, <1>4, RuntimeAssumption DEF LockOK
  <1>5. CASE lock.owner = NoThread
    <2>1. frames[t] = <<>>
      BY <1>5, RuntimeAssumption DEF LockOK
    <2> QED
      BY <1>1, <1>3, <1>5, <2>1
  <1> QED
    BY <1>4, <1>5 DEF CanLock

\* A dispatch takes the mutex once.
LEMMA BeginDispatchLock ==
  ASSUME NEW t \in Thread, NEW e \in Event, TypeOK, LockOK, BeginDispatch(t, e)
  PROVE  /\ LockOK' /\ frames' \in [Thread -> Seq(Frame)]
         /\ lock' \in [owner : Thread \cup {NoThread}, depth : Nat]
         /\ lock'.owner = NoThread <=> lock'.depth = 0
  <1> DEFINE s == Append(frames[t], NewFrame(e))
  <1>1. /\ lock.depth = Len(frames[t]) /\ lock.depth \in Nat
        /\ \A u \in Thread \ {t} : frames[u] = <<>>
    BY Alone DEF BeginDispatch
  <1>2. NewFrame(e) \in Frame
    <2>1. Members(handlers) \subseteq Handler
      BY DEF Members, TypeOK
    <2> QED
      BY <2>1 DEF NewFrame, Frame
  <1>3. s \in Seq(Frame) /\ Len(s) = Len(frames[t]) + 1 /\ s # <<>>
    BY <1>2, FrameFacts DEF TypeOK
  <1> HIDE DEF s
  <1>4. frames \in [Thread -> Seq(Frame)]
    BY DEF TypeOK
  <1>5. frames' = [frames EXCEPT ![t] = s] /\ CanLock(t)
        /\ lock' = [owner |-> t, depth |-> lock.depth + 1]
    BY DEF BeginDispatch, Locked, s
  <1>6. frames' \in [Thread -> Seq(Frame)] /\ frames'[t] = s
        /\ \A u \in Thread \ {t} : frames'[u] = <<>>
    BY <1>1, <1>3, <1>4, <1>5
  <1>7. lock'.owner = t /\ lock'.depth = lock.depth + 1
    BY <1>5
  <1>8. LockOK'
    BY <1>1, <1>3, <1>6, <1>7 DEF LockOK
  <1>9. lock'.owner # NoThread /\ lock'.depth # 0
        /\ lock' \in [owner : Thread \cup {NoThread}, depth : Nat]
    BY <1>1, <1>5, <1>7, RuntimeAssumption
  <1> QED
    BY <1>6, <1>8, <1>9

\* A step of a dispatch that does not end it leaves the mutex alone.
LEMMA SameDepth ==
  ASSUME NEW t \in Thread, NEW s \in Seq(Frame), TypeOK, LockOK,
         Len(s) = Len(frames[t]), lock' = lock,
         frames' = [frames EXCEPT ![t] = s]
  PROVE  LockOK' /\ frames' \in [Thread -> Seq(Frame)]
  <1>1. frames \in [Thread -> Seq(Frame)]
    BY DEF TypeOK
  <1>2. frames[t] = <<>> <=> s = <<>>
    BY <1>1, FrameFacts
  <1>3. \A u \in Thread : /\ Len(frames'[u]) = Len(frames[u])
                          /\ frames'[u] = <<>> <=> frames[u] = <<>>
    BY <1>1, <1>2
  <1>4. LockOK'
    <2>1. \A u \in Thread : frames'[u] # <<>> => lock'.owner = u
      BY <1>3 DEF LockOK
    <2>2. lock.owner # NoThread => lock.owner \in Thread
      BY DEF TypeOK
    <2>3. lock'.owner # NoThread => lock'.depth = Len(frames'[lock'.owner])
      BY <1>3, <2>2 DEF LockOK
    <2> QED
      BY <2>1, <2>3 DEF LockOK
  <1> QED
    BY <1>1, <1>4

-----------------------------------------------------------------------------
\* The initial states satisfy the invariant.
LEMMA InitRunInv ==
  ASSUME NEW m \in Thread, Callers = {m}, Init
  PROVE  RunInv(m)
  <1>1. TypeOK
    BY RuntimeAssumption DEF Init, TypeOK, Location, Call
  <1>2. LockOK /\ ContextHeld /\ Quiet(m)
    BY DEF Init, LockOK, ContextHeld, Quiet, Setup
  <1> QED
    BY <1>1, <1>2 DEF RunInv

\* pcl_init: the compare-and-exchange, the mutex and the two built-in handlers.
LEMMA PclInitStep ==
  ASSUME NEW m \in Thread, Callers = {m}, RunInv(m), NEW t \in Thread,
         \/ InitRead(t) \/ InitExchange(t) \/ EventInit(t)
         \/ RegisterBuiltin(t, "err", "registerErr", "registerTime")
         \/ RegisterBuiltin(t, "time", "registerTime", "dispatch")
  PROVE  RunInv(m)'
  <1>1. /\ initialized \in {0, 1} /\ orig \in [Thread -> {0, 1}]
        /\ pc \in [Thread -> Location] /\ handlers \in Seq(Handler) /\ inits \in Nat
    BY DEF RunInv, TypeOK
  <1>2. CASE InitRead(t)
    <2>1. TypeOK'
      BY <1>2, <1>1 DEF InitRead, Go, RunInv, TypeOK, Location
    <2>2. LockOK' /\ ContextHeld' /\ Quiet(m)'
      BY <1>2, <1>1 DEF InitRead, Go, RunInv, LockOK, ContextHeld, Quiet, Setup
    <2> QED
      BY <2>1, <2>2 DEF RunInv
  <1>3. CASE InitExchange(t)
    <2>1. TypeOK'
      BY <1>3, <1>1 DEF InitExchange, Go, RunInv, TypeOK, Location
    <2>2. LockOK' /\ ContextHeld' /\ Quiet(m)'
      BY <1>3, <1>1 DEF InitExchange, Go, RunInv, LockOK, ContextHeld, Quiet, Setup
    <2> QED
      BY <2>1, <2>2 DEF RunInv
  <1>4. CASE EventInit(t)
    <2>1. t = m
      BY <1>4, <1>1 DEF EventInit, Go, RunInv, Quiet, Setup
    <2>2. \A u \in Thread : frames[u] = <<>>
      BY <1>4, <2>1 DEF EventInit, Go, RunInv, Quiet, Setup
    <2>3. TypeOK'
      BY <1>4, <1>1 DEF EventInit, Go, RunInv, TypeOK, Location
    <2>4. LockOK' /\ ContextHeld' /\ Quiet(m)'
      BY <1>4, <1>1, <2>1, <2>2 DEF EventInit, Go, RunInv, LockOK, ContextHeld, Quiet, Setup
    <2> QED
      BY <2>3, <2>4 DEF RunInv
  <1>5. ASSUME NEW h \in Handler, NEW from \in {"registerErr", "registerTime"},
               NEW to \in {"registerTime", "dispatch"},
               RegisterBuiltin(t, h, from, to)
        PROVE  RunInv(m)'
    <2>1. TypeOK'
      <3>1. handlers' \in Seq(Handler)
        BY <1>5, <1>1 DEF RegisterBuiltin
      <3> QED
        BY <1>5, <1>1, <3>1 DEF RegisterBuiltin, Go, RunInv, TypeOK, Location
    <2>2. LockOK' /\ ContextHeld' /\ Quiet(m)'
      BY <1>5, <1>1 DEF RegisterBuiltin, Go, RunInv, LockOK, ContextHeld, Quiet, Setup
    <2> QED
      BY <2>1, <2>2 DEF RunInv
  <1>6. "err" \in Handler /\ "time" \in Handler
    BY DEF Handler
  <1> QED
    BY <1>2, <1>3, <1>4, <1>5, <1>6

\* The first dispatch of a thread.
LEMMA FirstDispatchStep ==
  ASSUME NEW m \in Thread, Callers = {m}, RunInv(m), NEW t \in Thread,
         NEW from \in {"dispatch", "started", "foreign"}, NEW e \in Event,
         FirstDispatch(t, from, e)
  PROVE  RunInv(m)'
  <1>1. pc[t] = from /\ pc' = [pc EXCEPT ![t] = "initializing"]
        /\ pc \in [Thread -> Location]
    BY DEF FirstDispatch, Go, RunInv, TypeOK
  <1>2. /\ LockOK' /\ frames' \in [Thread -> Seq(Frame)]
        /\ lock' \in [owner : Thread \cup {NoThread}, depth : Nat]
        /\ lock'.owner = NoThread <=> lock'.depth = 0
    BY BeginDispatchLock DEF FirstDispatch, RunInv
  <1>3. TypeOK'
    <2>1. pc' \in [Thread -> Location]
      BY <1>1 DEF Location
    <2> QED
      BY <1>2, <2>1 DEF FirstDispatch, RunInv, TypeOK
  <1>4. ContextHeld'
    BY DEF FirstDispatch, RunInv, ContextHeld
  <1>5. \A u \in Thread : pc[u] \notin Setup
    <2>1. CASE from = "foreign"
      BY <2>1, Running DEF FirstDispatch
    <2>2. CASE from # "foreign"
      BY <1>1, <2>2 DEF RunInv, Quiet, Setup
    <2> QED
      BY <2>1, <2>2
  <1>6. Quiet(m)'
    BY <1>1, <1>5 DEF RunInv, Quiet, Setup
  <1> QED
    BY <1>2, <1>3, <1>4, <1>6 DEF RunInv

-----------------------------------------------------------------------------
\* Calling a handler, and its return.
LEMMA HandlerStep ==
  ASSUME NEW m \in Thread, RunInv(m), NEW t \in Thread,
         CallBuiltin(t) \/ CallUser(t) \/ HandlerReturns(t)
  PROVE  RunInv(m)'
  <1>1. /\ frames \in [Thread -> Seq(Frame)] /\ handlers \in Seq(Handler)
        /\ key \in Nat /\ tls \in [Thread -> Nat] /\ contexts \in [Thread -> Nat]
    BY DEF RunInv, TypeOK
  <1>2. frames[t] # <<>> /\ frames[t] \in Seq(Frame)
    BY <1>1 DEF CallBuiltin, CallUser, HandlerReturns, Looping
  <1>3. Top(t) \in Frame
    BY <1>2, FrameFacts DEF Top
  <1>4. \A f \in Frame : WithTop(frames[t], f) \in Seq(Frame)
          /\ Len(WithTop(frames[t], f)) = Len(frames[t])
    BY <1>2, FrameFacts
  <1>5. /\ Top(t).next \in Nat \ {0} /\ Top(t).called \subseteq Handler
        /\ Top(t).event \in Event /\ Top(t).began \subseteq Handler
        /\ Top(t).gone \subseteq Handler /\ Top(t).removed \in Nat
    BY <1>3 DEF Frame
  <1>6. Top(t).next <= Len(handlers) => handlers[Top(t).next] \in Handler
    BY <1>1, <1>5
  <1>7. PICK f \in Frame : frames' = [frames EXCEPT ![t] = WithTop(frames[t], f)]
    <2>1. CASE CallBuiltin(t)
      <3>1. NextCalled(Top(t)) \in Frame
        BY <2>1, <1>5, <1>6 DEF CallBuiltin, NextCalled, Frame
      <3> QED
        BY <2>1, <3>1 DEF CallBuiltin
    <2>2. CASE CallUser(t)
      <3>1. Calling(Top(t), handlers[Top(t).next]) \in Frame
        BY <2>2, <1>5, <1>6 DEF CallUser, Calling, Frame
      <3> QED
        BY <2>2, <3>1 DEF CallUser
    <2>3. CASE HandlerReturns(t)
      <3>1. Returned(Top(t)) \in Frame
        BY <1>5 DEF Returned, Frame
      <3> QED
        BY <2>3, <3>1 DEF HandlerReturns
    <2> QED
      BY <2>1, <2>2, <2>3
  <1>8. /\ UNCHANGED <<initialized, orig, pc, lock, handlers, inits, call, ops>>
        /\ key' \in Nat /\ tls' \in [Thread -> Nat]
        /\ contexts' \in [Thread -> Nat] /\ ContextHeld'
    <2>1. CASE CallBuiltin(t)
      <3>1. key' \in Nat
        BY <1>1, <2>1 DEF CallBuiltin
      <3>2. \/ tls' = tls /\ contexts' = contexts
            \/ /\ tls' = [tls EXCEPT ![t] = key']
               /\ contexts' = [contexts EXCEPT ![t] = @ + 1]
        BY <2>1 DEF CallBuiltin
      <3>3. UNCHANGED <<initialized, orig, pc, lock, handlers, inits, call, ops>>
        BY <2>1 DEF CallBuiltin
      <3>4. tls' \in [Thread -> Nat] /\ contexts' \in [Thread -> Nat]
        <4>1. contexts[t] + 1 \in Nat
          BY <1>1
        <4>2. [tls EXCEPT ![t] = key'] \in [Thread -> Nat]
          BY <1>1, <3>1
        <4>3. [contexts EXCEPT ![t] = contexts[t] + 1] \in [Thread -> Nat]
          BY <1>1, <4>1
        <4> QED
          BY <1>1, <3>2, <4>2, <4>3
      <3>5. \A u \in Thread : /\ contexts[u] \in Nat
                              /\ tls'[u] # 0 => tls[u] # 0 \/ contexts'[u] = contexts[u] + 1
                              /\ contexts'[u] \in {contexts[u], contexts[u] + 1}
        BY <1>1, <3>1, <3>2
      <3>6. ContextHeld'
        BY <3>5 DEF RunInv, ContextHeld
      <3> QED
        BY <3>1, <3>3, <3>4, <3>6
    <2>2. CASE CallUser(t) \/ HandlerReturns(t)
      BY <1>1, <2>2 DEF CallUser, HandlerReturns, RunInv, ContextHeld
    <2> QED
      BY <2>1, <2>2
  <1>9. LockOK' /\ frames' \in [Thread -> Seq(Frame)]
    BY <1>4, <1>7, <1>8, SameDepth DEF RunInv
  <1>10. TypeOK'
    BY <1>8, <1>9 DEF RunInv, TypeOK
  <1>11. Quiet(m)'
    BY <1>2, <1>8, Running DEF Quiet, Setup
  <1> QED
    BY <1>8, <1>9, <1>10, <1>11 DEF RunInv

\* The end of a dispatch releases the mutex once.
LEMMA EndDispatchStep ==
  ASSUME NEW m \in Thread, RunInv(m), NEW t \in Thread, EndDispatch(t)
  PROVE  RunInv(m)'
  <1>1. /\ frames \in [Thread -> Seq(Frame)] /\ pc \in [Thread -> Location]
        /\ frames[t] # <<>> /\ frames[t] \in Seq(Frame)
    BY DEF RunInv, TypeOK, EndDispatch, Looping
  <1>2. lock.owner = t /\ CanLock(t)
    BY <1>1 DEF RunInv, LockOK, CanLock
  <1>3. /\ lock.depth = Len(frames[t]) /\ lock.depth \in Nat
        /\ \A u \in Thread \ {t} : frames[u] = <<>>
    BY <1>2, Alone DEF RunInv
  <1>4. /\ Popped(frames[t]) \in Seq(Frame)
        /\ Len(Popped(frames[t])) = Len(frames[t]) - 1
        /\ Popped(frames[t]) = <<>> <=> Len(Popped(frames[t])) = 0
        /\ Len(frames[t]) # 0
    BY <1>1, FrameFacts
  <1>5. /\ frames' = [frames EXCEPT ![t] = Popped(frames[t])]
        /\ lock' = Unlocked
        /\ pc' = [pc EXCEPT ![t] = IF @ = "initializing" THEN "app" ELSE @]
        /\ UNCHANGED <<initialized, orig, handlers, key, tls, contexts, inits, call, ops>>
    BY DEF EndDispatch
  <1>6. frames' \in [Thread -> Seq(Frame)] /\ frames'[t] = Popped(frames[t])
        /\ \A u \in Thread \ {t} : frames'[u] = <<>>
    BY <1>1, <1>3, <1>4, <1>5
  <1>7. /\ LockOK' /\ lock' \in [owner : Thread \cup {NoThread}, depth : Nat]
        /\ lock'.owner = NoThread <=> lock'.depth = 0
    <2>1. CASE lock.depth = 1
      <3>1. lock' = [owner |-> NoThread, depth |-> 0]
        BY <1>5, <2>1 DEF Unlocked
      <3>2. \A u \in Thread : frames'[u] = <<>>
        BY <1>3, <1>4, <1>6, <2>1
      <3> QED
        BY <3>1, <3>2 DEF LockOK
    <2>2. CASE lock.depth # 1
      <3>1. lock' = [owner |-> t, depth |-> lock.depth - 1]
        BY <1>2, <1>5, <2>2 DEF Unlocked
      <3>2. lock.depth - 1 \in Nat /\ lock.depth - 1 # 0
        BY <1>3, <1>4, <2>2
      <3>3. lock'.owner = t /\ lock'.depth = lock.depth - 1
        BY <3>1
      <3>4. LockOK'
        BY <1>3, <1>4, <1>6, <3>3 DEF LockOK
      <3> QED
        BY <3>1, <3>2, <3>3, <3>4, RuntimeAssumption
    <2> QED
      BY <2>1, <2>2
  <1>8. TypeOK'
    <2>1. pc' \in [Thread -> Location]
      BY <1>1, <1>5 DEF Location
    <2> QED
      BY <1>5, <1>6, <1>7, <2>1 DEF RunInv, TypeOK
  <1>9. ContextHeld'
    BY <1>5 DEF RunInv, ContextHeld
  <1>10. Quiet(m)'
    <2>1. \A u \in Thread : pc[u] \notin Setup
      BY <1>1, Running
    <2>2. \A u \in Thread : pc'[u] \in {pc[u], "app"}
      BY <1>1, <1>5
    <2> QED
      BY <2>1, <2>2 DEF Quiet, Setup
  <1> QED
    BY <1>7, <1>8, <1>9, <1>10 DEF RunInv

-----------------------------------------------------------------------------
\* A pending call that gets the mutex.
LEMMA ServeStep ==
  ASSUME NEW m \in Thread, RunInv(m), NEW t \in Thread,
         EventRegister(t) \/ EventUnregister(t) \/ EventDispatch(t)
  PROVE  RunInv(m)'
  <1>1. /\ frames \in [Thread -> Seq(Frame)] /\ handlers \in Seq(Handler)
        /\ call \in [Thread -> Call] /\ frames[t] \in Seq(Frame)
    BY DEF RunInv, TypeOK
  <1>2. call[t] # NoCall /\ call' = [call EXCEPT ![t] = NoCall]
        /\ call' \in [Thread -> Call]
    <2>1. PICK name \in {"register", "unregister", "dispatch"} : Serve(t, name)
      BY DEF EventRegister, EventUnregister, EventDispatch
    <2>2. call[t] # NoCall
      BY <2>1 DEF Serve, NoCall
    <2>3. NoCall \in Call
      BY DEF Call
    <2> QED
      BY <1>1, <2>1, <2>2, <2>3 DEF Serve
  <1>3. UNCHANGED <<initialized, orig, pc, key, tls, contexts, inits, ops>>
    BY DEF EventRegister, EventUnregister, EventDispatch
  <1>4. Quiet(m)'
    BY <1>2, <1>3, Running DEF Quiet, Setup
  <1>5. ContextHeld'
    BY <1>3 DEF RunInv, ContextHeld
  <1>6. /\ handlers' \in Seq(Handler) /\ frames' \in [Thread -> Seq(Frame)]
        /\ LockOK' /\ lock' \in [owner : Thread \cup {NoThread}, depth : Nat]
        /\ lock'.owner = NoThread <=> lock'.depth = 0
    <2>1. CASE EventRegister(t)
      <3>1. call[t].name = "register"
        BY <2>1 DEF EventRegister, Serve
      <3>2. call[t].handler \in Handler
        BY <1>1, <3>1 DEF Call, NoCall, Handler
      <3>3. handlers' \in Seq(Handler)
        BY <1>1, <2>1, <3>2 DEF EventRegister
      <3> QED
        BY <2>1, <3>3 DEF EventRegister, RunInv, TypeOK, LockOK
    <2>2. CASE EventUnregister(t)
      <3> DEFINE h == call[t].handler
      <3>1. call[t].name = "unregister"
        BY <2>2 DEF EventUnregister, Serve
      <3>2. h \in Handler
        BY <1>1, <3>1 DEF Call, NoCall, Handler
      <3>3. lock' = lock
        BY <2>2 DEF EventUnregister
      <3> HIDE DEF h
      <3>4. CASE h \in Members(handlers)
        <4>1. /\ handlers' = Without(FirstIndex(h))
              /\ frames' = [frames EXCEPT ![t] = Removed(frames[t], h)]
          BY <2>2, <3>4 DEF EventUnregister, h
        <4>2. LockOK' /\ frames' \in [Thread -> Seq(Frame)]
          <5>1. /\ Removed(frames[t], h) \in Seq(Frame)
                /\ Len(Removed(frames[t], h)) = Len(frames[t])
            BY <1>1, <3>2, FrameFacts
          <5> QED
            BY <3>3, <4>1, <5>1, SameDepth DEF RunInv
        <4>3. handlers' \in Seq(Handler)
          <5>1. Len(handlers) - 1 \in Nat
            BY <1>1, <3>4 DEF Members
          <5>2. \A i : Without(i) \in [1 .. Len(handlers) - 1 -> Handler]
            BY <1>1 DEF Without
          <5> QED
            BY <4>1, <5>1, <5>2
        <4> QED
          BY <3>3, <4>2, <4>3 DEF RunInv, TypeOK
      <3>5. CASE h \notin Members(handlers)
        <4>1. UNCHANGED <<handlers, frames>>
          BY <2>2, <3>5 DEF EventUnregister, h
        <4> QED
          BY <3>3, <4>1 DEF RunInv, TypeOK, LockOK
      <3> QED
        BY <3>4, <3>5
    <2>3. CASE EventDispatch(t)
      <3>1. "USER" \in Event /\ BeginDispatch(t, "USER") /\ handlers' = handlers
        BY <2>3 DEF EventDispatch, Event
      <3> QED
        BY <1>1, <3>1, BeginDispatchLock DEF RunInv
    <2> QED
      BY <2>1, <2>2, <2>3
  <1>7. TypeOK'
    BY <1>2, <1>3, <1>6 DEF RunInv, TypeOK
  <1> QED
    BY <1>4, <1>5, <1>6, <1>7 DEF RunInv

\* What the application does leaves the mutex alone.
LEMMA ApplicationStep ==
  ASSUME NEW m \in Thread, Callers = {m}, RunInv(m), NEW t \in Thread,
         Application(t)
  PROVE  RunInv(m)'
  <1>1. /\ pc \in [Thread -> Location] /\ call \in [Thread -> Call]
        /\ tls \in [Thread -> Nat] /\ contexts \in [Thread -> Nat]
        /\ ops \in 0 .. MaxOps /\ MaxOps \in Nat /\ key \in Nat
    BY RuntimeAssumption DEF RunInv, TypeOK
  <1>2. LockOK'
    BY DEF Application, Asks, CreateThread, RoutineReturns, RunInv, LockOK
  <1>3. \A u \in Thread : pc[u] \notin Setup
    BY Running DEF Application, Asks, CreateThread, RoutineReturns, Free, Go
  <1>4. CASE \E c \in Call \ {NoCall} : Asks(t, c)
    <2>1. TypeOK'
      BY <1>1, <1>4 DEF Asks, RunInv, TypeOK
    <2> QED
      BY <1>2, <1>3, <1>4, <2>1 DEF Asks, RunInv, ContextHeld, Quiet, Setup
  <1>5. CASE \E u \in Thread : CreateThread(t, u)
    <2>1. TypeOK'
      BY <1>1, <1>5 DEF CreateThread, Go, Location, RunInv, TypeOK
    <2> QED
      BY <1>1, <1>2, <1>3, <1>5, <2>1 DEF CreateThread, Go, RunInv, ContextHeld, Quiet, Setup
  <1>6. CASE RoutineReturns(t)
    <2>1. AfterDestroy(t) \in Nat
      BY <1>1 DEF AfterDestroy, RunInv, ContextHeld
    <2>2. TypeOK'
      BY <1>1, <1>6, <2>1 DEF RoutineReturns, Go, Location, RunInv, TypeOK
    <2>3. ContextHeld'
      BY <1>1, <1>6 DEF RoutineReturns, RunInv, ContextHeld
    <2>4. Quiet(m)'
      BY <1>1, <1>3, <1>6 DEF RoutineReturns, Go, Quiet, Setup
    <2> QED
      BY <1>2, <2>2, <2>3, <2>4 DEF RunInv
  <1> QED
    BY <1>4, <1>5, <1>6 DEF Application

-----------------------------------------------------------------------------
\* Every step preserves the invariant.
LEMMA RunInvStep ==
  ASSUME NEW m \in Thread, Callers = {m}, RunInv(m), [Next]_vars
  PROVE  RunInv(m)'
  <1>1. CASE UNCHANGED vars
    BY <1>1 DEF vars, RunInv, TypeOK, LockOK, ContextHeld, Quiet, Setup
  <1>2. ASSUME NEW t \in Thread, PclInit(t)
        PROVE  RunInv(m)'
    BY <1>2, PclInitStep, FirstDispatchStep DEF PclInit, Event
  <1>3. ASSUME NEW t \in Thread, EventStep(t)
        PROVE  RunInv(m)'
    BY <1>3, ServeStep, HandlerStep, EndDispatchStep DEF EventStep
  <1>4. ASSUME NEW t \in Thread, ThreadStarts(t)
        PROVE  RunInv(m)'
    BY <1>4, FirstDispatchStep DEF ThreadStarts, Event
  <1>5. ASSUME NEW t \in Thread, Application(t)
        PROVE  RunInv(m)'
    BY <1>5, ApplicationStep
  <1> QED
    BY <1>1, <1>2, <1>3, <1>4, <1>5 DEF Next

\* Whatever the handlers do, the mutex is held by the thread inside a dispatch,
\* once per dispatch, when one thread calls pcl_init (event_dispatch.c:37-46).
THEOREM RuntimeLock ==
  ASSUME NEW m \in Thread, Callers = {m}
  PROVE  Spec => []LockOK
  <1>1. Init => RunInv(m)
    BY InitRunInv
  <1>2. RunInv(m) /\ [Next]_vars => RunInv(m)'
    BY RunInvStep
  <1>3. RunInv(m) => LockOK
    BY DEF RunInv
  <1> QED
    BY <1>1, <1>2, <1>3, PTL DEF Spec

\* The variables have their types in every reachable state, so a context is
\* never freed that a thread does not have (err_ctx.c:41-46).
THEOREM RuntimeTypes ==
  ASSUME NEW m \in Thread, Callers = {m}
  PROVE  Spec => []TypeOK
  <1>1. Init => RunInv(m)
    BY InitRunInv
  <1>2. RunInv(m) /\ [Next]_vars => RunInv(m)'
    BY RunInvStep
  <1>3. RunInv(m) => TypeOK
    BY DEF RunInv
  <1> QED
    BY <1>1, <1>2, <1>3, PTL DEF Spec

-----------------------------------------------------------------------------
(* Error contexts.  ipcl_err_handler is the first of the handlers for good, *)
(* so the first thing a thread's first dispatch does is to give it one.     *)
Before == Setup \cup {"registerErr", "registerTime", "dispatch"}
New == Before \cup {"unborn", "foreign", "started"}
Unused(t) == frames[t] = <<>> /\ call[t] = NoCall /\ contexts[t] = 0 /\ tls[t] = 0

\* A dispatch of INIT or THREADINIT is past the handler that makes contexts.
Later(f) == f.event # "USER" => f.next > 1
Past(s) == \A i \in 1 .. Len(s) : Later(s[i])
Settled(t) == contexts[t] = 1 /\ tls[t] = 1 /\ key = 1 /\ Past(frames[t])

\* A thread whose first dispatch has called no handler yet.
Fresh(m, t) ==
  /\ Len(frames[t]) = 1
  /\ frames[t][1].next = 1 /\ frames[t][1].running = NoHandler
  /\ frames[t][1].event = IF t = m THEN "INIT" ELSE "THREADINIT"
  /\ contexts[t] = 0 /\ tls[t] = 0 /\ call[t] = NoCall
  /\ t = m => key = 0

ThreadOK(m, t) ==
  /\ pc[t] \in New => Unused(t)
  /\ pc[t] \in Before => t = m /\ key = 0
  /\ pc[t] = "initializing" => Fresh(m, t) \/ Settled(t)
  /\ pc[t] = "app" => Settled(t)
  /\ pc[t] = "dead" => frames[t] = <<>> /\ call[t] = NoCall /\ contexts[t] = 0
  /\ t = m => pc[t] \notin {"unborn", "foreign", "started", "dead"}
  /\ t # m /\ key # 1 => pc[t] \in {"unborn", "foreign"}

ErrFirst(s) == \A i \in 1 .. Len(s) : s[i] = "err" <=> i = 1
HandlersOK(m) ==
  /\ pc[m] \in Setup \cup {"registerErr"} => handlers = <<>>
  /\ pc[m] \notin Setup \cup {"registerErr"} => handlers # <<>>
  /\ ErrFirst(handlers)
  /\ pc[m] = "main" => initialized = 0
  /\ pc[m] = "cas" => orig[m] = 0

ContextInv(m) == RunInv(m) /\ HandlersOK(m) /\ \A t \in Thread : ThreadOK(m, t)

\* What happens to Past when a dispatch begins, goes on or ends.
LEMMA PastFacts ==
  ASSUME NEW s \in Seq(Frame), Past(s)
  PROVE  /\ \A f \in Frame : Later(f) => Past(Append(s, f))
         /\ s # <<>> =>
              /\ Later(s[Len(s)])
              /\ Past(Popped(s))
              /\ \A f \in Frame : Later(f) => Past(WithTop(s, f))
         /\ \A h \in Handler : Past(Removed(s, h))
<1>1. \A r \in Seq(Frame), f \in Frame : Past(r) /\ Later(f) => Past(Append(r, f))
  BY DEF Past
<1>2. ASSUME s # <<>>
      PROVE  Later(s[Len(s)]) /\ Past(Popped(s)) /\ Popped(s) \in Seq(Frame)
  <2> DEFINE n == Len(s) - 1
  <2>0. Len(s) \in Nat /\ Len(s) # 0
    BY <1>2, FrameFacts
  <2>1. /\ n \in Nat /\ n + 1 = Len(s)
        /\ \A i \in 1 .. n : s[i] \in Frame /\ Later(s[i])
    <3>1. \A i \in 1 .. Len(s) : s[i] \in Frame /\ Later(s[i])
      BY DEF Past
    <3> QED
      BY <2>0, <3>1
  <2>2. Later(s[Len(s)])
    BY <2>1 DEF Past
  <2> HIDE DEF n
  <2>3. /\ SubSeq(s, 1, n) \in Seq(Frame)
        /\ Len(SubSeq(s, 1, n)) = IF 1 <= n THEN n - 1 + 1 ELSE 0
        /\ \A i \in 1 .. n - 1 + 1 : SubSeq(s, 1, n)[i] = s[1 + i - 1]
    BY <2>1, SubSeqProperties
  <2>4. Len(SubSeq(s, 1, n)) = n
    BY <2>1, <2>3
  <2>5. \A i \in 1 .. n : SubSeq(s, 1, n)[i] = s[i]
    <3> TAKE i \in 1 .. n
    <3>1. i \in 1 .. n - 1 + 1 /\ 1 + i - 1 = i
      BY <2>1
    <3>2. SubSeq(s, 1, n)[i] = s[1 + i - 1]
      BY <2>3, <3>1
    <3> QED
      BY <3>1, <3>2
  <2>6. Popped(s) = SubSeq(s, 1, n)
    BY DEF Popped, n
  <2> QED
    BY <2>1, <2>2, <2>3, <2>4, <2>5, <2>6 DEF Past
<1>3. ASSUME s # <<>>, NEW f \in Frame, Later(f)
      PROVE  Past(WithTop(s, f))
  BY <1>1, <1>2, <1>3 DEF WithTop
<1>4. ASSUME NEW h \in Handler
      PROVE  Past(Removed(s, h))
  <2>1. Len(s) \in Nat /\ Len(Removed(s, h)) = Len(s)
    BY FrameFacts
  <2>2. \A i \in 1 .. Len(s) : Removed(s, h)[i] = Unregistered(s[i], h)
    BY DEF Removed
  <2>3. \A f : /\ Unregistered(f, h).event = f.event
               /\ Unregistered(f, h).next = f.next
    BY DEF Unregistered
  <2>4. \A i \in 1 .. Len(s) : Later(s[i]) => Later(Removed(s, h)[i])
    BY <2>2, <2>3 DEF Later
  <2> QED
    BY <2>1, <2>4 DEF Past
<1> QED
  BY <1>1, <1>2, <1>3, <1>4

\* A handler that is registered is found.
LEMMA FirstIndexFound ==
  ASSUME handlers \in Seq(Handler), NEW h \in Members(handlers)
  PROVE  FirstIndex(h) \in 1 .. Len(handlers) /\ handlers[FirstIndex(h)] = h
<1> DEFINE n == Len(handlers)  S == {i \in 1 .. n : handlers[i] = h}
<1>1. n \in Nat /\ S # {} /\ S \in SUBSET Nat
  BY DEF Members
<1>2. \E i \in S : \A j \in S : i <= j
  <2> HIDE DEF S
  <2> QED
    BY <1>1, Least
<1>3. \E i \in 1 .. n : handlers[i] = h /\ \A j \in 1 .. i - 1 : handlers[j] # h
  BY <1>1, <1>2
<1> QED
  BY <1>3 DEF FirstIndex

\* Registering a handler of the application, or removing one, leaves
\* ipcl_err_handler where it is.
LEMMA RegisteredFirst ==
  ASSUME handlers \in Seq(Handler), handlers # <<>>, ErrFirst(handlers),
         NEW h \in UserHandler
  PROVE  /\ Append(handlers, h) # <<>> /\ ErrFirst(Append(handlers, h))
         /\ h \in Members(handlers) =>
              Without(FirstIndex(h)) # <<>> /\ ErrFirst(Without(FirstIndex(h)))
<1> DEFINE n == Len(handlers)
<1>1. n \in Nat /\ n > 0 /\ h # "err" /\ h \in Handler
  BY RuntimeAssumption DEF Handler
<1>2. Append(handlers, h) # <<>> /\ ErrFirst(Append(handlers, h))
  BY <1>1 DEF ErrFirst
<1>3. ASSUME h \in Members(handlers)
      PROVE  Without(FirstIndex(h)) # <<>> /\ ErrFirst(Without(FirstIndex(h)))
  <2> DEFINE k == FirstIndex(h)
  <2>4. k \in 1 .. n /\ handlers[k] = h
    BY <1>3, FirstIndexFound
  <2>5. k > 1
    BY <1>1, <2>4 DEF ErrFirst
  <2> HIDE DEF k
  <2>6. n - 1 \in Nat /\ n - 1 > 0
    BY <1>1, <2>4, <2>5
  <2>7. \A j \in 1 .. n - 1 :
          Without(k)[j] = IF j < k THEN handlers[j] ELSE handlers[j + 1]
    BY DEF Without
  <2>8. Without(k) \in Seq(Handler) /\ Len(Without(k)) = n - 1
    <3>1. \A j \in 1 .. n - 1 : handlers[j] \in Handler /\ handlers[j + 1] \in Handler
      BY <1>1
    <3>2. Without(k) \in [1 .. n - 1 -> Handler]
      BY <3>1 DEF Without
    <3> QED
      BY <2>6, <3>2
  <2>9. \A j \in 1 .. n - 1 : Without(k)[j] = "err" <=> j = 1
    <3> TAKE j \in 1 .. n - 1
    <3>1. j \in 1 .. n /\ j + 1 \in 1 .. n /\ j \in Nat
      BY <1>1, <2>6
    <3>2. (handlers[j] = "err" <=> j = 1) /\ handlers[j + 1] # "err"
      BY <3>1 DEF ErrFirst
    <3> QED
      BY <2>4, <2>5, <2>7, <3>1, <3>2
  <2>10. Without(k) # <<>>
    BY <2>6, <2>8
  <2> QED
    BY <2>8, <2>9, <2>10 DEF ErrFirst, k
<1> QED
  BY <1>2, <1>3

LEMMA InitContextInv ==
  ASSUME NEW m \in Thread, Callers = {m}, Init
  PROVE  ContextInv(m)
<1>1. RunInv(m)
  BY InitRunInv
<1>2. HandlersOK(m)
  <2>1. Len(<<>>) = 0
    OBVIOUS
  <2> QED
    BY <2>1 DEF Init, HandlersOK, ErrFirst, Setup
<1>3. \A t \in Thread : ThreadOK(m, t)
  BY RuntimeAssumption DEF Init, ThreadOK, New, Before, Setup, Unused
<1> QED
  BY <1>1, <1>2, <1>3 DEF ContextInv

\* A step that changes nothing of a thread keeps what is known of it; only
\* the first thread makes a key, and only the first time.
LEMMA Untouched ==
  ASSUME NEW m \in Thread, NEW u \in Thread, ThreadOK(m, u),
         pc'[u] = pc[u], frames'[u] = frames[u], call'[u] = call[u],
         contexts'[u] = contexts[u], tls'[u] = tls[u],
         key' = key \/ (u # m /\ key = 0)
  PROVE  ThreadOK(m, u)'
<1>1. CASE key' = key
  BY <1>1 DEF ThreadOK, New, Before, Setup, Unused, Fresh, Settled
<1>2. CASE u # m /\ key = 0
  BY <1>2 DEF ThreadOK, New, Before, Setup, Unused
<1> QED
  BY <1>1, <1>2

\* A thread that runs has its context or is about to make it.
LEMMA Live ==
  ASSUME NEW m \in Thread, ContextInv(m), NEW t \in Thread,
         frames[t] # <<>> \/ call[t] # NoCall \/ pc[t] = "app"
  PROVE  /\ \/ pc[t] = "initializing" /\ Fresh(m, t)
            \/ pc[t] \in {"initializing", "app"} /\ Settled(t)
         /\ t # m => key = 1
         /\ pc[m] \notin Before
         /\ handlers # <<>> /\ ErrFirst(handlers)
<1>1. pc[t] \in Location /\ ThreadOK(m, t) /\ ThreadOK(m, m) /\ HandlersOK(m)
  BY DEF ContextInv, RunInv, TypeOK
<1>2. pc[t] \notin New /\ pc[t] # "dead"
  BY <1>1 DEF ThreadOK, Unused, New, Before, Setup
<1>3. pc[t] \in {"initializing", "app"}
  BY <1>1, <1>2 DEF Location, New, Before, Setup
<1>4. /\ \/ pc[t] = "initializing" /\ Fresh(m, t)
         \/ pc[t] \in {"initializing", "app"} /\ Settled(t)
      /\ t # m => key = 1
  BY <1>1, <1>3 DEF ThreadOK
<1>5. pc[m] \notin Before
  BY <1>1, <1>3, <1>4 DEF ThreadOK, Before, Setup
<1> QED
  BY <1>1, <1>4, <1>5 DEF HandlersOK, Before

\* pcl_init up to its dispatch.
LEMMA PclInitContext ==
  ASSUME NEW m \in Thread, Callers = {m}, ContextInv(m), NEW t \in Thread,
         \/ InitRead(t) \/ InitExchange(t) \/ EventInit(t)
         \/ RegisterBuiltin(t, "err", "registerErr", "registerTime")
         \/ RegisterBuiltin(t, "time", "registerTime", "dispatch")
  PROVE  HandlersOK(m)' /\ \A u \in Thread : ThreadOK(m, u)'
<1>1. /\ pc \in [Thread -> Location] /\ orig \in [Thread -> {0, 1}]
      /\ handlers \in Seq(Handler) /\ HandlersOK(m)
      /\ \A u \in Thread : ThreadOK(m, u)
  BY DEF ContextInv, RunInv, TypeOK
<1>2. pc[t] \in Before
  BY DEF InitRead, InitExchange, EventInit, RegisterBuiltin, Go, Before, Setup
<1>3. t = m /\ Unused(m) /\ key = 0
  BY <1>1, <1>2 DEF ThreadOK, New
<1>4. UNCHANGED <<frames, key, tls, contexts, call>>
  BY DEF InitRead, InitExchange, EventInit, RegisterBuiltin
<1>5. \A u \in Thread \ {m} : pc'[u] = pc[u]
  BY <1>1, <1>3 DEF InitRead, InitExchange, EventInit, RegisterBuiltin, Go
<1>6. ASSUME NEW u \in Thread \ {m}
      PROVE  ThreadOK(m, u)'
  <2>1. /\ u \in Thread /\ ThreadOK(m, u) /\ pc'[u] = pc[u] /\ key' = key
        /\ frames'[u] = frames[u] /\ call'[u] = call[u]
        /\ contexts'[u] = contexts[u] /\ tls'[u] = tls[u]
    BY <1>1, <1>4, <1>5
  <2> QED
    BY <2>1, Untouched DEF ThreadOK, Fresh, Settled, Unused
<1>7. pc'[m] \in Before /\ HandlersOK(m)'
  <2>1. CASE InitRead(m)
    BY <1>1, <2>1 DEF InitRead, Go, Before, Setup, HandlersOK, ErrFirst
  <2>2. CASE InitExchange(m)
    BY <1>1, <2>2 DEF InitExchange, Go, Before, Setup, HandlersOK, ErrFirst
  <2>3. CASE EventInit(m)
    <3>1. Len(<<>>) = 0
      OBVIOUS
    <3> QED
      BY <1>1, <2>3, <3>1 DEF EventInit, Go, Before, Setup, HandlersOK, ErrFirst
  <2>4. CASE RegisterBuiltin(m, "err", "registerErr", "registerTime")
    <3>1. handlers = <<>> /\ handlers' = <<"err">>
      BY <1>1, <2>4 DEF RegisterBuiltin, Go, HandlersOK
    <3>2. handlers' # <<>> /\ ErrFirst(handlers')
      BY <3>1 DEF ErrFirst
    <3>3. pc'[m] = "registerTime"
      BY <1>1, <2>4 DEF RegisterBuiltin, Go
    <3> QED
      BY <3>2, <3>3 DEF Before, Setup, HandlersOK
  <2>5. CASE RegisterBuiltin(m, "time", "registerTime", "dispatch")
    <3>1. /\ handlers # <<>> /\ ErrFirst(handlers) /\ pc'[m] = "dispatch"
          /\ handlers' = Append(handlers, "time")
      BY <1>1, <2>5 DEF RegisterBuiltin, Go, HandlersOK, Setup
    <3>2. handlers' # <<>> /\ ErrFirst(handlers')
      BY <1>1, <3>1 DEF ErrFirst, Handler
    <3> QED
      BY <3>1, <3>2 DEF Before, Setup, HandlersOK
  <2> QED
    BY <1>3, <2>1, <2>2, <2>3, <2>4, <2>5
<1>8. ThreadOK(m, m)'
  <2>1. Unused(m)' /\ key' = 0
    BY <1>3, <1>4 DEF Unused
  <2> QED
    BY <1>7, <2>1 DEF ThreadOK, Before, Setup
<1> QED
  BY <1>6, <1>7, <1>8

\* A thread's first dispatch begins.
LEMMA FirstDispatchContext ==
  ASSUME NEW m \in Thread, Callers = {m}, ContextInv(m), NEW t \in Thread,
         \/ FirstDispatch(t, "dispatch", "INIT")
         \/ FirstDispatch(t, "started", "THREADINIT")
         \/ FirstDispatch(t, "foreign", "THREADINIT")
  PROVE  HandlersOK(m)' /\ \A u \in Thread : ThreadOK(m, u)'
<1>1. /\ pc \in [Thread -> Location] /\ frames \in [Thread -> Seq(Frame)]
      /\ HandlersOK(m) /\ \A u \in Thread : ThreadOK(m, u)
  BY DEF ContextInv, RunInv, TypeOK
<1>2. /\ UNCHANGED <<initialized, orig, handlers, key, tls, contexts, call>>
      /\ pc[t] \in {"dispatch", "started", "foreign"}
      /\ pc' = [pc EXCEPT ![t] = "initializing"]
  BY DEF FirstDispatch, Go
<1>3. Unused(t) /\ (t = m <=> pc[t] = "dispatch") /\ (t = m => key = 0)
  BY <1>1, <1>2 DEF ThreadOK, New, Before, Setup
<1>4. PICK e \in Event :
        /\ frames' = [frames EXCEPT ![t] = Append(@, NewFrame(e))]
        /\ e = IF t = m THEN "INIT" ELSE "THREADINIT"
  BY <1>2, <1>3 DEF FirstDispatch, Go, BeginDispatch, Event
<1>5. frames'[t] = <<NewFrame(e)>>
  BY <1>1, <1>3, <1>4 DEF Unused
<1>6. Fresh(m, t)'
  BY <1>2, <1>3, <1>4, <1>5 DEF Fresh, NewFrame, Unused
<1>7. t # m => key = 1
  <2>1. CASE pc[t] = "started"
    BY <1>1, <2>1 DEF ThreadOK
  <2>2. CASE pc[t] = "foreign"
    <3>1. pc[m] = "app"
      BY <2>2, <1>2 DEF FirstDispatch, Go
    <3> QED
      BY <1>1, <3>1 DEF ThreadOK, Settled
  <2> QED
    BY <1>2, <1>3, <2>1, <2>2
<1>8. ThreadOK(m, t)'
  <2>1. pc'[t] = "initializing"
    BY <1>1, <1>2
  <2> QED
    BY <1>2, <1>6, <1>7, <2>1 DEF ThreadOK, New, Before, Setup
<1>9. ASSUME NEW u \in Thread \ {t}
      PROVE  ThreadOK(m, u)'
  <2>1. /\ u \in Thread /\ ThreadOK(m, u) /\ pc'[u] = pc[u] /\ key' = key
        /\ frames'[u] = frames[u] /\ call'[u] = call[u]
        /\ contexts'[u] = contexts[u] /\ tls'[u] = tls[u]
    BY <1>1, <1>2, <1>4
  <2> QED
    BY <2>1, Untouched DEF ThreadOK, Fresh, Settled, Unused
<1>10. HandlersOK(m)'
  <2>1. pc'[m] \in {pc[m], "initializing"}
    BY <1>1, <1>2
  <2>2. t = m => handlers # <<>>
    BY <1>1, <1>2, <1>3 DEF HandlersOK, Setup
  <2>3. pc'[m] = pc[m] \/ t = m
    BY <1>1, <1>2
  <2> QED
    BY <1>1, <1>2, <2>1, <2>2, <2>3 DEF HandlersOK, Setup, ErrFirst
<1> QED
  BY <1>8, <1>9, <1>10

\* ipcl_err_handler gives a thread its context in the thread's first dispatch
\* and in no other.
LEMMA CallBuiltinContext ==
  ASSUME NEW m \in Thread, ContextInv(m), NEW t \in Thread, CallBuiltin(t)
  PROVE  /\ (pc[t] \in {"initializing", "app"} /\ Settled(t)')
         /\ call' = call /\ pc' = pc /\ handlers' = handlers
         /\ UNCHANGED <<initialized, orig>>
         /\ t # m => key = 1
         /\ key' = key \/ (t = m /\ key = 0)
         /\ \A u \in Thread \ {t} : /\ frames'[u] = frames[u] /\ tls'[u] = tls[u]
                                    /\ contexts'[u] = contexts[u]
<1>1. /\ frames \in [Thread -> Seq(Frame)] /\ frames[t] \in Seq(Frame)
      /\ handlers \in Seq(Handler) /\ key \in Nat
      /\ tls \in [Thread -> Nat] /\ contexts \in [Thread -> Nat]
  BY DEF ContextInv, RunInv, TypeOK
<1>2. frames[t] # <<>> /\ Top(t) = frames[t][Len(frames[t])] /\ Top(t) \in Frame
  BY <1>1, FrameFacts DEF CallBuiltin, Looping, Top
<1> DEFINE f == NextCalled(Top(t))
           e == Top(t).event
           err == handlers[Top(t).next] = "err"
<1>3. /\ frames' = [frames EXCEPT ![t] = WithTop(@, f)]
      /\ key' = IF err /\ e = "INIT" THEN key + 1 ELSE key
      /\ tls' = IF err /\ MakesContext(e) THEN [tls EXCEPT ![t] = key'] ELSE tls
      /\ contexts' = IF err /\ MakesContext(e)
                     THEN [contexts EXCEPT ![t] = @ + 1] ELSE contexts
      /\ UNCHANGED <<initialized, orig, pc, handlers, call>>
      /\ Top(t).next \in 1 .. Len(handlers)
  BY <1>2 DEF CallBuiltin, Frame
<1>4. /\ \/ pc[t] = "initializing" /\ Fresh(m, t)
         \/ pc[t] \in {"initializing", "app"} /\ Settled(t)
      /\ t # m => key = 1
      /\ handlers # <<>> /\ ErrFirst(handlers)
  BY <1>2, Live
<1>5. f \in Frame /\ f.event = e /\ f.next = Top(t).next + 1 /\ Later(f)
  <2>1. Top(t).called \cup {handlers[Top(t).next]} \subseteq Handler
    BY <1>1, <1>2, <1>3 DEF Frame
  <2>2. f \in Frame /\ f.event = e /\ f.next = Top(t).next + 1
    BY <1>2, <2>1 DEF Frame, NextCalled
  <2> QED
    BY <1>2, <2>2 DEF Later, Frame
<1>6. \A u \in Thread \ {t} : /\ frames'[u] = frames[u] /\ tls'[u] = tls[u]
                              /\ contexts'[u] = contexts[u]
  BY <1>1, <1>3
<1>7. err <=> Top(t).next = 1
  BY <1>3, <1>4 DEF ErrFirst
<1>8. frames'[t] = WithTop(frames[t], f)
  BY <1>1, <1>3
<1> HIDE DEF f
<1>9. CASE Fresh(m, t) /\ pc[t] = "initializing"
  <2>1. /\ Top(t) = frames[t][1] /\ err
        /\ e = IF t = m THEN "INIT" ELSE "THREADINIT"
        /\ contexts[t] = 0 /\ (t = m => key = 0)
    BY <1>2, <1>7, <1>9 DEF Fresh
  <2>2. Len(frames[t]) = 1
    BY <1>9 DEF Fresh
  <2>3. key' = 1 /\ (key' = key \/ (t = m /\ key = 0))
    BY <1>3, <1>4, <2>1
  <2>4. tls'[t] = 1 /\ contexts'[t] = 1
    BY <1>1, <1>3, <2>1, <2>3 DEF MakesContext
  <2>5. Past(frames'[t])
    <3>1. Popped(frames[t]) = <<>>
      <4>1. /\ Popped(frames[t]) \in Seq(Frame)
            /\ Len(Popped(frames[t])) = Len(frames[t]) - 1
        BY <1>1, <1>2, FrameFacts
      <4> QED
        BY <2>2, <4>1, FrameFacts
    <3>2. frames'[t] = <<f>>
      BY <1>8, <3>1 DEF WithTop
    <3> QED
      BY <1>5, <3>2 DEF Past
  <2> QED
    BY <1>3, <1>4, <1>6, <1>9, <2>3, <2>4, <2>5 DEF Settled
<1>10. CASE Settled(t) /\ pc[t] \in {"initializing", "app"}
  <2>1. Past(frames'[t]) /\ Later(Top(t))
    BY <1>1, <1>2, <1>5, <1>8, <1>10, PastFacts DEF Settled
  <2>2. err => e = "USER"
    BY <1>7, <2>1 DEF Later
  <2>3. key' = key /\ tls' = tls /\ contexts' = contexts
    BY <1>3, <2>2 DEF MakesContext
  <2> QED
    BY <1>3, <1>4, <1>6, <1>10, <2>1, <2>3 DEF Settled
<1> QED
  BY <1>4, <1>9, <1>10

\* A handler of the application is called or returns: only in a thread that
\* has its context.
LEMMA UserHandlerContext ==
  ASSUME NEW m \in Thread, ContextInv(m), NEW t \in Thread,
         CallUser(t) \/ HandlerReturns(t)
  PROVE  /\ pc[t] \in {"initializing", "app"} /\ Settled(t)'
         /\ UNCHANGED <<initialized, orig, pc, handlers, key, tls, contexts, call>>
         /\ t # m => key = 1
         /\ \A u \in Thread \ {t} : frames'[u] = frames[u]
<1>1. /\ frames \in [Thread -> Seq(Frame)] /\ frames[t] \in Seq(Frame)
      /\ handlers \in Seq(Handler)
  BY DEF ContextInv, RunInv, TypeOK
<1>2. /\ frames[t] # <<>> /\ Top(t) = frames[t][Len(frames[t])]
      /\ Top(t) \in Frame
      /\ UNCHANGED <<initialized, orig, pc, handlers, key, tls, contexts, call>>
  BY <1>1, FrameFacts DEF CallUser, HandlerReturns, Looping, Top
<1>3. /\ \/ pc[t] = "initializing" /\ Fresh(m, t)
         \/ pc[t] \in {"initializing", "app"} /\ Settled(t)
      /\ t # m => key = 1
      /\ handlers # <<>> /\ ErrFirst(handlers)
  BY <1>2, Live
<1>4. ~Fresh(m, t)
  <2> SUFFICES ASSUME Fresh(m, t) PROVE FALSE
    OBVIOUS
  <2>1. Top(t).next = 1 /\ Top(t).running = NoHandler
    BY <1>2 DEF Fresh
  <2>2. handlers[1] = "err"
    BY <1>1, <1>3 DEF ErrFirst
  <2> QED
    BY <2>1, <2>2, RuntimeAssumption DEF CallUser, HandlerReturns
<1>5. Settled(t) /\ Later(Top(t))
  BY <1>1, <1>2, <1>3, <1>4, PastFacts DEF Settled
<1>6. PICK f \in Frame : Later(f) /\ frames' = [frames EXCEPT ![t] = WithTop(@, f)]
  <2>1. CASE CallUser(t)
    <3> DEFINE f == Calling(Top(t), handlers[Top(t).next])
    <3>1. /\ handlers[Top(t).next] \in Handler
          /\ frames' = [frames EXCEPT ![t] = WithTop(@, f)]
      BY <2>1 DEF CallUser, Handler
    <3>2. f \in Frame /\ f.event = Top(t).event /\ f.next = Top(t).next
      BY <1>2, <3>1 DEF Calling, Frame
    <3> QED
      BY <1>5, <3>1, <3>2 DEF Later
  <2>2. CASE HandlerReturns(t)
    <3> DEFINE f == Returned(Top(t))
    <3>1. f \in Frame /\ f.event = Top(t).event /\ f.next > 1
      BY <1>2 DEF Returned, Frame
    <3> QED
      BY <2>2, <3>1 DEF HandlerReturns, Later
  <2> QED
    BY <2>1, <2>2
<1>7. frames'[t] = WithTop(frames[t], f) /\ \A u \in Thread \ {t} : frames'[u] = frames[u]
  BY <1>1, <1>6
<1>8. Past(frames'[t])
  BY <1>1, <1>2, <1>5, <1>6, <1>7, PastFacts DEF Settled
<1> QED
  BY <1>2, <1>3, <1>4, <1>5, <1>7, <1>8 DEF Settled

\* A dispatch ends: the first one not before the thread has its context.
LEMMA EndDispatchContext ==
  ASSUME NEW m \in Thread, ContextInv(m), NEW t \in Thread, EndDispatch(t)
  PROVE  /\ pc'[t] = "app" /\ Settled(t)' /\ (t # m => key = 1)
         /\ UNCHANGED <<initialized, orig, handlers, key, tls, contexts, call>>
         /\ \A u \in Thread \ {t} : pc'[u] = pc[u] /\ frames'[u] = frames[u]
         /\ handlers # <<>> /\ pc[m] \notin Before
<1>1. /\ frames \in [Thread -> Seq(Frame)] /\ frames[t] \in Seq(Frame)
      /\ handlers \in Seq(Handler) /\ pc \in [Thread -> Location]
  BY DEF ContextInv, RunInv, TypeOK
<1>2. /\ frames[t] # <<>> /\ Top(t) = frames[t][Len(frames[t])]
      /\ frames' = [frames EXCEPT ![t] = Popped(@)]
      /\ pc' = [pc EXCEPT ![t] = IF @ = "initializing" THEN "app" ELSE @]
      /\ UNCHANGED <<initialized, orig, handlers, key, tls, contexts, call>>
      /\ Top(t).next > Len(handlers)
  BY DEF EndDispatch, Looping, Top, LoopDone
<1>3. /\ \/ pc[t] = "initializing" /\ Fresh(m, t)
         \/ pc[t] \in {"initializing", "app"} /\ Settled(t)
      /\ t # m => key = 1
      /\ handlers # <<>> /\ pc[m] \notin Before
  BY <1>2, Live
<1>4. ~Fresh(m, t)
  <2>1. Len(handlers) \in Nat /\ Len(handlers) # 0
    BY <1>1, <1>3
  <2>2. Fresh(m, t) => Top(t).next = 1
    BY <1>2 DEF Fresh
  <2> QED
    BY <1>2, <2>1, <2>2
<1>5. frames'[t] = Popped(frames[t])
      /\ \A u \in Thread \ {t} : pc'[u] = pc[u] /\ frames'[u] = frames[u]
  BY <1>1, <1>2
<1>6. Past(frames'[t])
  BY <1>1, <1>2, <1>3, <1>4, <1>5, PastFacts DEF Settled
<1> QED
  BY <1>1, <1>2, <1>3, <1>4, <1>5, <1>6 DEF Settled

\* A pending call is carried out.
LEMMA ServeContext ==
  ASSUME NEW m \in Thread, ContextInv(m), NEW t \in Thread,
         EventRegister(t) \/ EventUnregister(t) \/ EventDispatch(t)
  PROVE  /\ pc[t] \in {"initializing", "app"} /\ Settled(t)' /\ (t # m => key = 1)
         /\ UNCHANGED <<initialized, orig, pc, key, tls, contexts>>
         /\ \A u \in Thread \ {t} : frames'[u] = frames[u] /\ call'[u] = call[u]
         /\ handlers' # <<>> /\ ErrFirst(handlers') /\ pc[m] \notin Before
<1>1. /\ frames \in [Thread -> Seq(Frame)] /\ frames[t] \in Seq(Frame)
      /\ handlers \in Seq(Handler) /\ call \in [Thread -> Call]
  BY DEF ContextInv, RunInv, TypeOK
<1>2. /\ call[t] # NoCall /\ call' = [call EXCEPT ![t] = NoCall]
      /\ UNCHANGED <<initialized, orig, pc, key, tls, contexts>>
  BY DEF EventRegister, EventUnregister, EventDispatch, Serve, NoCall
<1>3. /\ pc[t] \in {"initializing", "app"} /\ Settled(t) /\ (t # m => key = 1)
      /\ handlers # <<>> /\ ErrFirst(handlers) /\ pc[m] \notin Before
  BY <1>2, Live DEF Fresh
<1>4. /\ handlers' # <<>> /\ ErrFirst(handlers') /\ Past(frames'[t])
      /\ \A u \in Thread \ {t} : frames'[u] = frames[u]
  <2>1. CASE EventRegister(t)
    <3>1. /\ call[t].handler \in UserHandler /\ frames' = frames
          /\ handlers' = Append(handlers, call[t].handler)
      BY <1>1, <2>1 DEF EventRegister, Serve, Call, NoCall
    <3> QED
      BY <1>1, <1>3, <3>1, RegisteredFirst DEF Settled
  <2>2. CASE EventUnregister(t)
    <3> DEFINE h == call[t].handler
    <3>1. h \in UserHandler
      <4>1. call[t].name = "unregister" /\ call[t] \in Call
        BY <1>1, <2>2 DEF EventUnregister, Serve
      <4> QED
        BY <4>1 DEF Call, NoCall
    <3>2. CASE h \in Members(handlers)
      <4>1. /\ handlers' = Without(FirstIndex(h))
            /\ frames' = [frames EXCEPT ![t] = Removed(@, h)]
        BY <2>2, <3>2 DEF EventUnregister
      <4> HIDE DEF h
      <4>2. handlers' # <<>> /\ ErrFirst(handlers')
        BY <1>1, <1>3, <3>1, <3>2, <4>1, RegisteredFirst
      <4>3. h \in Handler
        BY <3>1 DEF Handler
      <4>4. /\ frames'[t] = Removed(frames[t], h)
            /\ \A u \in Thread \ {t} : frames'[u] = frames[u]
        BY <1>1, <4>1
      <4>5. Past(frames'[t])
        BY <1>1, <1>3, <4>3, <4>4, PastFacts DEF Settled
      <4> QED
        BY <4>2, <4>4, <4>5
    <3>3. CASE h \notin Members(handlers)
      BY <1>3, <2>2, <3>3 DEF EventUnregister, Settled
    <3> QED
      BY <3>2, <3>3
  <2>3. CASE EventDispatch(t)
    <3> DEFINE f == NewFrame("USER")
    <3>1. frames' = [frames EXCEPT ![t] = Append(@, f)] /\ handlers' = handlers
      BY <2>3 DEF EventDispatch, BeginDispatch
    <3>2. f \in Frame /\ Later(f)
      <4>1. Members(handlers) \subseteq Handler
        BY <1>1 DEF Members
      <4> QED
        BY <4>1 DEF NewFrame, Frame, Event, Later
    <3> HIDE DEF f
    <3>3. /\ frames'[t] = Append(frames[t], f)
          /\ \A u \in Thread \ {t} : frames'[u] = frames[u]
      BY <1>1, <3>1
    <3> QED
      BY <1>1, <1>3, <3>1, <3>2, <3>3, PastFacts DEF Settled
  <2> QED
    BY <2>1, <2>2, <2>3
<1>5. \A u \in Thread \ {t} : call'[u] = call[u]
  BY <1>1, <1>2
<1> QED
  BY <1>2, <1>3, <1>4, <1>5 DEF Settled

\* A thread that has its context stays as the invariant says, and so do all
\* the threads a step leaves alone.
LEMMA StaysSettled ==
  ASSUME NEW m \in Thread, ContextInv(m), NEW t \in Thread,
         pc'[t] \in {"initializing", "app"}, Settled(t)',
         pc[t] \in {"initializing", "app"},
         key' = key \/ (t = m /\ key = 0),
         \A u \in Thread \ {t} :
           /\ pc'[u] = pc[u] /\ frames'[u] = frames[u] /\ call'[u] = call[u]
           /\ contexts'[u] = contexts[u] /\ tls'[u] = tls[u]
  PROVE  \A u \in Thread : ThreadOK(m, u)'
<1>1. \A u \in Thread : ThreadOK(m, u)
  BY DEF ContextInv
<1>2. ThreadOK(m, t)'
  BY DEF ThreadOK, New, Before, Setup, Settled
<1>3. ASSUME NEW u \in Thread \ {t}
      PROVE  ThreadOK(m, u)'
  <2>1. /\ u \in Thread /\ ThreadOK(m, u) /\ pc'[u] = pc[u]
        /\ frames'[u] = frames[u] /\ call'[u] = call[u]
        /\ contexts'[u] = contexts[u] /\ tls'[u] = tls[u]
        /\ key' = key \/ (u # m /\ key = 0)
    BY <1>1, <1>3
  <2> QED
    BY <2>1, Untouched DEF ThreadOK, Fresh, Settled, Unused
<1> QED
  BY <1>2, <1>3

\* Every step of the events keeps the invariant.
LEMMA EventContext ==
  ASSUME NEW m \in Thread, ContextInv(m), NEW t \in Thread, EventStep(t)
  PROVE  HandlersOK(m)' /\ \A u \in Thread : ThreadOK(m, u)'
<1>1. pc \in [Thread -> Location] /\ HandlersOK(m)
  BY DEF ContextInv, RunInv, TypeOK
<1>2. CASE EventRegister(t) \/ EventUnregister(t) \/ EventDispatch(t)
  <2>1. /\ pc[t] \in {"initializing", "app"} /\ Settled(t)'
        /\ UNCHANGED <<initialized, orig, pc, key, tls, contexts>>
        /\ \A u \in Thread \ {t} : frames'[u] = frames[u] /\ call'[u] = call[u]
        /\ handlers' # <<>> /\ ErrFirst(handlers') /\ pc[m] \notin Before
    BY <1>2, ServeContext
  <2>2. HandlersOK(m)'
    BY <2>1 DEF HandlersOK, Before, Setup
  <2>3. \A u \in Thread : ThreadOK(m, u)'
    <3>1. Settled(t)'
      BY <2>1
    <3>2. /\ pc'[t] \in {"initializing", "app"}
          /\ pc[t] \in {"initializing", "app"}
          /\ key' = key \/ (t = m /\ key = 0)
      BY <2>1
    <3>3. \A u \in Thread \ {t} :
            /\ pc'[u] = pc[u] /\ frames'[u] = frames[u] /\ call'[u] = call[u]
            /\ contexts'[u] = contexts[u] /\ tls'[u] = tls[u]
      BY <2>1
    <3> QED
      BY <3>1, <3>2, <3>3, StaysSettled DEF ThreadOK, Fresh, Settled, Unused
  <2> QED
    BY <2>2, <2>3
<1>3. CASE CallBuiltin(t)
  <2>1. /\ pc[t] \in {"initializing", "app"} /\ Settled(t)'
        /\ UNCHANGED <<initialized, orig, pc, handlers, call>>
        /\ key' = key \/ (t = m /\ key = 0)
        /\ \A u \in Thread \ {t} : /\ frames'[u] = frames[u] /\ tls'[u] = tls[u]
                                   /\ contexts'[u] = contexts[u]
    BY <1>3, CallBuiltinContext
  <2>2. HandlersOK(m)'
    BY <1>1, <2>1 DEF HandlersOK, ErrFirst, Setup
  <2>3. \A u \in Thread : ThreadOK(m, u)'
    <3>1. Settled(t)'
      BY <2>1
    <3>2. /\ pc'[t] \in {"initializing", "app"}
          /\ pc[t] \in {"initializing", "app"}
          /\ key' = key \/ (t = m /\ key = 0)
      BY <2>1
    <3>3. \A u \in Thread \ {t} :
            /\ pc'[u] = pc[u] /\ frames'[u] = frames[u] /\ call'[u] = call[u]
            /\ contexts'[u] = contexts[u] /\ tls'[u] = tls[u]
      BY <2>1
    <3> QED
      BY <3>1, <3>2, <3>3, StaysSettled DEF ThreadOK, Fresh, Settled, Unused
  <2> QED
    BY <2>2, <2>3
<1>4. CASE CallUser(t) \/ HandlerReturns(t)
  <2>1. /\ pc[t] \in {"initializing", "app"} /\ Settled(t)'
        /\ UNCHANGED <<initialized, orig, pc, handlers, key, tls, contexts, call>>
        /\ \A u \in Thread \ {t} : frames'[u] = frames[u]
    BY <1>4, UserHandlerContext
  <2>2. HandlersOK(m)'
    BY <1>1, <2>1 DEF HandlersOK, ErrFirst, Setup
  <2>3. \A u \in Thread : ThreadOK(m, u)'
    <3>1. Settled(t)'
      BY <2>1
    <3>2. /\ pc'[t] \in {"initializing", "app"}
          /\ pc[t] \in {"initializing", "app"}
          /\ key' = key \/ (t = m /\ key = 0)
      BY <2>1
    <3>3. \A u \in Thread \ {t} :
            /\ pc'[u] = pc[u] /\ frames'[u] = frames[u] /\ call'[u] = call[u]
            /\ contexts'[u] = contexts[u] /\ tls'[u] = tls[u]
      BY <2>1
    <3> QED
      BY <3>1, <3>2, <3>3, StaysSettled DEF ThreadOK, Fresh, Settled, Unused
  <2> QED
    BY <2>2, <2>3
<1>5. CASE EndDispatch(t)
  <2>1. /\ pc'[t] = "app" /\ Settled(t)'
        /\ UNCHANGED <<initialized, orig, handlers, key, tls, contexts, call>>
        /\ \A u \in Thread \ {t} : pc'[u] = pc[u] /\ frames'[u] = frames[u]
        /\ handlers # <<>> /\ pc[m] \notin Before
    BY <1>5, EndDispatchContext
  <2>2. pc[t] \in {"initializing", "app"}
    BY <1>5, Live DEF EndDispatch, Looping
  <2>3. pc'[m] \notin Before
    BY <2>1 DEF Before, Setup
  <2>4. HandlersOK(m)'
    BY <1>1, <2>1, <2>3 DEF HandlersOK, ErrFirst, Before, Setup
  <2>5. \A u \in Thread : ThreadOK(m, u)'
    <3>1. Settled(t)'
      BY <2>1, <2>2
    <3>2. /\ pc'[t] \in {"initializing", "app"}
          /\ pc[t] \in {"initializing", "app"}
          /\ key' = key \/ (t = m /\ key = 0)
      BY <2>1, <2>2
    <3>3. \A u \in Thread \ {t} :
            /\ pc'[u] = pc[u] /\ frames'[u] = frames[u] /\ call'[u] = call[u]
            /\ contexts'[u] = contexts[u] /\ tls'[u] = tls[u]
      BY <2>1, <2>2
    <3> QED
      BY <3>1, <3>2, <3>3, StaysSettled DEF ThreadOK, Fresh, Settled, Unused
  <2> QED
    BY <2>4, <2>5
<1> QED
  BY <1>2, <1>3, <1>4, <1>5 DEF EventStep

\* What the application does keeps it.
LEMMA ApplicationContext ==
  ASSUME NEW m \in Thread, Callers = {m}, ContextInv(m), NEW t \in Thread,
         Application(t)
  PROVE  HandlersOK(m)' /\ \A u \in Thread : ThreadOK(m, u)'
<1>1. /\ pc \in [Thread -> Location] /\ call \in [Thread -> Call]
      /\ contexts \in [Thread -> Nat] /\ tls \in [Thread -> Nat]
      /\ frames \in [Thread -> Seq(Frame)] /\ HandlersOK(m)
      /\ \A u \in Thread : ThreadOK(m, u)
  BY DEF ContextInv, RunInv, TypeOK
<1>2. ASSUME Free(t)
      PROVE  pc[t] \in {"initializing", "app"} /\ Settled(t) /\ (t # m => key = 1)
  <2>1. frames[t] # <<>> \/ pc[t] = "app"
    BY <1>2 DEF Free
  <2>2. /\ \/ pc[t] = "initializing" /\ Fresh(m, t)
           \/ pc[t] \in {"initializing", "app"} /\ Settled(t)
        /\ t # m => key = 1
    BY <2>1, Live
  <2>3. Fresh(m, t) => Top(t).running = NoHandler
    BY DEF Fresh, Top
  <2>4. Fresh(m, t) => frames[t] # <<>>
    <3>1. frames[t] \in Seq(Frame)
      BY <1>1
    <3>2. Len(frames[t]) = 1 => frames[t] # <<>>
      BY <3>1, FrameFacts
    <3> QED
      BY <3>2 DEF Fresh
  <2> QED
    BY <1>1, <1>2, <2>2, <2>3, <2>4, RuntimeAssumption DEF Free
<1>3. CASE \E c \in Call \ {NoCall} : Asks(t, c)
  <2>1. PICK c \in Call \ {NoCall} : Asks(t, c)
    BY <1>3
  <2>2. /\ call' = [call EXCEPT ![t] = c] /\ Free(t)
        /\ UNCHANGED <<initialized, orig, pc, handlers, frames, key, tls, contexts>>
    BY <2>1 DEF Asks
  <2>3. Settled(t)' /\ pc[t] \in {"initializing", "app"}
    BY <1>2, <2>2 DEF Settled
  <2>4. HandlersOK(m)'
    BY <1>1, <2>2 DEF HandlersOK, ErrFirst, Setup
  <2>5. \A u \in Thread \ {t} : call'[u] = call[u]
    BY <1>1, <2>2
  <2>6. \A u \in Thread : ThreadOK(m, u)'
    <3>1. Settled(t)'
      BY <2>2, <2>3, <2>5
    <3>2. /\ pc'[t] \in {"initializing", "app"}
          /\ pc[t] \in {"initializing", "app"}
          /\ key' = key \/ (t = m /\ key = 0)
      BY <2>2, <2>3, <2>5
    <3>3. \A u \in Thread \ {t} :
            /\ pc'[u] = pc[u] /\ frames'[u] = frames[u] /\ call'[u] = call[u]
            /\ contexts'[u] = contexts[u] /\ tls'[u] = tls[u]
      BY <2>2, <2>3, <2>5
    <3> QED
      BY <3>1, <3>2, <3>3, StaysSettled DEF ThreadOK, Fresh, Settled, Unused
  <2> QED
    BY <2>4, <2>6
<1>4. CASE \E u \in Thread : CreateThread(t, u)
  <2>1. PICK u \in Thread : CreateThread(t, u)
    BY <1>4
  <2>2. /\ Free(t) /\ pc[u] = "unborn" /\ pc' = [pc EXCEPT ![u] = "started"]
        /\ UNCHANGED <<initialized, orig, handlers, frames, key, tls, contexts, call>>
    BY <2>1 DEF CreateThread, Go
  <2>3. Settled(t)
    BY <1>2, <2>2
  <2>4. u # m /\ Unused(u)
    BY <1>1, <2>2 DEF ThreadOK, New
  <2>5. ThreadOK(m, u)'
    <3>1. pc'[u] = "started" /\ Unused(u)' /\ key' = 1
      BY <1>1, <2>2, <2>3, <2>4 DEF Unused, Settled
    <3> QED
      BY <2>4, <3>1 DEF ThreadOK, Before, Setup
  <2>6. ASSUME NEW v \in Thread \ {u}
        PROVE  ThreadOK(m, v)'
    <3>1. /\ v \in Thread /\ ThreadOK(m, v) /\ pc'[v] = pc[v] /\ key' = key
          /\ frames'[v] = frames[v] /\ call'[v] = call[v]
          /\ contexts'[v] = contexts[v] /\ tls'[v] = tls[v]
      BY <1>1, <2>2
    <3> QED
      BY <3>1, Untouched DEF ThreadOK, Fresh, Settled, Unused
  <2>7. HandlersOK(m)'
    BY <1>1, <2>2, <2>4 DEF HandlersOK, ErrFirst, Setup
  <2> QED
    BY <2>5, <2>6, <2>7
<1>5. CASE RoutineReturns(t)
  <2>1. /\ t # m /\ pc[t] = "app" /\ pc' = [pc EXCEPT ![t] = "dead"]
        /\ frames[t] = <<>> /\ call[t] = NoCall
        /\ contexts' = [contexts EXCEPT ![t] = AfterDestroy(t)]
        /\ tls' = [tls EXCEPT ![t] = 0]
        /\ UNCHANGED <<initialized, orig, handlers, frames, key, call>>
    BY <1>5 DEF RoutineReturns, Go
  <2>2. Settled(t)
    BY <1>1, <2>1 DEF ThreadOK
  <2>3. AfterDestroy(t) = 0
    BY <2>2 DEF AfterDestroy, Settled
  <2>4. ThreadOK(m, t)'
    <3>1. pc'[t] = "dead" /\ contexts'[t] = 0 /\ frames'[t] = <<>>
          /\ call'[t] = NoCall /\ key' = 1
      BY <1>1, <2>1, <2>2, <2>3 DEF Settled
    <3> QED
      BY <2>1, <3>1 DEF ThreadOK, New, Before, Setup
  <2>5. ASSUME NEW v \in Thread \ {t}
        PROVE  ThreadOK(m, v)'
    <3>1. /\ v \in Thread /\ ThreadOK(m, v) /\ pc'[v] = pc[v] /\ key' = key
          /\ frames'[v] = frames[v] /\ call'[v] = call[v]
          /\ contexts'[v] = contexts[v] /\ tls'[v] = tls[v]
      BY <1>1, <2>1
    <3> QED
      BY <3>1, Untouched DEF ThreadOK, Fresh, Settled, Unused
  <2>6. HandlersOK(m)'
    BY <1>1, <2>1 DEF HandlersOK, ErrFirst, Setup
  <2> QED
    BY <2>4, <2>5, <2>6
<1> QED
  BY <1>3, <1>4, <1>5 DEF Application

LEMMA ContextInvStep ==
  ASSUME NEW m \in Thread, Callers = {m}, ContextInv(m), [Next]_vars
  PROVE  ContextInv(m)'
<1>1. RunInv(m)'
  BY RunInvStep DEF ContextInv
<1>2. HandlersOK(m)' /\ \A u \in Thread : ThreadOK(m, u)'
  <2>1. CASE UNCHANGED vars
    BY <2>1 DEF vars, ContextInv, HandlersOK, ErrFirst, ThreadOK, Fresh, Settled, Unused
  <2>2. ASSUME NEW t \in Thread, PclInit(t)
        PROVE  HandlersOK(m)' /\ \A u \in Thread : ThreadOK(m, u)'
    BY <2>2, PclInitContext, FirstDispatchContext DEF PclInit
  <2>3. ASSUME NEW t \in Thread, EventStep(t)
        PROVE  HandlersOK(m)' /\ \A u \in Thread : ThreadOK(m, u)'
    BY <2>3, EventContext
  <2>4. ASSUME NEW t \in Thread, ThreadStarts(t)
        PROVE  HandlersOK(m)' /\ \A u \in Thread : ThreadOK(m, u)'
    BY <2>4, FirstDispatchContext DEF ThreadStarts
  <2>5. ASSUME NEW t \in Thread, Application(t)
        PROVE  HandlersOK(m)' /\ \A u \in Thread : ThreadOK(m, u)'
    BY <2>5, ApplicationContext
  <2> QED
    BY <2>1, <2>2, <2>3, <2>4, <2>5 DEF Next
<1> QED
  BY <1>1, <1>2 DEF ContextInv

\* Wherever code of the application runs, in a thread's routine or in the main
\* program, the thread has exactly one error context and finds it under its
\* key, whatever handlers were registered, removed or dispatched to; a thread
\* that is gone has freed it (err_ctx.c:48-80, thread.c:36-64).
THEOREM RuntimeContext ==
  ASSUME NEW m \in Thread, Callers = {m}
  PROVE  Spec => []ContextOK
<1>1. Init => ContextInv(m)
  BY InitContextInv
<1>2. ContextInv(m) /\ [Next]_vars => ContextInv(m)'
  BY ContextInvStep
<1>3. ContextInv(m) => ContextOK
  BY DEF ContextInv, ThreadOK, Settled, ContextOK
<1> QED
  BY <1>1, <1>2, <1>3, PTL DEF Spec

-----------------------------------------------------------------------------
(* What a dispatch reaches.  The loop index does not follow the array that a *)
(* removal moves down: a handler that was registered when the dispatch began *)
(* and stays registered is called, or still ahead of the index, or one of    *)
(* those a removal has moved behind it, and a removal moves one.             *)
Start(f) == IF f.running = NoHandler THEN f.next ELSE f.next + 1
Ahead(hs, f) == {hs[i] : i \in Start(f) .. Len(hs)}
Missed(hs, f) == f.began \ (f.called \cup f.gone \cup Ahead(hs, f))
Reaches(hs, f) == IsFiniteSet(Missed(hs, f)) /\ Cardinality(Missed(hs, f)) <= f.removed

AllReach(hs, s) == \A i \in 1 .. Len(s) : Reaches(hs, s[i])
ReachInv == \A t \in Thread : AllReach(handlers, frames[t])

LEMMA FewerMissed ==
  ASSUME NEW f \in Frame, NEW g, NEW hs, NEW ks, Reaches(hs, f),
         Missed(ks, g) \subseteq Missed(hs, f), g.removed = f.removed
  PROVE  Reaches(ks, g)
<1> DEFINE M == Missed(hs, f)  N == Missed(ks, g)  r == f.removed
<1>1. IsFiniteSet(M) /\ Cardinality(M) <= r /\ N \in SUBSET M /\ g.removed = r /\ r \in Nat
  BY DEF Reaches, Frame
<1> HIDE DEF M, N, r
<1>2. IsFiniteSet(N) /\ Cardinality(N) <= Cardinality(M)
  BY ONLY <1>1, FS_Subset
<1>3. Cardinality(N) \in Nat /\ Cardinality(M) \in Nat
  BY ONLY <1>1, <1>2, FS_CardinalityType
<1>4. Cardinality(N) <= r
  BY ONLY <1>1, <1>2, <1>3
<1> QED
  BY ONLY <1>1, <1>2, <1>4 DEF Reaches, N

\* At the start all handlers are ahead; one that is registered comes last.
LEMMA BeginReaches ==
  ASSUME NEW e \in Event, handlers \in Seq(Handler)
  PROVE  Reaches(handlers, NewFrame(e))
<1> DEFINE f == NewFrame(e)
<1>1. f.running = NoHandler /\ f.next = 1 /\ f.removed = 0 /\ f.began = Members(handlers)
  BY DEF NewFrame
<1> HIDE DEF f
<1>2. Missed(handlers, f) = {}
  BY <1>1 DEF Missed, Ahead, Start, Members
<1> QED
  BY ONLY <1>1, <1>2, FS_EmptySet DEF Reaches, f

LEMMA RegisterReaches ==
  ASSUME NEW f \in Frame, NEW h, handlers \in Seq(Handler), Reaches(handlers, f)
  PROVE  Reaches(Append(handlers, h), f)
<1> DEFINE hs == Append(handlers, h)  n == Len(handlers)  k == Start(f)
<1>1. Len(hs) = n + 1 /\ n \in Nat /\ \A i \in 1 .. n : hs[i] = handlers[i]
  OBVIOUS
<1>2. k \in Nat \ {0}
  BY DEF Start, Frame
<1> HIDE DEF hs, n, k
<1>3. \A i \in k .. n : i \in k .. n + 1 /\ i \in 1 .. n
  BY ONLY <1>1, <1>2
<1>4. Ahead(handlers, f) \subseteq Ahead(hs, f)
  BY ONLY <1>1, <1>3 DEF Ahead, n, k
<1>5. Missed(hs, f) \subseteq Missed(handlers, f)
  BY ONLY <1>4 DEF Missed
<1> QED
  BY ONLY <1>5, f \in Frame, Reaches(handlers, f), FewerMissed DEF hs

\* Calling a handler moves it from ahead to called, and its return nothing.
LEMMA CallReaches ==
  ASSUME NEW f \in Frame, NEW g, handlers \in Seq(Handler), Reaches(handlers, f),
         f.running = NoHandler, f.next <= Len(handlers),
         g.called = f.called \cup {handlers[f.next]}, g.began = f.began, g.gone = f.gone,
         g.removed = f.removed, Start(g) = f.next + 1
  PROVE  Reaches(handlers, g)
<1> DEFINE n == Len(handlers)  k == f.next
<1>1. k \in Nat \ {0} /\ n \in Nat /\ Start(f) = k /\ Start(g) = k + 1
  BY DEF Start, Frame
<1> HIDE DEF n, k
<1>2. \A i \in k .. n : i = k \/ i \in k + 1 .. n
  BY ONLY <1>1
<1>3. Ahead(handlers, f) \subseteq Ahead(handlers, g) \cup {handlers[k]}
  BY ONLY <1>1, <1>2 DEF Ahead, n
<1>4. Missed(handlers, g) \subseteq Missed(handlers, f)
  <2>1. g.called = f.called \cup {handlers[k]} /\ g.began = f.began /\ g.gone = f.gone
    BY DEF k
  <2> QED
    BY ONLY <1>3, <2>1 DEF Missed
<1> QED
  BY ONLY <1>4, f \in Frame, Reaches(handlers, f), g.removed = f.removed, FewerMissed

LEMMA ReturnReaches ==
  ASSUME NEW f \in Frame, Reaches(handlers, f), f.running # NoHandler
  PROVE  Reaches(handlers, Returned(f))
<1> DEFINE g == Returned(f)
<1>1. /\ g.next = f.next + 1 /\ g.running = NoHandler /\ g.began = f.began
      /\ g.called = f.called /\ g.gone = f.gone /\ g.removed = f.removed
  BY DEF Returned
<1> HIDE DEF g
<1>2. Start(g) = Start(f)
  BY ONLY <1>1, f.running # NoHandler DEF Start
<1>3. Missed(handlers, g) \subseteq Missed(handlers, f)
  BY ONLY <1>1, <1>2 DEF Missed, Ahead
<1> QED
  BY ONLY <1>1, <1>3, f \in Frame, Reaches(handlers, f), FewerMissed DEF g

\* A removal moves one handler behind the index at most.
LEMMA UnregisterReaches ==
  ASSUME NEW f \in Frame, handlers \in Seq(Handler), Reaches(handlers, f),
         NEW i \in 1 .. Len(handlers)
  PROVE  Reaches(Without(i), Unregistered(f, handlers[i]))
<1> DEFINE g == Unregistered(f, handlers[i])  hs == Without(i)  n == Len(handlers)
           k == Start(f)  M == Missed(handlers, f)  x == handlers[k]
<1>1. /\ g.next = f.next /\ g.running = f.running /\ g.began = f.began
      /\ g.called = f.called /\ g.gone = f.gone \cup {handlers[i]} /\ g.removed = f.removed + 1
  BY DEF Unregistered
<1>2. k \in Nat \ {0} /\ n \in Nat /\ f.removed \in Nat /\ i \in 1 .. n
  BY DEF Start, Frame
<1> HIDE DEF g
<1>3. Start(g) = k
  BY ONLY <1>1 DEF Start
<1>4. /\ Len(hs) = n - 1
      /\ \A j \in 1 .. n - 1 : hs[j] = IF j < i THEN handlers[j] ELSE handlers[j + 1]
  <2>1. n - 1 \in Nat /\ \A j \in 1 .. n - 1 : j \in 1 .. n /\ j + 1 \in 1 .. n
    BY <1>2
  <2>2. hs = [j \in 1 .. n - 1 |-> IF j < i THEN handlers[j] ELSE handlers[j + 1]]
    BY DEF Without
  <2>3. \A j \in 1 .. n - 1 : hs[j] \in Handler
    BY <2>1, <2>2
  <2> HIDE DEF hs, n
  <2>4. hs \in Seq(Handler) /\ Len(hs) = n - 1
    BY ONLY <2>1, <2>2, <2>3
  <2> QED
    BY ONLY <2>2, <2>4
<1> HIDE DEF hs, n, k, x
\* Behind the index the array moves; what was at the index is no more ahead.
<1>5. Ahead(handlers, f) \subseteq Ahead(hs, g) \cup {handlers[i], x}
  <2>0. /\ Ahead(handlers, f) = {handlers[j] : j \in k .. n}
        /\ Ahead(hs, g) = {hs[j] : j \in k .. n - 1}
        /\ x = handlers[k]
    BY ONLY <1>3, <1>4 DEF Ahead, n, k, x
  <2>1. ASSUME NEW j \in k .. n, j # i, j # k
        PROVE  \E l \in k .. n - 1 : hs[l] = handlers[j]
    <3>1. CASE j < i
      <4>1. j \in k .. n - 1 /\ j \in 1 .. n - 1
        BY ONLY <1>2, <3>1, j \in k .. n
      <4> QED
        BY ONLY <1>4, <3>1, <4>1
    <3>2. CASE j > i
      <4>1. j - 1 \in k .. n - 1 /\ j - 1 \in 1 .. n - 1 /\ ~(j - 1 < i) /\ j - 1 + 1 = j
        BY ONLY <1>2, <3>2, j \in k .. n, j # k
      <4> QED
        BY ONLY <1>4, <4>1
    <3> QED
      BY ONLY <1>2, <3>1, <3>2, j \in k .. n, j # i, <2>1
  <2>2. ASSUME NEW e \in {handlers[j] : j \in k .. n}, e # handlers[i], e # handlers[k]
        PROVE  e \in {hs[j] : j \in k .. n - 1}
    <3>1. PICK j \in k .. n : e = handlers[j]
      BY ONLY e \in {handlers[j] : j \in k .. n}
    <3>2. j # i /\ j # k
      BY ONLY <3>1, <2>2
    <3>3. PICK l \in k .. n - 1 : hs[l] = handlers[j]
      BY ONLY <2>1, <3>2
    <3> QED
      BY ONLY <3>1, <3>3
  <2> QED
    BY ONLY <2>0, <2>2
<1>6. Missed(hs, g) \in SUBSET (M \cup {x})
  BY ONLY <1>1, <1>5 DEF Missed, M
<1>7. IsFiniteSet(M) /\ Cardinality(M) \in Nat /\ Cardinality(M) <= f.removed
  BY FS_CardinalityType DEF Reaches
<1> HIDE DEF M
<1>8. /\ IsFiniteSet(M \cup {x}) /\ Cardinality(M \cup {x}) <= f.removed + 1
      /\ Cardinality(M \cup {x}) \in Nat
  <2>1. IsFiniteSet(M \cup {x})
    BY ONLY <1>7, FS_AddElement
  <2>2. Cardinality(M \cup {x}) \in {Cardinality(M), Cardinality(M) + 1}
    BY ONLY <1>7, FS_AddElement
  <2>3. Cardinality(M) <= f.removed + 1 /\ Cardinality(M) + 1 <= f.removed + 1
    BY ONLY <1>2, <1>7
  <2>4. Cardinality(M) + 1 \in Nat
    BY ONLY <1>7
  <2> QED
    BY ONLY <1>7, <2>1, <2>2, <2>3, <2>4
<1> DEFINE N == Missed(hs, g)  U == M \cup {x}
<1>9. N \in SUBSET U
  BY <1>6
<1> HIDE DEF N, U
<1>10. IsFiniteSet(U) /\ Cardinality(U) <= f.removed + 1 /\ Cardinality(U) \in Nat
  BY <1>8 DEF U
<1>11. IsFiniteSet(N) /\ Cardinality(N) <= Cardinality(U)
  BY ONLY <1>9, <1>10, FS_Subset
<1>12. Cardinality(N) \in Nat
  BY ONLY <1>11, FS_CardinalityType
<1>13. Cardinality(N) <= f.removed + 1
  BY ONLY <1>2, <1>10, <1>11, <1>12
<1>14. Reaches(hs, g)
  BY ONLY <1>1, <1>11, <1>13 DEF Reaches, N
<1> QED
  BY ONLY <1>14 DEF g, hs

\* A dispatch that begins or ends, and the innermost one.
LEMMA ReachFacts ==
  ASSUME NEW s \in Seq(Frame), NEW hs, AllReach(hs, s)
  PROVE  /\ \A f \in Frame : Reaches(hs, f) => AllReach(hs, Append(s, f))
         /\ s # <<>> =>
              /\ Reaches(hs, s[Len(s)])
              /\ AllReach(hs, Popped(s))
              /\ \A f \in Frame : Reaches(hs, f) => AllReach(hs, WithTop(s, f))
<1>1. ASSUME NEW r \in Seq(Frame), NEW f \in Frame, AllReach(hs, r), Reaches(hs, f)
      PROVE  AllReach(hs, Append(r, f))
  <2>1. Len(Append(r, f)) = Len(r) + 1 /\ Len(r) \in Nat
    OBVIOUS
  <2>2. \A i \in 1 .. Len(r) + 1 : Append(r, f)[i] = IF i = Len(r) + 1 THEN f ELSE r[i]
    OBVIOUS
  <2>3. \A i \in 1 .. Len(r) + 1 : i = Len(r) + 1 \/ i \in 1 .. Len(r)
    BY ONLY <2>1
  <2> QED
    BY ONLY <1>1, <2>1, <2>2, <2>3 DEF AllReach
<1>2. ASSUME s # <<>>
      PROVE  Reaches(hs, s[Len(s)]) /\ AllReach(hs, Popped(s)) /\ Popped(s) \in Seq(Frame)
  <2> DEFINE n == Len(s) - 1
  <2>0. Len(s) \in Nat /\ Len(s) # 0
    BY <1>2, FrameFacts
  <2>1. /\ n \in Nat /\ n + 1 = Len(s) /\ Len(s) \in 1 .. Len(s)
        /\ \A i \in 1 .. n : i \in 1 .. Len(s) /\ i \in 1 .. n - 1 + 1 /\ 1 + i - 1 = i
    BY <2>0
  <2>2. Reaches(hs, s[Len(s)])
    BY ONLY <2>1, AllReach(hs, s) DEF AllReach
  <2>3. \A i \in 1 .. n : s[i] \in Frame
    BY <2>1
  <2> HIDE DEF n
  <2>4. /\ SubSeq(s, 1, n) \in Seq(Frame)
        /\ Len(SubSeq(s, 1, n)) = IF 1 <= n THEN n - 1 + 1 ELSE 0
        /\ \A i \in 1 .. n - 1 + 1 : SubSeq(s, 1, n)[i] = s[1 + i - 1]
    BY <2>1, <2>3, SubSeqProperties
  <2>5. Len(SubSeq(s, 1, n)) = n
    BY <2>1, <2>4
  <2>6. \A i \in 1 .. n : SubSeq(s, 1, n)[i] = s[i]
    BY ONLY <2>1, <2>4
  <2>7. \A i \in 1 .. n : Reaches(hs, SubSeq(s, 1, n)[i])
    BY ONLY <2>1, <2>6, AllReach(hs, s) DEF AllReach
  <2>8. AllReach(hs, SubSeq(s, 1, n))
    BY ONLY <2>5, <2>7 DEF AllReach
  <2> QED
    BY <2>2, <2>4, <2>8 DEF Popped, n
<1>3. ASSUME s # <<>>, NEW f \in Frame, Reaches(hs, f)
      PROVE  AllReach(hs, WithTop(s, f))
  BY ONLY <1>1, <1>2, <1>3 DEF WithTop
<1> QED
  BY ONLY <1>1, <1>2, <1>3, AllReach(hs, s), s \in Seq(Frame)

LEMMA RegisterAll ==
  ASSUME NEW s \in Seq(Frame), NEW h, handlers \in Seq(Handler), AllReach(handlers, s)
  PROVE  AllReach(Append(handlers, h), s)
<1>1. \A i \in 1 .. Len(s) : s[i] \in Frame /\ Reaches(handlers, s[i])
  BY DEF AllReach
<1>2. \A i \in 1 .. Len(s) : Reaches(Append(handlers, h), s[i])
  BY ONLY <1>1, handlers \in Seq(Handler), RegisterReaches
<1> QED
  BY ONLY <1>2 DEF AllReach

LEMMA UnregisterAll ==
  ASSUME NEW s \in Seq(Frame), handlers \in Seq(Handler), AllReach(handlers, s),
         NEW i \in 1 .. Len(handlers)
  PROVE  AllReach(Without(i), Removed(s, handlers[i]))
<1>1. \A j \in 1 .. Len(s) : s[j] \in Frame /\ Reaches(handlers, s[j])
  BY DEF AllReach
<1>2. \A j \in 1 .. Len(s) : Reaches(Without(i), Unregistered(s[j], handlers[i]))
  BY ONLY <1>1, handlers \in Seq(Handler), i \in 1 .. Len(handlers), UnregisterReaches
<1>3. handlers[i] \in Handler
  OBVIOUS
<1>4. Len(Removed(s, handlers[i])) = Len(s)
  BY <1>3, FrameFacts
<1>5. \A j \in 1 .. Len(s) : Removed(s, handlers[i])[j] = Unregistered(s[j], handlers[i])
  BY DEF Removed
<1> QED
  BY ONLY <1>2, <1>4, <1>5 DEF AllReach

\* A step of one thread's dispatches that leaves the handlers alone.
LEMMA FramesReach ==
  ASSUME NEW t \in Thread, NEW s, frames \in [Thread -> Seq(Frame)], ReachInv,
         handlers' = handlers, frames' = [frames EXCEPT ![t] = s], AllReach(handlers, s)
  PROVE  ReachInv'
<1>1. \A u \in Thread : frames'[u] = IF u = t THEN s ELSE frames[u]
  OBVIOUS
<1> QED
  BY ONLY <1>1, ReachInv, handlers' = handlers, AllReach(handlers, s) DEF ReachInv, AllReach

LEMMA HandlerReach ==
  ASSUME NEW m \in Thread, RunInv(m), ReachInv, NEW t \in Thread,
         CallBuiltin(t) \/ CallUser(t) \/ HandlerReturns(t)
  PROVE  ReachInv'
<1> DEFINE s == frames[t]  f == s[Len(s)]
<1>1. /\ frames \in [Thread -> Seq(Frame)] /\ s \in Seq(Frame) /\ handlers \in Seq(Handler)
      /\ s # <<>> /\ handlers' = handlers /\ AllReach(handlers, s) /\ Top(t) = f
  BY DEF RunInv, TypeOK, CallBuiltin, CallUser, HandlerReturns, Looping, ReachInv, Top
<1>2. f \in Frame /\ Reaches(handlers, f)
  BY <1>1, FrameFacts, ReachFacts
<1> HIDE DEF s, f
<1>3. ASSUME f.running = NoHandler, f.next <= Len(handlers), NEW g \in Frame,
             g.called = f.called \cup {handlers[f.next]}, g.began = f.began, g.gone = f.gone,
             g.removed = f.removed, Start(g) = f.next + 1,
             frames' = [frames EXCEPT ![t] = WithTop(s, g)]
      PROVE  ReachInv'
  <2>1. Reaches(handlers, g)
    BY ONLY <1>1, <1>2, <1>3, CallReaches
  <2>2. AllReach(handlers, WithTop(s, g))
    BY ONLY <1>1, <2>1, g \in Frame, ReachFacts
  <2> QED
    BY ONLY <1>1, <1>3, <2>2, ReachInv, t \in Thread, FramesReach
<1>4. /\ f.next \in Nat \ {0} /\ f.called \subseteq Handler /\ f.event \in Event
      /\ f.began \subseteq Handler /\ f.gone \subseteq Handler /\ f.removed \in Nat
  BY <1>2 DEF Frame
<1>5. CASE CallBuiltin(t)
  <2> DEFINE g == NextCalled(f)
  <2>1. /\ f.running = NoHandler /\ f.next <= Len(handlers)
        /\ frames' = [frames EXCEPT ![t] = WithTop(s, g)]
    BY <1>1, <1>5 DEF CallBuiltin, Looping, s
  <2>2. handlers[f.next] \in Handler
    BY <1>1, <1>4, <2>1
  <2>3. /\ g \in Frame /\ g.called = f.called \cup {handlers[f.next]}
        /\ g.began = f.began /\ g.gone = f.gone /\ g.removed = f.removed
        /\ g.running = NoHandler /\ g.next = f.next + 1
    BY <1>4, <2>2 DEF NextCalled, Frame
  <2>4. Start(g) = f.next + 1
    BY <2>3 DEF Start
  <2> QED
    BY <1>3, <2>1, <2>3, <2>4
<1>6. CASE CallUser(t)
  <2> DEFINE h == handlers[f.next]  g == Calling(f, h)
  <2>1. /\ f.running = NoHandler /\ f.next <= Len(handlers) /\ h \in UserHandler
        /\ frames' = [frames EXCEPT ![t] = WithTop(s, g)]
    BY <1>1, <1>6 DEF CallUser, Looping, s
  <2>2. h \in Handler /\ h # NoHandler
    BY <2>1, RuntimeAssumption DEF Handler
  <2>3. /\ g \in Frame /\ g.called = f.called \cup {handlers[f.next]}
        /\ g.began = f.began /\ g.gone = f.gone /\ g.removed = f.removed
        /\ g.running # NoHandler /\ g.next = f.next
    BY <1>4, <2>2 DEF Calling, Frame
  <2>4. Start(g) = f.next + 1
    BY <2>3 DEF Start
  <2> QED
    BY <1>3, <2>1, <2>3, <2>4
<1>7. CASE HandlerReturns(t)
  <2> DEFINE g == Returned(f)
  <2>1. f.running # NoHandler /\ frames' = [frames EXCEPT ![t] = WithTop(s, g)]
    BY <1>1, <1>7 DEF HandlerReturns, s
  <2>2. g \in Frame
    BY <1>4 DEF Returned, Frame
  <2>3. Reaches(handlers, g)
    BY <1>2, <2>1, ReturnReaches
  <2> HIDE DEF g
  <2>4. AllReach(handlers, WithTop(s, g))
    BY ONLY <1>1, <2>2, <2>3, ReachFacts
  <2> QED
    BY ONLY <1>1, <2>1, <2>4, ReachInv, t \in Thread, FramesReach
<1> QED
  BY <1>5, <1>6, <1>7

LEMMA DispatchReach ==
  ASSUME NEW m \in Thread, RunInv(m), ReachInv, NEW t \in Thread, NEW e \in Event,
         BeginDispatch(t, e), handlers' = handlers
  PROVE  ReachInv'
<1>1. /\ frames \in [Thread -> Seq(Frame)] /\ frames[t] \in Seq(Frame)
      /\ handlers \in Seq(Handler) /\ AllReach(handlers, frames[t])
      /\ Members(handlers) \subseteq Handler
  BY DEF RunInv, TypeOK, ReachInv, Members
<1>2. NewFrame(e) \in Frame
  BY <1>1 DEF NewFrame, Frame
<1>3. Reaches(handlers, NewFrame(e))
  BY <1>1, BeginReaches
<1>4. AllReach(handlers, Append(frames[t], NewFrame(e)))
  BY ONLY <1>1, <1>2, <1>3, ReachFacts
<1>5. frames' = [frames EXCEPT ![t] = Append(frames[t], NewFrame(e))]
  BY DEF BeginDispatch
<1> QED
  BY ONLY <1>1, <1>4, <1>5, ReachInv, t \in Thread, handlers' = handlers, FramesReach

LEMMA RegisterReach ==
  ASSUME NEW m \in Thread, RunInv(m), ReachInv, NEW h,
         handlers' = Append(handlers, h), frames' = frames
  PROVE  ReachInv'
<1>1. handlers \in Seq(Handler) /\ \A u \in Thread : frames[u] \in Seq(Frame)
  BY DEF RunInv, TypeOK
<1>2. \A u \in Thread : AllReach(Append(handlers, h), frames[u])
  BY ONLY <1>1, ReachInv, RegisterAll DEF ReachInv
<1> QED
  BY ONLY <1>2, handlers' = Append(handlers, h), frames' = frames DEF ReachInv, AllReach

\* Only the thread that has the mutex is in dispatches that a removal disturbs.
LEMMA UnregisterReach ==
  ASSUME NEW m \in Thread, RunInv(m), ReachInv, NEW t \in Thread, EventUnregister(t)
  PROVE  ReachInv'
<1> DEFINE h == call[t].handler  i == FirstIndex(h)
<1>1. /\ frames \in [Thread -> Seq(Frame)] /\ frames[t] \in Seq(Frame)
      /\ handlers \in Seq(Handler) /\ AllReach(handlers, frames[t]) /\ Len(handlers) \in Nat
  BY DEF RunInv, TypeOK, ReachInv
<1>2. \A u \in Thread \ {t} : frames[u] = <<>>
  BY Alone DEF RunInv, EventUnregister, Serve
<1>3. CASE h \in Members(handlers)
  <2>1. /\ handlers' = Without(i)
        /\ frames' = [frames EXCEPT ![t] = Removed(frames[t], h)]
    BY <1>3 DEF EventUnregister
  <2>2. i \in 1 .. Len(handlers) /\ handlers[i] = h
    BY <1>1, <1>3, FirstIndexFound
  <2> HIDE DEF h, i
  <2>3. AllReach(Without(i), Removed(frames[t], h))
    BY ONLY <1>1, <2>2, UnregisterAll
  <2>4. \A u \in Thread : frames'[u] = IF u = t THEN Removed(frames[t], h) ELSE <<>>
    BY <1>1, <1>2, <2>1
  <2>5. AllReach(Without(i), <<>>)
    BY DEF AllReach
  <2> QED
    BY ONLY <2>1, <2>3, <2>4, <2>5 DEF ReachInv, AllReach
<1>4. CASE h \notin Members(handlers)
  BY <1>4 DEF EventUnregister, ReachInv
<1> QED
  BY <1>3, <1>4

LEMMA EndReach ==
  ASSUME NEW m \in Thread, RunInv(m), ReachInv, NEW t \in Thread, EndDispatch(t)
  PROVE  /\ ReachInv' /\ \A u \in Thread \ {t} : frames'[u] = frames[u]
         /\ Cardinality(Top(t).began \ (Top(t).called \cup Top(t).gone)) <= Top(t).removed
<1> DEFINE s == frames[t]  f == s[Len(s)]
<1>1. /\ frames \in [Thread -> Seq(Frame)] /\ s \in Seq(Frame) /\ handlers \in Seq(Handler)
      /\ s # <<>> /\ handlers' = handlers /\ AllReach(handlers, s) /\ Top(t) = f
      /\ frames' = [frames EXCEPT ![t] = Popped(s)] /\ f.running = NoHandler
      /\ f.next > Len(handlers)
  BY DEF RunInv, TypeOK, EndDispatch, Looping, LoopDone, ReachInv, Top
<1>2. f \in Frame /\ Reaches(handlers, f) /\ AllReach(handlers, Popped(s))
  BY <1>1, FrameFacts, ReachFacts
<1> HIDE DEF s, f
<1>3. ReachInv'
  BY ONLY <1>1, <1>2, ReachInv, t \in Thread, FramesReach
<1>4. Ahead(handlers, f) = {}
  <2>1. Len(handlers) \in Nat /\ f.next \in Nat
    BY <1>1, <1>2 DEF Frame
  <2>2. Start(f) .. Len(handlers) = {}
    BY <1>1, <2>1 DEF Start
  <2> QED
    BY ONLY <2>2 DEF Ahead
<1>5. Missed(handlers, f) = f.began \ (f.called \cup f.gone)
  BY ONLY <1>4 DEF Missed
<1>6. Cardinality(f.began \ (f.called \cup f.gone)) <= f.removed
  BY ONLY <1>2, <1>5 DEF Reaches
<1>7. \A u \in Thread \ {t} : frames'[u] = frames[u]
  BY <1>1
<1> QED
  BY ONLY <1>1, <1>3, <1>6, <1>7

\* Every step keeps it, and what ends a dispatch is the end of its loop.
LEMMA ReachStep ==
  ASSUME NEW m \in Thread, Callers = {m}, RunInv(m), ReachInv, [Next]_vars
  PROVE  /\ ReachInv'
         /\ \A t \in Thread : Len(frames'[t]) < Len(frames[t]) =>
              Cardinality(Top(t).began \ (Top(t).called \cup Top(t).gone)) <= Top(t).removed
<1> DEFINE Longer == \A t \in Thread : ~(Len(frames'[t]) < Len(frames[t]))
           Bound(t) == Cardinality(Top(t).began \ (Top(t).called \cup Top(t).gone))
                         <= Top(t).removed
<1>1. /\ frames \in [Thread -> Seq(Frame)] /\ \A t \in Thread : Len(frames[t]) \in Nat
      /\ call \in [Thread -> Call]
  BY FrameFacts DEF RunInv, TypeOK
<1>2. ASSUME frames' = frames
      PROVE  Longer
  BY ONLY <1>1, <1>2
<1>3. ASSUME NEW t \in Thread, NEW s, frames' = [frames EXCEPT ![t] = s],
             Len(s) \in Nat, Len(s) >= Len(frames[t])
      PROVE  Longer
  <2>1. \A u \in Thread : frames'[u] = IF u = t THEN s ELSE frames[u]
    BY ONLY <1>1, <1>3
  <2> QED
    BY ONLY <1>1, <1>3, <2>1
<1> HIDE DEF Longer, Bound
<1>4. ASSUME frames' = frames, handlers' = handlers
      PROVE  ReachInv' /\ Longer
  BY <1>2, <1>4 DEF ReachInv
<1>5. ASSUME NEW t \in Thread, NEW e \in Event, BeginDispatch(t, e), handlers' = handlers
      PROVE  ReachInv' /\ Longer
  <2>1. Len(Append(frames[t], NewFrame(e))) = Len(frames[t]) + 1
    BY <1>1
  <2> DEFINE s == Append(frames[t], NewFrame(e))
  <2>2. Len(s) \in Nat /\ Len(s) >= Len(frames[t]) /\ frames' = [frames EXCEPT ![t] = s]
    BY <1>1, <1>5, <2>1 DEF BeginDispatch
  <2> HIDE DEF s
  <2>3. Longer
    BY ONLY <1>3, <2>2, t \in Thread
  <2> QED
    BY <1>5, <2>3, DispatchReach
<1>6. ASSUME NEW t \in Thread, PclInit(t)
      PROVE  ReachInv' /\ Longer
  <2>1. CASE InitRead(t) \/ InitExchange(t)
    BY <1>4, <2>1 DEF InitRead, InitExchange
  <2>2. CASE EventInit(t)
    <3>1. \A u \in Thread : frames[u] = <<>>
      BY <1>1, <2>2 DEF EventInit, Go, RunInv, Quiet, Setup
    <3>2. frames' = frames
      BY <2>2 DEF EventInit
    <3>3. ReachInv'
      BY ONLY <3>1, <3>2 DEF ReachInv, AllReach
    <3> QED
      BY <1>2, <3>2, <3>3
  <2>3. ASSUME NEW h, NEW from, NEW to, RegisterBuiltin(t, h, from, to)
        PROVE  ReachInv' /\ Longer
    <3>1. handlers' = Append(handlers, h) /\ frames' = frames
      BY <2>3 DEF RegisterBuiltin
    <3> QED
      BY <1>2, <3>1, RegisterReach
  <2>4. CASE FirstDispatch(t, "dispatch", "INIT")
    BY <1>5, <2>4 DEF FirstDispatch, Event
  <2> QED
    BY <1>6, <2>1, <2>2, <2>3, <2>4 DEF PclInit
<1>7. ASSUME NEW t \in Thread, ThreadStarts(t)
      PROVE  ReachInv' /\ Longer
  BY <1>5, <1>7 DEF ThreadStarts, FirstDispatch, Event
<1>8. ASSUME NEW t \in Thread, Application(t)
      PROVE  ReachInv' /\ Longer
  BY <1>4, <1>8 DEF Application, Asks, CreateThread, RoutineReturns
<1>9. ASSUME NEW t \in Thread, CallBuiltin(t) \/ CallUser(t) \/ HandlerReturns(t)
      PROVE  ReachInv' /\ Longer
  <2>1. PICK f : frames' = [frames EXCEPT ![t] = WithTop(frames[t], f)]
    BY <1>9 DEF CallBuiltin, CallUser, HandlerReturns
  <2>2. frames[t] # <<>> /\ frames[t] \in Seq(Frame)
    BY <1>1, <1>9 DEF CallBuiltin, CallUser, HandlerReturns, Looping
  <2>3. Popped(frames[t]) \in Seq(Frame) /\ Len(Popped(frames[t])) = Len(frames[t]) - 1
    BY <2>2, FrameFacts
  <2>4. Len(WithTop(frames[t], f)) = Len(Popped(frames[t])) + 1
    BY <2>3 DEF WithTop
  <2>5. Longer
    <3> DEFINE s == WithTop(frames[t], f)
    <3>1. frames' = [frames EXCEPT ![t] = s] /\ Len(s) \in Nat /\ Len(s) >= Len(frames[t])
      BY <1>1, <2>1, <2>3, <2>4
    <3> HIDE DEF s
    <3> QED
      BY ONLY <1>3, <3>1, t \in Thread
  <2> QED
    BY <1>9, <2>5, HandlerReach
<1>10. ASSUME NEW t \in Thread, EventStep(t)
       PROVE  ReachInv' /\ (Longer \/ EndDispatch(t))
  <2>1. CASE EventRegister(t)
    <3>1. handlers' = Append(handlers, call[t].handler) /\ frames' = frames
      BY <2>1 DEF EventRegister
    <3> QED
      BY <1>2, <3>1, RegisterReach
  <2>2. CASE EventUnregister(t)
    <3>1. CASE frames' = frames
      BY <1>2, <2>2, <3>1, UnregisterReach
    <3>2. CASE frames' = [frames EXCEPT ![t] = Removed(frames[t], call[t].handler)]
      <4> DEFINE s == Removed(frames[t], call[t].handler)
      <4>1. Len(s) \in Nat /\ Len(s) >= Len(frames[t])
        BY <1>1 DEF Removed
      <4>2. frames' = [frames EXCEPT ![t] = s]
        BY <3>2
      <4> HIDE DEF s
      <4>3. Longer
        BY ONLY <1>3, <4>1, <4>2, t \in Thread
      <4> QED
        BY <2>2, <4>3, UnregisterReach
    <3> QED
      BY <2>2, <3>1, <3>2 DEF EventUnregister
  <2>3. CASE EventDispatch(t)
    BY <1>5, <2>3 DEF EventDispatch, Event
  <2>4. CASE EndDispatch(t)
    BY <2>4, EndReach
  <2> QED
    BY <1>9, <1>10, <2>1, <2>2, <2>3, <2>4 DEF EventStep
<1>11. ASSUME UNCHANGED vars
       PROVE  ReachInv' /\ Longer
  BY <1>4, <1>11 DEF vars
<1>12. ASSUME NEW t \in Thread, EndDispatch(t)
       PROVE  \A u \in Thread : Len(frames'[u]) < Len(frames[u]) => Bound(u)
  <2>1. Bound(t) /\ \A u \in Thread \ {t} : frames'[u] = frames[u]
    BY <1>12, EndReach DEF Bound
  <2>2. \A u \in Thread \ {t} : ~(Len(frames'[u]) < Len(frames[u]))
    BY ONLY <1>1, <2>1
  <2> QED
    BY ONLY <2>1, <2>2
<1>13. ReachInv' /\ (Longer \/ \E t \in Thread : EndDispatch(t))
  <2>1. CASE \E t \in Thread :
               PclInit(t) \/ EventStep(t) \/ ThreadStarts(t) \/ Application(t)
    BY ONLY <1>6, <1>7, <1>8, <1>10, <2>1
  <2> QED
    BY <1>11, <2>1 DEF Next
<1>14. \A t \in Thread : Len(frames'[t]) < Len(frames[t]) => Bound(t)
  BY <1>12, <1>13 DEF Longer
<1> QED
  BY ONLY <1>13, <1>14 DEF Bound

\* A dispatch that returns has called every handler that was registered when it
\* began and stayed registered, but for one per handler that was unregistered
\* meanwhile, whatever handlers do inside it (event_dispatch.c:37-46,
\* event_unregister.c:32-46).
THEOREM RuntimeReaches ==
  ASSUME NEW m \in Thread, Callers = {m}
  PROVE  Spec => DispatchReaches
<1> DEFINE I == RunInv(m) /\ ReachInv
<1>1. Init => I
  <2>1. Init => ReachInv
    BY DEF Init, ReachInv, AllReach
  <2> QED
    BY <2>1, InitRunInv
<1>2. I /\ [Next]_vars => I'
  BY RunInvStep, ReachStep
<1>3. I /\ [Next]_vars =>
        [\A t \in Thread : Len(frames'[t]) < Len(frames[t]) =>
           Cardinality(Top(t).began \ (Top(t).called \cup Top(t).gone))
             <= Top(t).removed]_vars
  BY ReachStep
<1> QED
  BY <1>1, <1>2, <1>3, PTL DEF Spec, DispatchReaches

-----------------------------------------------------------------------------
(* Processes that threads start. *)

\* What the parent holds of a call that waits for its child.
Waiting(t) == ParentEnds(t) \cup {StatusRead(t)}

\* A call in these places has not forked.
NotForked == {"idle", "pipe", "mark", "status", "fork"}

\* The streams without a pipe are counted down.
PipedOK == \A t \in Starters :
  /\ place[t] = "idle" => piped[t] = 0
  /\ place[t] \in {"pipe", "mark"} => piped[t] < Len(Streams)

\* What the parent has and must not have while it waits.
ParentHolds == \A t \in Starters :
  /\ place[t] = "mark" => Ends(t, Streams[piped[t] + 1]) \subseteq fds[Parent]
  /\ place[t] = "read" => Own(t) \cap fds[Parent] \subseteq Waiting(t)
  /\ place[t] \in {"fork", "forked", "read"} =>
       StatusRead(t) \in fds[Parent]

\* A child exists from fork on.
ChildForked == \A t \in Starters :
  /\ place[t] \in NotForked => child[t] = "none" /\ t \notin told
  /\ place[t] \in {"forked", "read"} => child[t] # "none"

\* Until it executes its program or exits, the child holds the write end of
\* the status pipe, so the parent's read does not end before.
ChildHolds == \A t \in Starters :
  /\ place[t] = "fork" => StatusWrite(t) \in fds[Parent]
  /\ child[t] \in {"forked", "set", "reporting"} =>
       StatusWrite(t) \in fds[t]

\* The code is in the pipe when the child has failed and the parent listens,
\* and only then.
ToldOK == \A t \in Starters :
  /\ child[t] \in {"reporting", "failed"} /\ place[t] \in {"forked", "read"} =>
       t \in told
  /\ t \in told => child[t] \in {"reporting", "failed"}

\* A call that has not returned has no result.
Pending == \A t \in Starters : place[t] # "done" => result[t] = "none"

\* The inductive invariant.
ExecInv ==
  /\ ExecTypeOK /\ NoDescriptorLeaks /\ ExecReported
  /\ PipedOK /\ ParentHolds /\ ChildForked /\ ChildHolds /\ ToldOK /\ Pending

-----------------------------------------------------------------------------
\* The initial states satisfy the invariant.
LEMMA InitExecInv == ExecInit => ExecInv
  BY ProcExecAssumption DEF ExecInit, ExecInv, ExecTypeOK, NoDescriptorLeaks,
     ExecReported, PipedOK, ParentHolds, ChildForked, ChildHolds, ToldOK,
     Pending, NotForked, Process

\* The descriptors of one call are not those of another.
LEMMA OwnFacts ==
  ASSUME NEW t \in Starters
  PROVE  /\ \A s \in Stream \cup {"status"} : Ends(t, s) \subseteq Own(t)
         /\ ChildEnds(t) \subseteq Own(t) /\ ParentEnds(t) \subseteq Own(t)
         /\ Waiting(t) \subseteq Own(t)
         /\ \A s \in Stream : ParentEnd(t, s) \in Own(t)
         /\ Own(t) \subseteq Descriptor
         /\ \A u \in Starters \ {t} : Own(u) \cap Own(t) = {}
         /\ Own(t) \ (ChildEnds(t) \cup {StatusWrite(t)}) \subseteq Waiting(t)
         /\ Waiting(t) \ {StatusRead(t)} = ParentEnds(t)
         /\ StatusRead(t) \in Own(t) /\ StatusWrite(t) \in Own(t)
         /\ StatusRead(t) \notin ChildEnds(t)
         /\ StatusRead(t) \notin ParentEnds(t)
         /\ StatusWrite(t) \notin ParentEnds(t)
         /\ Ends(t, "status") = {StatusRead(t), StatusWrite(t)}
         /\ StatusRead(t) # StatusWrite(t)
         /\ \A s \in Stream : ParentEnd(t, s) \in ParentEnds(t) \cap Ends(t, s)
         /\ \A s \in Stream : StatusRead(t) \notin Ends(t, s) /\ StatusWrite(t) \notin Ends(t, s)
  <1>1. "status" \notin Stream
    BY ProcExecAssumption DEF Stream
  <1>2. \A s \in Stream \cup {"status"} : Ends(t, s) \subseteq Own(t)
    BY DEF Ends, Own, Descriptor
  <1>3. \A s \in Stream : ParentEnd(t, s) \in Own(t) /\ ChildEnd(t, s) \in Own(t)
    BY DEF ParentEnd, ChildEnd, Own, Descriptor
  <1>4. StatusRead(t) \in Own(t) /\ StatusWrite(t) \in Own(t)
    BY DEF Own, Descriptor, StatusRead, StatusWrite
  <1>5. \A u \in Starters \ {t} : Own(u) \cap Own(t) = {}
    BY DEF Own
  <1>6. \A s \in Stream : /\ ParentEnd(t, s)[2] = s
                          /\ ChildEnd(t, s)[2] = s
    BY DEF ParentEnd, ChildEnd
  <1>7. /\ \A d \in ParentEnds(t) \cup ChildEnds(t) : d[2] \in Stream
        /\ StatusRead(t)[2] = "status"
        /\ StatusWrite(t)[2] = "status"
    BY <1>6 DEF ParentEnds, ChildEnds, StatusRead, StatusWrite
  <1>8. \A d \in Own(t) : \/ d \in ChildEnds(t) \cup ParentEnds(t)
                          \/ d = StatusRead(t)
                          \/ d = StatusWrite(t)
    <2> SUFFICES ASSUME NEW d \in Own(t)
                 PROVE  \/ d \in ChildEnds(t) \cup ParentEnds(t)
                        \/ d = StatusRead(t)
                        \/ d = StatusWrite(t)
      OBVIOUS
    <2>1. PICK s \in Stream \cup {"status"}, e \in {"read", "write"} : d = <<t, s, e>>
      BY DEF Own, Descriptor
    <2>2. s \in Stream => d = ParentEnd(t, s) \/ d = ChildEnd(t, s)
      BY <2>1 DEF ParentEnd, ChildEnd
    <2> QED
      BY <2>1, <2>2 DEF ParentEnds, ChildEnds, StatusRead, StatusWrite
  <1>9. ChildEnds(t) \subseteq Own(t) /\ ParentEnds(t) \subseteq Own(t)
    BY <1>3 DEF ChildEnds, ParentEnds
  <1>10. /\ Ends(t, "status") = {StatusRead(t), StatusWrite(t)}
         /\ StatusRead(t) # StatusWrite(t)
         /\ \A s \in Stream : StatusRead(t) \notin Ends(t, s) /\ StatusWrite(t) \notin Ends(t, s)
    BY <1>1 DEF Ends, StatusRead, StatusWrite
  <1>11. \A s \in Stream : ParentEnd(t, s) \in ParentEnds(t) \cap Ends(t, s)
    BY DEF ParentEnd, ParentEnds, Ends
  <1> QED
    BY <1>11, <1>1, <1>2, <1>3, <1>4, <1>5, <1>7, <1>8, <1>9, <1>10 DEF Waiting, Own

\* The stream whose pipe is made next is one of the streams.
LEMMA NextStream ==
  /\ Len(Streams) \in Nat
  /\ \A n \in Nat : n < Len(Streams) => Streams[n + 1] \in Stream
  BY ProcExecAssumption DEF Stream

\* The call begins.
\* The call begins.
LEMMA StartCallStep ==
  ASSUME ExecInv, NEW t \in Starters, StartCall(t)
  PROVE  ExecInv'
  <1>1. (ExecTypeOK /\ NoDescriptorLeaks /\ ExecReported /\ PipedOK
        /\ ParentHolds /\ ChildHolds /\ ToldOK /\ Pending)'
    BY DEF ExecInv, StartCall, Advance, ExecTypeOK, NoDescriptorLeaks, ExecReported,
       PipedOK, ParentHolds, ChildHolds, ToldOK, Pending
  <1>2. ChildForked'
    BY OwnFacts, ProcExecAssumption DEF ExecInv, StartCall, Advance, ExecTypeOK,
       Process, ChildForked, NotForked
  <1> QED
    BY <1>1, <1>2 DEF ExecInv

\* Another pipe for the call.
LEMMA MakePipeStep ==
  ASSUME ExecInv, NEW t \in Starters, MakePipe(t)
  PROVE  ExecInv'
  <1>1. (ExecReported /\ PipedOK /\ ToldOK /\ Pending)'
    BY DEF ExecInv, MakePipe, Advance, ExecReported, PipedOK, ToldOK, Pending
  <1>2. ChildHolds'
    BY DEF ExecInv, MakePipe, Advance, Pipe, ExecTypeOK, ChildHolds
  <1>3. ExecTypeOK'
    BY OwnFacts, NextStream, ProcExecAssumption DEF ExecInv, MakePipe, Advance,
       Pipe, PipedOK, Process, ExecTypeOK
  <1>4. NoDescriptorLeaks'
    BY OwnFacts, NextStream, ProcExecAssumption DEF ExecInv, MakePipe, Advance,
       Pipe, ExecTypeOK, PipedOK, Process, NoDescriptorLeaks
  <1>5. ParentHolds'
    BY OwnFacts, NextStream, ProcExecAssumption DEF ExecInv, MakePipe, Advance,
       Pipe, ExecTypeOK, PipedOK, Process, ParentHolds
  <1>6. ChildForked'
    BY OwnFacts, ProcExecAssumption DEF ExecInv, MakePipe, Advance, Pipe, ExecTypeOK,
       Process, ChildForked, NotForked
  <1> QED
    BY <1>1, <1>2, <1>3, <1>4, <1>5, <1>6 DEF ExecInv

\* The parent's end of it.
LEMMA MarkPipeStep ==
  ASSUME ExecInv, NEW t \in Starters, MarkPipe(t)
  PROVE  ExecInv'
  <1>1. (NoDescriptorLeaks /\ ExecReported /\ ChildHolds /\ ToldOK /\ Pending)'
    BY DEF ExecInv, MarkPipe, Advance, NoDescriptorLeaks, ExecReported, ChildHolds,
       ToldOK, Pending
  <1>2. (PipedOK /\ ParentHolds)'
    BY DEF ExecInv, MarkPipe, Advance, ExecTypeOK, PipedOK, ParentHolds
  <1>3. ExecTypeOK'
    BY OwnFacts, NextStream, ProcExecAssumption DEF ExecInv, MarkPipe, Advance,
       PipedOK, ParentHolds, Process, ExecTypeOK
  <1>4. ChildForked'
    BY OwnFacts, ProcExecAssumption DEF ExecInv, MarkPipe, Advance, ExecTypeOK, Process,
       ChildForked, NotForked
  <1> QED
    BY <1>1, <1>2, <1>3, <1>4 DEF ExecInv

\* The status pipe.
LEMMA MakeStatusPipeStep ==
  ASSUME ExecInv, NEW t \in Starters, MakeStatusPipe(t)
  PROVE  ExecInv'
  <1>1. (ExecReported /\ PipedOK /\ ToldOK /\ Pending)'
    BY DEF ExecInv, MakeStatusPipe, Advance, ExecReported, PipedOK, ToldOK, Pending
  <1>2. ExecTypeOK'
    BY OwnFacts, ProcExecAssumption DEF ExecInv, MakeStatusPipe, Advance, Pipe,
       ExecTypeOK, Process
  <1>3. NoDescriptorLeaks'
    BY OwnFacts, ProcExecAssumption DEF ExecInv, MakeStatusPipe, Advance, Pipe,
       ExecTypeOK, Process, NoDescriptorLeaks
  <1>4. ParentHolds'
    BY OwnFacts, ProcExecAssumption DEF ExecInv, MakeStatusPipe, Advance, Pipe,
       ExecTypeOK, Process, ParentHolds
  <1>5. ChildForked'
    BY OwnFacts, ProcExecAssumption DEF ExecInv, MakeStatusPipe, Advance, Pipe,
       ExecTypeOK, Process, ChildForked, NotForked
  <1>6. ChildHolds'
    BY OwnFacts, ProcExecAssumption DEF ExecInv, MakeStatusPipe, Advance, Pipe,
       ExecTypeOK, Process, ChildHolds
  <1> QED
    BY <1>1, <1>2, <1>3, <1>4, <1>5, <1>6 DEF ExecInv

\* The child gets a copy of everything.
LEMMA ForkStep ==
  ASSUME ExecInv, NEW t \in Starters, Fork(t)
  PROVE  ExecInv'
  <1>1. (NoDescriptorLeaks /\ PipedOK /\ ParentHolds /\ Pending)'
    BY DEF ExecInv, Fork, Advance, NoDescriptorLeaks, PipedOK, ParentHolds, Pending
  <1>2. ExecTypeOK'
    BY OwnFacts, ProcExecAssumption DEF ExecInv, Fork, Advance, ExecTypeOK, Process
  <1>3. ExecReported'
    BY DEF ExecInv, Fork, Advance, ExecTypeOK, Pending, ExecReported
  <1>4. ChildForked'
    BY OwnFacts, ProcExecAssumption DEF ExecInv, Fork, Advance, ExecTypeOK, Process,
       ChildForked, NotForked
  <1>5. ChildHolds'
    BY OwnFacts, ProcExecAssumption DEF ExecInv, Fork, Advance, ExecTypeOK, Process,
       ChildHolds
  <1>6. ToldOK'
    BY OwnFacts, ProcExecAssumption DEF ExecInv, Fork, Advance, ExecTypeOK, Process,
       ChildForked, NotForked, ToldOK
  <1> QED
    BY <1>1, <1>2, <1>3, <1>4, <1>5, <1>6 DEF ExecInv

\* The parent closes what only the child needs.
LEMMA ReleaseChildEndsStep ==
  ASSUME ExecInv, NEW t \in Starters, ReleaseChildEnds(t)
  PROVE  ExecInv'
  <1>1. (ExecReported /\ PipedOK /\ ToldOK /\ Pending)'
    BY DEF ExecInv, ReleaseChildEnds, Advance, ExecReported, PipedOK, ToldOK,
       Pending
  <1>2. (ExecTypeOK /\ NoDescriptorLeaks)'
    BY DEF ExecInv, ReleaseChildEnds, Advance, Close, FlagGoes, NotForParent,
       ExecTypeOK, NoDescriptorLeaks
  <1>3. ParentHolds'
    BY OwnFacts, NextStream, ProcExecAssumption DEF ExecInv, ReleaseChildEnds,
       Advance, Close, FlagGoes, NotForParent, ExecTypeOK, PipedOK, Process, ParentHolds
  <1>4. ChildForked'
    BY OwnFacts, ProcExecAssumption DEF ExecInv, ReleaseChildEnds, Advance, Close,
       FlagGoes, NotForParent, ExecTypeOK, Process, ChildForked, NotForked
  <1>5. ChildHolds'
    BY OwnFacts, ProcExecAssumption DEF ExecInv, ReleaseChildEnds, Advance, Close,
       FlagGoes, NotForParent, ExecTypeOK, Process, ChildHolds
  <1> QED
    BY <1>1, <1>2, <1>3, <1>4, <1>5 DEF ExecInv

\* The code says that the child failed.
LEMMA ReadErrorStep ==
  ASSUME ExecInv, NEW t \in Starters, ReadError(t)
  PROVE  ExecInv'
  <1>1. (PipedOK /\ ToldOK)'
    BY DEF ExecInv, ReadError, Advance, PipedOK, ToldOK
  <1>2. (ExecTypeOK /\ Pending)'
    BY DEF ExecInv, ReadError, Advance, Close, FlagGoes, ExecTypeOK, Pending
  <1>3. NoDescriptorLeaks'
    BY OwnFacts, ProcExecAssumption DEF ExecInv, ReadError, Advance, Close,
       FlagGoes, ExecTypeOK, Process, NoDescriptorLeaks
  <1>4. ExecReported'
    BY DEF ExecInv, ReadError, Advance, Close, FlagGoes, ExecTypeOK, ToldOK,
       ExecReported
  <1>5. ParentHolds'
    BY OwnFacts, NextStream, ProcExecAssumption DEF ExecInv, ReadError, Advance,
       Close, FlagGoes, ExecTypeOK, PipedOK, Process, ParentHolds
  <1>6. ChildForked'
    BY OwnFacts, ProcExecAssumption DEF ExecInv, ReadError, Advance, Close,
       FlagGoes, ExecTypeOK, Process, ChildForked, NotForked
  <1>7. ChildHolds'
    BY OwnFacts, ProcExecAssumption DEF ExecInv, ReadError, Advance, Close,
       FlagGoes, ExecTypeOK, Process, ChildHolds
  <1> QED
    BY <1>1, <1>2, <1>3, <1>4, <1>5, <1>6, <1>7 DEF ExecInv

\* End of file: no process has the write end, so the child cannot be
\* on its way to execvp any more, and it wrote nothing.
LEMMA ReadEofStep ==
  ASSUME ExecInv, NEW t \in Starters, ReadEof(t)
  PROVE  ExecInv'
  <1>1. (ExecTypeOK /\ PipedOK /\ ToldOK /\ Pending)'
    BY DEF ExecInv, ReadEof, Succeeds, Advance, Close, FlagGoes, Open, ExecTypeOK,
       PipedOK, ToldOK, Pending
  <1>2. NoDescriptorLeaks'
    BY OwnFacts, ProcExecAssumption DEF ExecInv, ReadEof, Succeeds, Advance, Close,
       FlagGoes, Open, ExecTypeOK, ParentHolds, Process, NoDescriptorLeaks
  <1>3. ExecReported'
    BY DEF ExecInv, ReadEof, Succeeds, Advance, Close, FlagGoes, Open, ExecTypeOK,
       ToldOK, ChildHolds, ChildForked, Process, ExecReported
  <1>4. ParentHolds'
    BY OwnFacts, NextStream, ProcExecAssumption DEF ExecInv, ReadEof, Succeeds,
       Advance, Close, FlagGoes, Open, ExecTypeOK, PipedOK, Process, ParentHolds
  <1>5. ChildForked'
    BY OwnFacts, ProcExecAssumption DEF ExecInv, ReadEof, Succeeds, Advance, Close,
       FlagGoes, Open, ExecTypeOK, Process, ChildForked, NotForked
  <1>6. ChildHolds'
    BY OwnFacts, ProcExecAssumption DEF ExecInv, ReadEof, Succeeds, Advance, Close,
       FlagGoes, Open, ExecTypeOK, Process, ChildHolds
  <1> QED
    BY <1>1, <1>2, <1>3, <1>4, <1>5, <1>6 DEF ExecInv

\* The read is interrupted.
LEMMA ReadInterruptedStep ==
  ASSUME ExecInv, NEW t \in Starters, ReadInterrupted(t)
  PROVE  ExecInv'
  <1>1. (ExecTypeOK /\ ExecReported /\ PipedOK /\ ToldOK /\ Pending)'
    BY DEF ExecInv, ReadInterrupted, Succeeds, Advance, Close, FlagGoes, ExecTypeOK,
       ExecReported, PipedOK, ToldOK, Pending
  <1>2. NoDescriptorLeaks'
    BY OwnFacts, ProcExecAssumption DEF ExecInv, ReadInterrupted, Succeeds, Advance,
       Close, FlagGoes, ExecTypeOK, ParentHolds, Process, NoDescriptorLeaks
  <1>3. ParentHolds'
    BY OwnFacts, NextStream, ProcExecAssumption DEF ExecInv, ReadInterrupted,
       Succeeds, Advance, Close, FlagGoes, ExecTypeOK, PipedOK, Process, ParentHolds
  <1>4. ChildForked'
    BY OwnFacts, ProcExecAssumption DEF ExecInv, ReadInterrupted, Succeeds, Advance,
       Close, FlagGoes, ExecTypeOK, Process, ChildForked, NotForked
  <1>5. ChildHolds'
    BY OwnFacts, ProcExecAssumption DEF ExecInv, ReadInterrupted, Succeeds, Advance,
       Close, FlagGoes, ExecTypeOK, Process, ChildHolds
  <1> QED
    BY <1>1, <1>2, <1>3, <1>4, <1>5 DEF ExecInv

\* The child closes what only the parent needs.
LEMMA ChildSetsUpStep ==
  ASSUME ExecInv, NEW t \in Starters, ChildSetsUp(t)
  PROVE  ExecInv'
  <1>1. (NoDescriptorLeaks /\ ExecReported /\ PipedOK
        /\ ChildForked /\ ToldOK /\ Pending)'
    BY DEF ExecInv, ChildSetsUp, Becomes, NoDescriptorLeaks, ExecReported,
       PipedOK, ChildForked, ToldOK, Pending
  <1>2. ExecTypeOK'
    BY OwnFacts, ProcExecAssumption DEF ExecInv, ChildSetsUp, Becomes,
       NotForChild, ChildHolds, Process, ExecTypeOK
  <1>3. ParentHolds'
    BY OwnFacts, ProcExecAssumption DEF ExecInv, ChildSetsUp, Becomes,
       NotForChild, ExecTypeOK, Process, ParentHolds
  <1>4. ChildHolds'
    BY OwnFacts, ProcExecAssumption DEF ExecInv, ChildSetsUp, Becomes,
       NotForChild, ExecTypeOK, Process, ChildHolds
  <1> QED
    BY <1>1, <1>2, <1>3, <1>4 DEF ExecInv

\* The child leaves without a word.
LEMMA ChildRejectedStep ==
  ASSUME ExecInv, NEW t \in Starters, ChildRejected(t)
  PROVE  ExecInv'
  <1>1. (ExecReported /\ PipedOK /\ ChildForked /\ ToldOK /\ Pending)'
    BY DEF ExecInv, ChildRejected, Becomes, ExecReported, PipedOK, ChildForked,
       ToldOK, Pending
  <1>2. ExecTypeOK'
    BY DEF ExecInv, ChildRejected, Becomes, Exits, Close, FlagGoes, ExecTypeOK
  <1>3. NoDescriptorLeaks'
    BY ProcExecAssumption DEF ExecInv, ChildRejected, Becomes, Exits, Close,
       FlagGoes, ExecTypeOK, Process, NoDescriptorLeaks
  <1>4. ParentHolds'
    BY OwnFacts, ProcExecAssumption DEF ExecInv, ChildRejected, Becomes, Exits,
       Close, FlagGoes, ExecTypeOK, Process, ParentHolds
  <1>5. ChildHolds'
    BY OwnFacts, ProcExecAssumption DEF ExecInv, ChildRejected, Becomes, Exits,
       Close, FlagGoes, ExecTypeOK, Process, ChildHolds
  <1> QED
    BY <1>1, <1>2, <1>3, <1>4, <1>5 DEF ExecInv

\* The parent still has the read end, so the code reaches it.
LEMMA ChildReportsStep ==
  ASSUME ExecInv, NEW t \in Starters, ChildReports(t)
  PROVE  ExecInv'
  <1>1. (ExecTypeOK /\ NoDescriptorLeaks /\ ExecReported /\ PipedOK
        /\ ParentHolds /\ ChildForked /\ ChildHolds /\ Pending)'
    BY DEF ExecInv, ChildReports, Becomes, ExecTypeOK, NoDescriptorLeaks,
       ExecReported, PipedOK, ParentHolds, ChildForked, ChildHolds, Pending
  <1>2. ToldOK'
    BY ProcExecAssumption DEF ExecInv, ChildReports, Becomes, Open, ExecTypeOK,
       ParentHolds, Process, ToldOK
  <1> QED
    BY <1>1, <1>2 DEF ExecInv

\* The child that has reported exits.
LEMMA ChildFailsStep ==
  ASSUME ExecInv, NEW t \in Starters, ChildFails(t)
  PROVE  ExecInv'
  <1>1. (ExecReported /\ PipedOK /\ ChildForked /\ ToldOK /\ Pending)'
    BY DEF ExecInv, ChildFails, Becomes, ExecReported, PipedOK, ChildForked,
       ToldOK, Pending
  <1>2. ExecTypeOK'
    BY DEF ExecInv, ChildFails, Becomes, Exits, Close, FlagGoes, ExecTypeOK
  <1>3. NoDescriptorLeaks'
    BY ProcExecAssumption DEF ExecInv, ChildFails, Becomes, Exits, Close,
       FlagGoes, ExecTypeOK, Process, NoDescriptorLeaks
  <1>4. ParentHolds'
    BY OwnFacts, ProcExecAssumption DEF ExecInv, ChildFails, Becomes, Exits,
       Close, FlagGoes, ExecTypeOK, Process, ParentHolds
  <1>5. ChildHolds'
    BY OwnFacts, ProcExecAssumption DEF ExecInv, ChildFails, Becomes, Exits,
       Close, FlagGoes, ExecTypeOK, Process, ChildHolds
  <1> QED
    BY <1>1, <1>2, <1>3, <1>4, <1>5 DEF ExecInv

\* The program takes over.
LEMMA ChildExecsStep ==
  ASSUME ExecInv, NEW t \in Starters, ChildExecs(t)
  PROVE  ExecInv'
  <1>1. (ExecReported /\ PipedOK /\ ChildForked /\ ToldOK /\ Pending)'
    BY DEF ExecInv, ChildExecs, Becomes, ExecReported, PipedOK, ChildForked,
       ToldOK, Pending
  <1>2. ExecTypeOK'
    BY DEF ExecInv, ChildExecs, Becomes, Close, FlagGoes, ExecTypeOK
  <1>3. NoDescriptorLeaks'
    BY ProcExecAssumption DEF ExecInv, ChildExecs, Becomes, Close, FlagGoes,
       ExecTypeOK, Process, NoDescriptorLeaks
  <1>4. ParentHolds'
    BY OwnFacts, ProcExecAssumption DEF ExecInv, ChildExecs, Becomes, Close,
       FlagGoes, ExecTypeOK, Process, ParentHolds
  <1>5. ChildHolds'
    BY OwnFacts, ProcExecAssumption DEF ExecInv, ChildExecs, Becomes, Close,
       FlagGoes, ExecTypeOK, Process, ChildHolds
  <1> QED
    BY <1>1, <1>2, <1>3, <1>4, <1>5 DEF ExecInv

\* The program ends.
LEMMA ProgramEndsStep ==
  ASSUME ExecInv, NEW t \in Starters, ProgramEnds(t)
  PROVE  ExecInv'
  <1>1. (ExecReported /\ PipedOK /\ ChildForked /\ ToldOK /\ Pending)'
    BY DEF ExecInv, ProgramEnds, Becomes, ExecReported, PipedOK, ChildForked,
       ToldOK, Pending
  <1>2. ExecTypeOK'
    BY DEF ExecInv, ProgramEnds, Becomes, Exits, Close, FlagGoes, ExecTypeOK
  <1>3. NoDescriptorLeaks'
    BY ProcExecAssumption DEF ExecInv, ProgramEnds, Becomes, Exits, Close,
       FlagGoes, ExecTypeOK, Process, NoDescriptorLeaks
  <1>4. ParentHolds'
    BY OwnFacts, ProcExecAssumption DEF ExecInv, ProgramEnds, Becomes, Exits,
       Close, FlagGoes, ExecTypeOK, Process, ParentHolds
  <1>5. ChildHolds'
    BY OwnFacts, ProcExecAssumption DEF ExecInv, ProgramEnds, Becomes, Exits,
       Close, FlagGoes, ExecTypeOK, Process, ChildHolds
  <1> QED
    BY <1>1, <1>2, <1>3, <1>4, <1>5 DEF ExecInv

\* A call that fails closes all it has.
LEMMA FailsStep ==
  ASSUME ExecInv, NEW t \in Starters, NEW from \in {"pipe", "mark", "status", "fork"}, Fails(t, from)
  PROVE  ExecInv'
  <1>1. (PipedOK /\ ToldOK)'
    BY DEF ExecInv, Fails, Advance, PipedOK, ToldOK
  <1>2. (ExecTypeOK /\ Pending)'
    BY DEF ExecInv, Fails, Advance, Close, FlagGoes, CloseAll, ExecTypeOK, Pending
  <1>3. NoDescriptorLeaks'
    BY OwnFacts, ProcExecAssumption DEF ExecInv, Fails, Advance, Close, FlagGoes,
       CloseAll, ExecTypeOK, Process, NoDescriptorLeaks
  <1>4. ExecReported'
    BY OwnFacts, ProcExecAssumption DEF ExecInv, Fails, Advance, Close, FlagGoes,
       CloseAll, ExecTypeOK, Process, ChildForked, NotForked, ExecReported
  <1>5. ParentHolds'
    BY OwnFacts, NextStream, ProcExecAssumption DEF ExecInv, Fails, Advance, Close,
       FlagGoes, CloseAll, ExecTypeOK, PipedOK, Process, ParentHolds
  <1>6. ChildForked'
    BY OwnFacts, ProcExecAssumption DEF ExecInv, Fails, Advance, Close, FlagGoes,
       CloseAll, ExecTypeOK, Process, ChildForked, NotForked
  <1>7. ChildHolds'
    BY OwnFacts, ProcExecAssumption DEF ExecInv, Fails, Advance, Close, FlagGoes,
       CloseAll, ExecTypeOK, Process, ChildHolds
  <1> QED
    BY <1>1, <1>2, <1>3, <1>4, <1>5, <1>6, <1>7 DEF ExecInv

\* The application closes a file.
LEMMA CloseFileStep ==
  ASSUME ExecInv, NEW t \in Starters, NEW s \in Stream, CloseFile(t, s)
  PROVE  ExecInv'
  <1>1. (ExecReported /\ PipedOK /\ ChildForked /\ ToldOK /\ Pending)'
    BY DEF ExecInv, CloseFile, ExecReported, PipedOK, ChildForked, ToldOK,
       Pending
  <1>2. (ExecTypeOK /\ NoDescriptorLeaks)'
    BY DEF ExecInv, CloseFile, Close, FlagGoes, ExecTypeOK, NoDescriptorLeaks
  <1>3. ParentHolds'
    BY OwnFacts, NextStream, ProcExecAssumption DEF ExecInv, CloseFile, Close,
       FlagGoes, ExecTypeOK, PipedOK, Pending, Process, ParentHolds
  <1>4. ChildHolds'
    BY OwnFacts, ProcExecAssumption DEF ExecInv, CloseFile, Close, FlagGoes,
       ExecTypeOK, Process, ChildHolds
  <1> QED
    BY <1>1, <1>2, <1>3, <1>4 DEF ExecInv

-----------------------------------------------------------------------------
\* A step in which nothing changes.
LEMMA StutterStep == ExecInv /\ UNCHANGED procVars => ExecInv'
  BY DEF procVars, ExecInv, ExecTypeOK, NoDescriptorLeaks, ExecReported, PipedOK,
     ParentHolds, ChildForked, ChildHolds, ToldOK, Pending

\* Every step of the system preserves the invariant.
LEMMA ExecInvInductive == ExecInv /\ [ExecNext]_procVars => ExecInv'
  <1> SUFFICES ASSUME ExecInv, [ExecNext]_procVars PROVE ExecInv'
    OBVIOUS
  <1>1. CASE UNCHANGED procVars
    BY <1>1, StutterStep
  <1>2. ASSUME NEW t \in Starters, ThreadStep(t) PROVE ExecInv'
    BY <1>2, StartCallStep, MakePipeStep, MarkPipeStep, MakeStatusPipeStep,
       ForkStep, ReleaseChildEndsStep, ReadErrorStep, ReadEofStep,
       ReadInterruptedStep, FailsStep DEF ThreadStep
  <1>3. ASSUME NEW t \in Starters, ChildStep(t) PROVE ExecInv'
    BY <1>3, ChildSetsUpStep, ChildRejectedStep, ChildReportsStep,
       ChildFailsStep, ChildExecsStep DEF ChildStep
  <1>4. ASSUME NEW t \in Starters, ProgramEnds(t) \/ ClosesFile(t) PROVE ExecInv'
    BY <1>4, ProgramEndsStep, CloseFileStep DEF ClosesFile
  <1> QED
    BY <1>1, <1>2, <1>3, <1>4 DEF ExecNext

\* The invariant holds in every reachable state, whatever the number of threads
\* that call pcl_proc_exec at once.
THEOREM ExecInvariant == ExecSpec => []ExecInv
  <1>1. ExecInit => ExecInv
    BY InitExecInv
  <1>2. ExecInv /\ [ExecNext]_procVars => ExecInv'
    BY ExecInvInductive
  <1> QED
    BY <1>1, <1>2, PTL DEF ExecSpec

\* Every variable has its type; only open descriptors have FD_CLOEXEC.
THEOREM ExecTypes == ExecSpec => []ExecTypeOK
  <1>1. ExecInv => ExecTypeOK
    BY DEF ExecInv
  <1> QED
    BY <1>1, ExecInvariant, PTL

\* Whichever pipe, fcntl or fork fails, in whatever order the threads run, no
\* call leaves a descriptor in the parent but the files it returns.
THEOREM ExecNoLeaks == ExecSpec => []NoDescriptorLeaks
  <1>1. ExecInv => NoDescriptorLeaks
    BY DEF ExecInv
  <1> QED
    BY <1>1, ExecInvariant, PTL

\* What a call returns is true of its child, whatever descriptors the children
\* of other threads have inherited.
THEOREM ExecReports == ExecSpec => []ExecReported
  <1>1. ExecInv => ExecReported
    BY DEF ExecInv
  <1> QED
    BY <1>1, ExecInvariant, PTL

-----------------------------------------------------------------------------
(* Cutting a command line into words.  The texts of a list of words are    *)
(* known from the last word on; of the word that is being read it is known *)
(* what has been read, and what was written behind it.                     *)

\* W is the texts from each word on, of the last k words at least.
WrittenBelow(W, list, end, k) ==
  /\ W = [i \in 1 .. Len(list) + 1 |-> W[i]]
  /\ W[Len(list) + 1] = {end}
  /\ \A i \in Len(list) + 1 - k .. Len(list) : W[i] = Write(list[i], W[i + 1])
\* W is the texts from each word on.
WrittenBy(W, list, end) ==
  W = [i \in 1 .. Len(list) + 1 |-> IF i > Len(list) THEN {end} ELSE Write(list[i], W[i + 1])]

\* The texts of a list of words are defined by their recursion: some function
\* satisfies it, built from the last word on.
LEMMA WritingExists ==
  ASSUME NEW X, NEW list \in Seq(X), NEW end
  PROVE  \E W : WrittenBy(W, list, end)
<1> DEFINE n == Len(list)
           S == {k \in Nat : k <= n => \E W : WrittenBelow(W, list, end, k)}
<1>1. n \in Nat
  OBVIOUS
<1>2. 0 \in S
  <2>1. WrittenBelow([i \in 1 .. n + 1 |-> {end}], list, end, 0)
    BY <1>1 DEF WrittenBelow
  <2> QED
    BY <2>1
<1>3. ASSUME NEW k \in Nat, k \in S
      PROVE  k + 1 \in S
  <2> SUFFICES ASSUME k + 1 <= n
               PROVE  \E W : WrittenBelow(W, list, end, k + 1)
    OBVIOUS
  <2>1. PICK W : WrittenBelow(W, list, end, k)
    BY <1>1, <1>3
  <2> DEFINE m == n - k
             V == [i \in 1 .. n + 1 |-> IF i = m THEN Write(list[m], W[m + 1]) ELSE W[i]]
  <2>2. m \in 1 .. n
    BY <1>1
  <2>3. V = [i \in 1 .. n + 1 |-> V[i]]
    OBVIOUS
  <2>4. V[n + 1] = {end}
    <3>1. W[n + 1] = {end}
      BY ONLY <2>1 DEF WrittenBelow
    <3>2. n + 1 \in 1 .. n + 1 /\ n + 1 # m
      BY ONLY <1>1, <2>2
    <3>3. V[n + 1] = W[n + 1]
      BY ONLY <3>2
    <3> QED
      BY ONLY <3>1, <3>3
  <2>5. ASSUME NEW i \in n + 1 - (k + 1) .. n
        PROVE  V[i] = Write(list[i], V[i + 1])
    <3>1. i \in 1 .. n /\ i + 1 \in 1 .. n + 1 /\ i + 1 # m /\ (i # m => i \in n + 1 - k .. n)
      BY <1>1, <2>2
    <3>2. V[i + 1] = W[i + 1]
      BY ONLY <3>1
    <3>3. CASE i = m
      BY ONLY <3>1, <3>2, <3>3
    <3>4. CASE i # m
      <4>1. W[i] = Write(list[i], W[i + 1])
        BY <2>1, <3>1, <3>4 DEF WrittenBelow
      <4>2. V[i] = W[i]
        BY ONLY <3>1, <3>4
      <4> QED
        BY ONLY <3>2, <4>1, <4>2
    <3> QED
      BY ONLY <3>3, <3>4
  <2> HIDE DEF V
  <2> QED
    BY ONLY <2>3, <2>4, <2>5 DEF WrittenBelow
<1> HIDE DEF S
<1>4. n \in S
  BY ONLY <1>1, <1>2, <1>3, NatInductionOn
<1>5. PICK W : WrittenBelow(W, list, end, n)
  BY <1>1, <1>4 DEF S
<1>6. WrittenBy(W, list, end)
  <2>1. \A i \in 1 .. n + 1 : W[i] = IF i > n THEN {end} ELSE Write(list[i], W[i + 1])
    <3>1. W[n + 1] = {end} /\ \A i \in n + 1 - n .. n : W[i] = Write(list[i], W[i + 1])
      BY ONLY <1>5 DEF WrittenBelow
    <3>2. \A i \in 1 .. n + 1 : i \in n + 1 - n .. n \/ (i = n + 1 /\ i > n)
      BY ONLY <1>1
    <3>3. \A i \in n + 1 - n .. n : ~(i > n)
      BY ONLY <1>1
    <3> QED
      BY ONLY <3>1, <3>2, <3>3
  <2>2. W = [i \in 1 .. n + 1 |-> W[i]]
    BY ONLY <1>5 DEF WrittenBelow
  <2> QED
    BY ONLY <2>1, <2>2 DEF WrittenBy
<1> QED
  BY <1>6

\* The text behind the words, and before each word what writing it adds.
LEMMA TextsStep ==
  ASSUME NEW X, NEW list \in Seq(X), NEW end
  PROVE  /\ TextsFrom(list, end)[Len(list) + 1] = {end}
         /\ \A i \in 1 .. Len(list) :
              TextsFrom(list, end)[i] = Write(list[i], TextsFrom(list, end)[i + 1])
<1>1. PICK V : WrittenBy(V, list, end)
  BY WritingExists
<1>2. PICK W : W = CHOOSE U : WrittenBy(U, list, end)
  OBVIOUS
<1>3. WrittenBy(W, list, end)
  BY ONLY <1>1, <1>2
<1>4. TextsFrom(list, end) = W
  BY ONLY <1>2 DEF TextsFrom, WrittenBy
<1>5. Len(list) \in Nat
  OBVIOUS
<1>6. \A i \in 1 .. Len(list) + 1 : W[i] = IF i > Len(list) THEN {end} ELSE Write(list[i], W[i + 1])
  BY ONLY <1>3 DEF WrittenBy
<1> QED
  BY ONLY <1>4, <1>5, <1>6

-----------------------------------------------------------------------------
(* Sequences. *)

\* What follows the first k characters.
Drop(s, k) == SubSeq(s, k + 1, Len(s))

\* It is shorter by k, and its characters are those k places on.
LEMMA Dropped ==
  ASSUME NEW X, NEW s \in Seq(X), NEW k \in 0 .. Len(s)
  PROVE  /\ Drop(s, k) \in Seq(X) /\ Len(Drop(s, k)) = Len(s) - k
         /\ \A i \in 1 .. Len(s) - k : Drop(s, k)[i] = s[k + i]
<1>1. PICK L \in Nat : L = Len(s)
  OBVIOUS
<1>2. k \in Nat /\ k <= L
  BY <1>1
<1>3. k + 1 \in Int /\ L \in Int /\ \A i \in k + 1 .. L : i \in 1 .. L
  BY ONLY <1>2, L \in Nat
<1>4. \A i \in k + 1 .. L : s[i] \in X
  BY ONLY <1>1, <1>3, s \in Seq(X)
<1>5. /\ Drop(s, k) \in Seq(X) /\ Len(Drop(s, k)) = IF k + 1 <= L THEN L - (k + 1) + 1 ELSE 0
      /\ \A i \in 1 .. L - (k + 1) + 1 : Drop(s, k)[i] = s[k + 1 + i - 1]
  BY ONLY <1>1, <1>3, <1>4, SubSeqProperties DEF Drop
<1>6. /\ (IF k + 1 <= L THEN L - (k + 1) + 1 ELSE 0) = L - k /\ L - (k + 1) + 1 = L - k
      /\ \A i \in 1 .. L - k : k + 1 + i - 1 = k + i
  BY ONLY <1>2, L \in Nat
<1> QED
  BY ONLY <1>1, <1>5, <1>6

\* Behind a beginning is what follows it.
LEMMA DropConcat ==
  ASSUME NEW X, NEW s \in Seq(X), NEW t \in Seq(X), NEW k \in 0 .. Len(s)
  PROVE  /\ Drop(s \o t, k) = Drop(s, k) \o t
         /\ Drop(s, 0) = s /\ Drop(s, Len(s)) = <<>>
<1>1. PICK st, a, b : st = s \o t /\ a = Drop(s, k) /\ b = Drop(st, k)
  OBVIOUS
<1>2. /\ st \in Seq(X) /\ Len(st) = Len(s) + Len(t)
      /\ \A i \in 1 .. Len(s) + Len(t) : st[i] = IF i <= Len(s) THEN s[i] ELSE t[i - Len(s)]
  BY ONLY <1>1, ConcatProperties, s \in Seq(X), t \in Seq(X)
<1>3. Len(s) \in Nat /\ Len(t) \in Nat /\ k \in Nat /\ k <= Len(s)
  OBVIOUS
<1>4. k \in 0 .. Len(st)
  BY ONLY <1>2, <1>3
<1>5. /\ a \in Seq(X) /\ Len(a) = Len(s) - k
      /\ \A i \in 1 .. Len(s) - k : a[i] = s[k + i]
  BY ONLY <1>1, Dropped, s \in Seq(X), k \in 0 .. Len(s)
<1>6. /\ b \in Seq(X) /\ Len(b) = Len(st) - k
      /\ \A i \in 1 .. Len(st) - k : b[i] = st[k + i]
  <2>1. st \in Seq(X) /\ b = Drop(st, k)
    BY ONLY <1>1, <1>2
  <2> HIDE DEF Drop
  <2> QED
    BY ONLY <1>4, <2>1, Dropped
<1>7. PICK c : c = a \o t
  OBVIOUS
<1>8. /\ c \in Seq(X) /\ Len(c) = Len(a) + Len(t)
      /\ \A i \in 1 .. Len(a) + Len(t) : c[i] = IF i <= Len(a) THEN a[i] ELSE t[i - Len(a)]
  BY ONLY <1>5, <1>7, ConcatProperties, t \in Seq(X)
<1>9. Len(b) = Len(c)
  BY ONLY <1>2, <1>3, <1>5, <1>6, <1>8
<1>10. ASSUME NEW i \in 1 .. Len(b) PROVE b[i] = c[i]
  <2>1. i \in Nat /\ i >= 1 /\ i <= Len(s) + Len(t) - k
    BY ONLY <1>2, <1>3, <1>6
  <2>2. k + i \in 1 .. Len(s) + Len(t) /\ i \in 1 .. Len(st) - k /\ i \in 1 .. Len(a) + Len(t)
    BY ONLY <1>2, <1>3, <1>5, <2>1
  <2>3. CASE i <= Len(s) - k
    <3>1. i \in 1 .. Len(s) - k /\ k + i <= Len(s) /\ i <= Len(a)
      BY ONLY <1>3, <1>5, <2>1, <2>3
    <3>2. b[i] = st[k + i] /\ st[k + i] = s[k + i]
      BY ONLY <1>2, <1>6, <2>2, <3>1
    <3>3. c[i] = a[i] /\ a[i] = s[k + i]
      BY ONLY <1>5, <1>8, <2>2, <3>1
    <3> QED
      BY ONLY <3>2, <3>3
  <2>4. CASE ~(i <= Len(s) - k)
    <3>1. ~(k + i <= Len(s)) /\ ~(i <= Len(a)) /\ k + i - Len(s) = i - Len(a)
      BY ONLY <1>3, <1>5, <2>1, <2>4
    <3>2. b[i] = st[k + i] /\ st[k + i] = t[k + i - Len(s)]
      BY ONLY <1>2, <1>6, <2>2, <3>1
    <3>3. c[i] = t[i - Len(a)]
      BY ONLY <1>8, <2>2, <3>1
    <3> QED
      BY ONLY <3>1, <3>2, <3>3
  <2> QED
    BY ONLY <2>3, <2>4
<1>11. b = c
  BY ONLY <1>6, <1>8, <1>9, <1>10, SeqEqual
<1>12. Drop(s, 0) = s
  <2>1. 0 \in 0 .. Len(s)
    BY ONLY <1>3
  <2>2. /\ Drop(s, 0) \in Seq(X) /\ Len(Drop(s, 0)) = Len(s) - 0
        /\ \A i \in 1 .. Len(s) - 0 : Drop(s, 0)[i] = s[0 + i]
    BY ONLY <2>1, Dropped, s \in Seq(X)
  <2>3. Len(s) - 0 = Len(s) /\ \A i \in 1 .. Len(s) : 0 + i = i
    BY ONLY <1>3
  <2> QED
    BY ONLY <2>2, <2>3, SeqEqual, s \in Seq(X)
<1>13. Drop(s, Len(s)) = <<>>
  <2>1. Len(s) \in 0 .. Len(s)
    BY ONLY <1>3
  <2>2. Drop(s, Len(s)) \in Seq(X) /\ Len(Drop(s, Len(s))) = Len(s) - Len(s)
    BY ONLY <2>1, Dropped, s \in Seq(X)
  <2>3. Len(Drop(s, Len(s))) = 0
    BY ONLY <1>3, <2>2
  <2> QED
    BY ONLY <2>2, <2>3, EmptySeq
<1> QED
  BY ONLY <1>1, <1>7, <1>11, <1>12, <1>13

\* Reading on: what was read and the next n characters.
LEMMA ReadOn ==
  ASSUME NEW s \in Seq(Char), NEW k \in 0 .. Len(s), NEW n \in Nat, k + n <= Len(s),
         NEW t \in Seq(Char)
  PROVE  /\ SubSeq(s, 1, k) \o SubSeq(Drop(s, k) \o t, 1, n) = SubSeq(s, 1, k + n)
         /\ Drop(Drop(s, k) \o t, n) = Drop(s, k + n) \o t
<1>1. PICK a : a = Drop(s, k)
  OBVIOUS
<1>2. Len(s) \in Nat /\ k \in Nat /\ k <= Len(s)
  OBVIOUS
<1>3. /\ a \in Seq(Char) /\ Len(a) = Len(s) - k
      /\ \A i \in 1 .. Len(s) - k : a[i] = s[k + i]
  BY ONLY <1>1, Dropped, s \in Seq(Char), k \in 0 .. Len(s)
<1>4. n \in 0 .. Len(a)
  BY ONLY <1>2, <1>3, n \in Nat, k + n <= Len(s)
<1>5. Drop(a \o t, n) = Drop(a, n) \o t
  BY ONLY <1>3, <1>4, DropConcat, t \in Seq(Char)
<1>6. Drop(a, n) = Drop(s, k + n)
  <2>1. k + n \in 0 .. Len(s)
    BY ONLY <1>2, n \in Nat, k + n <= Len(s)
  <2>2. PICK b, c : b = Drop(a, n) /\ c = Drop(s, k + n)
    OBVIOUS
  <2>3. /\ b \in Seq(Char) /\ Len(b) = Len(a) - n
        /\ \A i \in 1 .. Len(a) - n : b[i] = a[n + i]
    BY ONLY <1>3, <1>4, <2>2, Dropped
  <2>4. /\ c \in Seq(Char) /\ Len(c) = Len(s) - (k + n)
        /\ \A i \in 1 .. Len(s) - (k + n) : c[i] = s[(k + n) + i]
    BY ONLY <2>1, <2>2, Dropped, s \in Seq(Char)
  <2>5. Len(b) = Len(c)
    BY ONLY <1>2, <1>3, <2>3, <2>4, n \in Nat
  <2>6. ASSUME NEW i \in 1 .. Len(b) PROVE b[i] = c[i]
    <3>1. /\ i \in 1 .. Len(a) - n /\ i \in 1 .. Len(s) - (k + n) /\ n + i \in 1 .. Len(s) - k
          /\ k + (n + i) = (k + n) + i
      BY ONLY <1>2, <1>3, <2>3, n \in Nat, i \in 1 .. Len(b)
    <3> QED
      BY ONLY <1>3, <2>3, <2>4, <3>1
  <2> QED
    BY ONLY <2>2, <2>3, <2>4, <2>5, <2>6, SeqEqual
<1>7. SubSeq(a \o t, 1, n) = SubSeq(s, k + 1, k + n)
  <2>1. PICK at, b, c : at = a \o t /\ b = SubSeq(at, 1, n) /\ c = SubSeq(s, k + 1, k + n)
    OBVIOUS
  <2>2. /\ at \in Seq(Char) /\ Len(at) = Len(a) + Len(t)
        /\ \A i \in 1 .. Len(a) + Len(t) : at[i] = IF i <= Len(a) THEN a[i] ELSE t[i - Len(a)]
    BY ONLY <1>3, <2>1, ConcatProperties, t \in Seq(Char)
  <2>3. Len(t) \in Nat /\ Len(a) \in Nat /\ n \in Int /\ k + 1 \in Int /\ k + n \in Int /\ 1 \in Int
    BY ONLY <1>2, <1>3, n \in Nat, t \in Seq(Char)
  <2>4. \A i \in 1 .. n : /\ i \in 1 .. Len(at) /\ i \in 1 .. Len(a) + Len(t) /\ i <= Len(a)
                          /\ i \in 1 .. Len(s) - k /\ k + i \in 1 .. Len(s)
    BY ONLY <1>2, <1>3, <1>4, <2>2, <2>3
  <2>5. \A i \in 1 .. n : at[i] = s[k + i] /\ at[i] \in Char
    BY ONLY <1>3, <2>2, <2>4
  <2>6. /\ b \in Seq(Char) /\ Len(b) = IF 1 <= n THEN n - 1 + 1 ELSE 0
        /\ \A i \in 1 .. n - 1 + 1 : b[i] = at[1 + i - 1]
    <3>1. b = SubSeq(at, 1, n) /\ 1 \in Int /\ n \in Int /\ \A i \in 1 .. n : at[i] \in Char
      BY ONLY <2>1, <2>3, <2>5
    <3> QED
      BY ONLY <3>1, SubSeqProperties
  <2>7. \A i \in k + 1 .. k + n : i \in 1 .. Len(s)
    BY ONLY <1>2, n \in Nat, k + n <= Len(s)
  <2>8. \A i \in k + 1 .. k + n : s[i] \in Char
    BY ONLY <2>7, s \in Seq(Char)
  <2>9. /\ c \in Seq(Char) /\ Len(c) = IF k + 1 <= k + n THEN (k + n) - (k + 1) + 1 ELSE 0
        /\ \A i \in 1 .. (k + n) - (k + 1) + 1 : c[i] = s[(k + 1) + i - 1]
    BY ONLY <2>1, <2>3, <2>8, SubSeqProperties
  <2>10. Len(b) = n /\ Len(c) = n /\ n - 1 + 1 = n /\ (k + n) - (k + 1) + 1 = n
         /\ \A i \in 1 .. n : 1 + i - 1 = i /\ (k + 1) + i - 1 = k + i
    BY ONLY <1>2, <2>6, <2>9, n \in Nat
  <2>11. \A i \in 1 .. Len(b) : b[i] = c[i]
    BY ONLY <2>5, <2>6, <2>9, <2>10
  <2>12. b \in Seq(Char) /\ c \in Seq(Char) /\ Len(b) = Len(c)
    BY ONLY <2>6, <2>9, <2>10
  <2>13. b = c
    BY ONLY <2>11, <2>12, SeqEqual
  <2> QED
    BY ONLY <2>1, <2>13
<1>8. SubSeq(s, 1, k) \o SubSeq(s, k + 1, k + n) = SubSeq(s, 1, k + n)
  <2>1. 1 \in 1 .. Len(s) + 1 /\ k \in 1 - 1 .. Len(s) /\ k + n \in k .. Len(s)
    BY ONLY <1>2, n \in Nat, k + n <= Len(s)
  <2> QED
    BY ONLY <2>1, ConcatAdjacentSubSeq, s \in Seq(Char)
<1> QED
  BY ONLY <1>1, <1>5, <1>6, <1>7, <1>8

-----------------------------------------------------------------------------
(* Words. *)

\* The characters that matter are different ones.
LEMMA Chars ==
  /\ Space \in Char /\ Quote \in Char /\ Backslash \in Char
  /\ Space # Quote /\ Space # Backslash /\ Quote # Backslash
  /\ Blank \subseteq Char /\ Space \in Blank /\ Quote \notin Blank
  /\ <<Space>> \in Seq(Char) /\ <<Quote>> \in Seq(Char)
BY DEF Char, Space, Newline, Blank, Quote, Backslash

\* One character of a word that is no escaped one: it is not the end of the
\* word, and the next one to be read is none either.
LEMMA ScanStep ==
  ASSUME NEW w \in Seq(Char), NEW escaped, NEW q \in BOOLEAN, Scans(w, escaped, q),
         NEW k \in 0 .. Len(w), k < Len(w), k + 1 \notin escaped
  PROVE  /\ w[k + 1] # Quote /\ (q \/ w[k + 1] # Space) /\ w[k + 1] \in Char
         /\ w[k + 1] # Backslash /\ k + 1 < Len(w) => k + 2 \notin escaped
         /\ w[k + 1] = Backslash => k + 2 <= Len(w) /\ (k + 2 < Len(w) => k + 3 \notin escaped)
<1>1. /\ Len(w) \in Nat /\ k \in Nat /\ k + 1 \in DOMAIN w
      /\ k + 1 < Len(w) => k + 2 \in DOMAIN w
      /\ k + 2 < Len(w) => k + 3 \in DOMAIN w
      /\ (k + 2) - 1 = k + 1 /\ (k + 3) - 1 = k + 2 /\ k + 2 > 1 /\ k + 3 > 1
  OBVIOUS
<1>2. /\ w[k + 1] # Quote /\ (q \/ w[k + 1] # Space)
      /\ w[k + 1] = Backslash => k + 1 < Len(w)
  BY ONLY <1>1, Scans(w, escaped, q), k + 1 \notin escaped DEF Scans
<1>3. \A i \in DOMAIN w : i \in escaped <=> i > 1 /\ w[i - 1] = Backslash /\ i - 1 \notin escaped
  BY ONLY Scans(w, escaped, q) DEF Scans, Escapes
<1>4. w[k + 1] # Backslash /\ k + 1 < Len(w) => k + 2 \notin escaped
  BY ONLY <1>1, <1>3
<1>5. w[k + 1] = Backslash => k + 2 \in escaped /\ k + 1 < Len(w)
  BY ONLY <1>1, <1>2, <1>3, k + 1 \notin escaped
<1>6. w[k + 1] = Backslash => k + 2 <= Len(w) /\ (k + 2 < Len(w) => k + 3 \notin escaped)
  <2>1. ASSUME w[k + 1] = Backslash, k + 2 < Len(w) PROVE k + 3 \notin escaped
    <3>1. k + 2 \in escaped /\ k + 3 \in DOMAIN w
      BY ONLY <1>1, <1>5, <2>1
    <3>2. k + 3 \in escaped => (k + 3) - 1 \notin escaped
      BY ONLY <1>3, <3>1
    <3>3. (k + 3) - 1 = k + 2
      BY ONLY <1>1
    <3> QED
      BY ONLY <3>1, <3>2, <3>3
  <2>2. k + 1 < Len(w) => k + 2 <= Len(w)
    BY ONLY <1>1
  <2> QED
    BY ONLY <1>5, <2>1, <2>2
<1>7. w[k + 1] \in Char
  BY ONLY <1>1, w \in Seq(Char)
<1> QED
  BY ONLY <1>2, <1>4, <1>6, <1>7

\* The blanks that are skipped: all characters before the first other one.
LEMMA SkipTo ==
  ASSUME NEW s \in Seq(Char), NEW m \in 0 .. Len(s), \A i \in 1 .. m : s[i] \in Blank,
         m < Len(s) => s[m + 1] \notin Blank
  PROVE  SkipBlanks(s) = Drop(s, m)
<1> DEFINE I == {i \in 1 .. Len(s) : s[i] \notin Blank}
<1>1. Len(s) \in Nat /\ m \in Nat /\ m <= Len(s)
  OBVIOUS
<1>2. SkipBlanks(s) = LET i == IF I # {} THEN CHOOSE x \in I : \A y \in I : x =< y ELSE 0
                      IN IF i = 0 THEN <<>> ELSE SubSeq(s, i, Len(s))
  BY DEF SkipBlanks, SelectInSeq, Min
<1>3. CASE m = Len(s)
  <2>1. I = {}
    BY <1>3
  <2>2. Drop(s, m) = <<>>
    BY ONLY <1>1, <1>3, DropConcat, s \in Seq(Char), m \in 0 .. Len(s)
  <2> HIDE DEF I
  <2> QED
    BY ONLY <1>2, <2>1, <2>2
<1>4. CASE m # Len(s)
  <2>1. m < Len(s) /\ m + 1 \in 1 .. Len(s)
    BY ONLY <1>1, <1>4
  <2>2. m + 1 \in I
    BY ONLY <2>1, m < Len(s) => s[m + 1] \notin Blank
  <2>3. \A y \in I : y \in Int /\ m + 1 =< y
    <3> TAKE y \in I
    <3>1. y \in Int /\ ~(y \in 1 .. m) /\ y >= 1
      OBVIOUS
    <3> QED
      BY ONLY <1>1, <3>1
  <2>4. \A x \in I : (\A y \in I : x =< y) => x = m + 1
    <3> TAKE x \in I
    <3>1. HAVE \A y \in I : x =< y
    <3>2. x \in Int /\ m + 1 =< x /\ x =< m + 1
      BY ONLY <2>2, <2>3, <3>1, x \in I
    <3> QED
      BY ONLY <1>1, <3>2
  <2> HIDE DEF I
  <2>5. (CHOOSE x \in I : \A y \in I : x =< y) = m + 1
    BY ONLY <2>2, <2>3, <2>4
  <2>6. I # {} /\ m + 1 # 0
    BY ONLY <1>1, <2>2
  <2> QED
    BY ONLY <1>2, <2>5, <2>6 DEF Drop
<1> QED
  BY ONLY <1>3, <1>4

\* What may be between two words.
Apart == Seq(Blank)

\* It is blanks only, and stays so without its first one.
LEMMA ApartShape ==
  ASSUME NEW p \in Apart
  PROVE  /\ p \in Seq(Char) /\ \A i \in 1 .. Len(p) : p[i] \in Blank
         /\ p # <<>> => Tail(p) \in Apart
<1>1. p \in Seq(Blank) /\ Blank \subseteq Char
  BY Chars DEF Apart
<1>2. \A i \in 1 .. Len(p) : p[i] \in Blank /\ p[i] \in Char
  BY ONLY <1>1
<1>3. p \in Seq(Char)
  BY ONLY <1>1, <1>2
<1>4. p # <<>> => Tail(p) \in Seq(Blank)
  BY ONLY <1>1, HeadTailProperties
<1> QED
  BY ONLY <1>2, <1>3, <1>4 DEF Apart

\* What follows blanks, if it begins with no other one.
LEMMA Skipped ==
  ASSUME NEW p \in Apart, NEW t \in Seq(Char), t = <<>> \/ t[1] \notin Blank
  PROVE  SkipBlanks(p \o t) = t
<1>1. p \in Seq(Char) /\ \A i \in 1 .. Len(p) : p[i] \in Blank
  BY ApartShape
<1>2. PICK s, m : s = p \o t /\ m = Len(p)
  OBVIOUS
<1>3. /\ s \in Seq(Char) /\ Len(s) = m + Len(t)
      /\ \A i \in 1 .. m + Len(t) : s[i] = IF i <= m THEN p[i] ELSE t[i - m]
  BY ONLY <1>1, <1>2, ConcatProperties, t \in Seq(Char)
<1>4. m \in Nat /\ Len(t) \in Nat /\ (t # <<>> => Len(t) > 0) /\ (t = <<>> => Len(t) = 0)
  BY ONLY <1>1, <1>2, t \in Seq(Char), EmptySeq
<1>5. m \in 0 .. Len(s) /\ \A i \in 1 .. m : i \in 1 .. m + Len(t) /\ i <= m
  BY ONLY <1>3, <1>4
<1>6. \A i \in 1 .. m : s[i] \in Blank
  BY ONLY <1>1, <1>2, <1>3, <1>5
<1>7. m < Len(s) => s[m + 1] \notin Blank
  <2>1. HAVE m < Len(s)
  <2>2. m + 1 \in 1 .. m + Len(t) /\ ~(m + 1 <= m) /\ m + 1 - m = 1 /\ t # <<>>
    BY ONLY <1>3, <1>4, <2>1
  <2>3. s[m + 1] = IF m + 1 <= m THEN p[m + 1] ELSE t[m + 1 - m]
    <3>1. PICK j \in 1 .. m + Len(t) : j = m + 1
      BY ONLY <2>2
    <3>2. s[j] = IF j <= m THEN p[j] ELSE t[j - m]
      BY ONLY <1>3, j \in 1 .. m + Len(t)
    <3> QED
      BY ONLY <1>4, <3>1, <3>2
  <2>4. s[m + 1] = t[1]
    BY ONLY <2>2, <2>3
  <2> QED
    BY ONLY <2>2, <2>4, t = <<>> \/ t[1] \notin Blank
<1>8. SkipBlanks(s) = Drop(s, m)
  BY ONLY <1>3, <1>5, <1>6, <1>7, SkipTo
<1>9. Drop(s, m) = <<>> \o t
  <2>1. Len(p) \in 0 .. Len(p)
    BY ONLY <1>2, <1>4
  <2>2. Drop(p \o t, Len(p)) = Drop(p, Len(p)) \o t /\ Drop(p, Len(p)) = <<>>
    BY ONLY <1>1, <2>1, DropConcat, t \in Seq(Char)
  <2> QED
    BY ONLY <1>2, <2>2
<1>10. <<>> \o t = t
  BY ONLY ConcatEmptySeq, t \in Seq(Char)
<1> QED
  BY ONLY <1>2, <1>8, <1>9, <1>10

\* A character before a text is its head, the text its tail.
LEMMA HeadOn ==
  ASSUME NEW c \in Char, NEW t \in Seq(Char)
  PROVE  LET s == <<c>> \o t
         IN s \in Seq(Char) /\ s # <<>> /\ s[1] = c /\ Head(s) = c /\ Tail(s) = t
<1>1. PICK a, s : a = <<c>> /\ s = a \o t
  OBVIOUS
<1>2. a \in Seq(Char) /\ Len(a) = 1 /\ a[1] = c
  BY ONLY <1>1, c \in Char
<1>3. /\ s \in Seq(Char) /\ Len(s) = 1 + Len(t)
      /\ \A i \in 1 .. 1 + Len(t) : s[i] = IF i <= 1 THEN a[i] ELSE t[i - 1]
  BY ONLY <1>1, <1>2, ConcatProperties, t \in Seq(Char)
<1>4. Len(t) \in Nat /\ 1 \in 1 .. 1 + Len(t) /\ Len(s) # 0
  BY ONLY <1>3, t \in Seq(Char)
<1>5. s[1] = c /\ s # <<>>
  BY ONLY <1>2, <1>3, <1>4, EmptySeq
<1>6. Head(s) = s[1]
  BY ONLY <1>3, <1>5
<1>7. Tail(s) = t
  <2>1. /\ Tail(s) \in Seq(Char) /\ Len(Tail(s)) = Len(s) - 1
        /\ \A i \in 1 .. Len(Tail(s)) : Tail(s)[i] = s[i + 1]
    BY ONLY <1>3, <1>5, HeadTailProperties
  <2>2. Len(Tail(s)) = Len(t)
    BY ONLY <1>3, <1>4, <2>1
  <2>3. \A i \in 1 .. Len(t) : i + 1 \in 1 .. 1 + Len(t) /\ ~(i + 1 <= 1) /\ (i + 1) - 1 = i
    BY ONLY <1>4
  <2>4. \A i \in 1 .. Len(Tail(s)) : Tail(s)[i] = t[i]
    BY ONLY <1>3, <2>1, <2>2, <2>3
  <2> QED
    BY ONLY <2>1, <2>2, <2>4, SeqEqual, t \in Seq(Char)
<1> QED
  BY ONLY <1>1, <1>3, <1>5, <1>6, <1>7

-----------------------------------------------------------------------------
(* How words are written. *)

\* Behind a bare word is a space first, or nothing at all.
CutBefore(p, after) == IF p = <<>> THEN after = <<>> ELSE p[1] = Space

\* A word before what may follow it, between quotes or bare.
InForm(x, w, after) ==
  \E p \in Apart :
    \/ x = <<Quote>> \o (w \o (<<Quote>> \o (p \o after)))
    \/ Bare(w) /\ x = w \o (p \o after) /\ CutBefore(p, after)

\* Texts may be put together from the left or from the right.
LEMMA Associative ==
  \A s, t, u \in Seq(Char) : (s \o t) \o u = s \o (t \o u)
BY ConcatAssociative

\* The same of the parts a word is written in.
LEMMA Regroup ==
  ASSUME NEW w \in Seq(Char), NEW p \in Seq(Char), NEW a \in Seq(Char)
  PROVE  /\ (InQuotes(w) \o p) \o a = <<Quote>> \o (w \o (<<Quote>> \o (p \o a)))
         /\ (w \o p) \o a = w \o (p \o a)
<1>1. PICK q : q = <<Quote>>
  OBVIOUS
<1>2. q \in Seq(Char)
  BY ONLY <1>1, Chars
<1>3. PICK b, c, d, e :
        /\ b \in Seq(Char) /\ b = q \o w /\ c \in Seq(Char) /\ c = b \o q
        /\ d \in Seq(Char) /\ d = p \o a /\ e \in Seq(Char) /\ e = q \o d
  <2>1. PICK b : b \in Seq(Char) /\ b = q \o w
    BY ONLY <1>2, ConcatProperties, w \in Seq(Char)
  <2>2. PICK c : c \in Seq(Char) /\ c = b \o q
    BY ONLY <1>2, <2>1, ConcatProperties
  <2>3. PICK d : d \in Seq(Char) /\ d = p \o a
    BY ONLY ConcatProperties, p \in Seq(Char), a \in Seq(Char)
  <2>4. PICK e : e \in Seq(Char) /\ e = q \o d
    BY ONLY <1>2, <2>3, ConcatProperties
  <2> QED
    BY ONLY <2>1, <2>2, <2>3, <2>4
<1>4. InQuotes(w) = c
  BY ONLY <1>1, <1>3 DEF InQuotes
<1>5. (c \o p) \o a = c \o d
  <2>1. c \in Seq(Char)
    BY ONLY <1>3
  <2>2. (c \o p) \o a = c \o (p \o a)
    BY ONLY <2>1, Associative, p \in Seq(Char), a \in Seq(Char), Zenon
  <2> QED
    BY ONLY <1>3, <2>2, Zenon
<1>6. (b \o q) \o d = b \o e
  <2>1. b \in Seq(Char)
    BY ONLY <1>3
  <2>2. d \in Seq(Char)
    BY ONLY <1>3
  <2>3. (b \o q) \o d = b \o (q \o d)
    BY ONLY <1>2, <2>1, <2>2, Associative
  <2> QED
    BY ONLY <1>3, <2>3, Zenon
<1>7. (q \o w) \o e = q \o (w \o e)
  <2>1. e \in Seq(Char)
    BY ONLY <1>3
  <2> QED
    BY ONLY <1>2, <2>1, Associative, w \in Seq(Char)
<1>8. (w \o p) \o a = w \o (p \o a)
  BY ONLY Associative, w \in Seq(Char), p \in Seq(Char), a \in Seq(Char)
<1> QED
  BY ONLY <1>1, <1>3, <1>4, <1>5, <1>6, <1>7, <1>8

\* An empty text adds nothing.
LEMMA Empty ==
  /\ <<>> \in Seq(Char)
  /\ \A s \in Seq(Char) : s \o <<>> = s /\ <<>> \o s = s
BY EmptySeq, ConcatEmptySeq

\* A text that is joined of three.
LEMMA JoinedFrom ==
  ASSUME NEW v, NEW G, NEW A, NEW x, x \in {v \o gap \o after : gap \in G, after \in A}
  PROVE  \E gap \in G, after \in A : x = (v \o gap) \o after
OBVIOUS

\* What writing a word gives.
LEMMA WriteShape ==
  ASSUME NEW w \in Seq(Char), NEW afters \in SUBSET Seq(Char), NEW x \in Write(w, afters)
  PROVE  \E after \in afters : InForm(x, w, after)
<1>1. \A gap \in Gaps : gap \in Apart /\ gap # <<>>
  BY WordAssumption DEF Apart
<1>2. PICK e \in Seq(Char) : e = <<>> /\ e \in Apart
  BY Empty, EmptySeq DEF Apart
<1>3. CASE \E gap \in Gaps \cup {<<>>}, after \in afters : x = (InQuotes(w) \o gap) \o after
  <2>1. PICK gap \in Gaps \cup {<<>>}, after \in afters : x = (InQuotes(w) \o gap) \o after
    BY ONLY <1>3
  <2>2. gap \in Apart
    BY ONLY <1>1, <1>2, gap \in Gaps \cup {<<>>}
  <2>3. gap \in Seq(Char) /\ after \in Seq(Char)
    BY ONLY <2>2, ApartShape, after \in afters, afters \in SUBSET Seq(Char)
  <2>4. x = <<Quote>> \o (w \o (<<Quote>> \o (gap \o after)))
    BY ONLY <2>1, <2>3, Regroup, w \in Seq(Char)
  <2> QED
    BY ONLY <2>2, <2>4, after \in afters DEF InForm
<1>4. CASE Bare(w) /\ \E gap \in EndGaps, after \in afters : x = (w \o gap) \o after
  <2>1. PICK gap \in EndGaps, after \in afters : x = (w \o gap) \o after
    BY ONLY <1>4
  <2>2. gap \in Apart /\ gap # <<>> /\ gap[1] = Space
    BY ONLY <1>1, gap \in EndGaps DEF EndGaps
  <2>3. gap \in Seq(Char) /\ after \in Seq(Char)
    BY ONLY <2>2, ApartShape, after \in afters, afters \in SUBSET Seq(Char)
  <2>4. x = w \o (gap \o after)
    BY ONLY <2>1, <2>3, Regroup, w \in Seq(Char)
  <2> QED
    BY ONLY <1>4, <2>2, <2>4, after \in afters DEF InForm, CutBefore
<1>5. CASE Bare(w) /\ <<>> \in afters /\ x = w
  <2>1. e \o e = e /\ w \o e = w
    BY ONLY <1>2, Empty, w \in Seq(Char)
  <2>2. x = w \o (e \o e)
    BY ONLY <1>5, <2>1
  <2> QED
    BY ONLY <1>2, <1>5, <2>2 DEF InForm, CutBefore
<1> DEFINE quoted == {InQuotes(w) \o gap \o after : gap \in Gaps \cup {<<>>}, after \in afters}
           bare == {w \o gap \o after : gap \in EndGaps, after \in afters}
           alone == IF <<>> \in afters THEN {w} ELSE {}
<1>6. Write(w, afters) = quoted \cup (IF ~Bare(w) THEN {} ELSE bare \cup alone)
  BY DEF Write
<1>7. x \in quoted => \E gap \in Gaps \cup {<<>>}, after \in afters : x = (InQuotes(w) \o gap) \o after
  BY ONLY JoinedFrom
<1>8. x \in bare => \E gap \in EndGaps, after \in afters : x = (w \o gap) \o after
  BY ONLY TRUE
<1>9. x \in alone => <<>> \in afters /\ x = w
  BY ONLY TRUE
<1> HIDE DEF quoted, bare, alone
<1>10. x \in quoted \/ (Bare(w) /\ (x \in bare \/ x \in alone))
  BY ONLY <1>6, x \in Write(w, afters)
<1> QED
  BY ONLY <1>3, <1>4, <1>5, <1>7, <1>8, <1>9, <1>10

\* A written word is a text of characters.
LEMMA InFormTyped ==
  ASSUME NEW x, NEW w \in Seq(Char), NEW after \in Seq(Char), InForm(x, w, after)
  PROVE  x \in Seq(Char)
<1>1. PICK p \in Apart :
        \/ x = <<Quote>> \o (w \o (<<Quote>> \o (p \o after)))
        \/ x = w \o (p \o after)
  BY DEF InForm
<1>2. PICK r : r = p \o after
  OBVIOUS
<1>3. r \in Seq(Char)
  <2>1. p \in Seq(Char)
    BY ApartShape
  <2> QED
    BY ONLY <1>2, <2>1, ConcatProperties, after \in Seq(Char)
<1>4. PICK q : q = <<Quote>>
  OBVIOUS
<1>5. q \in Seq(Char)
  BY ONLY <1>4, Chars
<1>6. PICK a \in Seq(Char) : a = q \o r
  BY ONLY <1>3, <1>5, ConcatProperties
<1>7. PICK b \in Seq(Char) : b = w \o a
  BY ONLY w \in Seq(Char), a \in Seq(Char), ConcatProperties
<1>8. q \o b \in Seq(Char) /\ w \o r \in Seq(Char)
  BY ONLY <1>3, <1>5, w \in Seq(Char), b \in Seq(Char), ConcatProperties
<1> QED
  BY ONLY <1>1, <1>2, <1>4, <1>6, <1>7, <1>8

\* An end with nothing wrong is none at all.
IsEnd(end) == end \in Seq(Char) /\ (end = <<>> \/ OpenEnd(end) \/ StrayEnd(end))

\* Texts are made of characters.
LEMMA TextsTyped ==
  ASSUME NEW list \in Seq(Word), NEW end \in Seq(Char)
  PROVE  \A i \in 1 .. Len(list) + 1 : TextsFrom(list, end)[i] \subseteq Seq(Char)
<1> DEFINE n == Len(list)
           T == TextsFrom(list, end)
           S == {k \in Nat : k <= n => T[n + 1 - k] \subseteq Seq(Char)}
<1>1. n \in Nat
  OBVIOUS
<1>2. T[n + 1] = {end} /\ \A i \in 1 .. n : T[i] = Write(list[i], T[i + 1])
  BY TextsStep
<1>3. \A i \in 1 .. n : list[i] \in Seq(Char)
  <2> TAKE i \in 1 .. n
  <2>1. list[i] \in Word
    OBVIOUS
  <2> QED
    BY ONLY <2>1 DEF Word
<1> HIDE DEF n, T
<1>4. 0 \in S
  <2>1. n + 1 - 0 = n + 1
    BY ONLY <1>1
  <2>2. T[n + 1 - 0] \subseteq Seq(Char)
    BY ONLY <1>2, <2>1, end \in Seq(Char)
  <2> QED
    BY ONLY <2>2
<1>5. ASSUME NEW k \in Nat, k \in S
      PROVE  k + 1 \in S
  <2> SUFFICES ASSUME k + 1 <= n
               PROVE  T[n + 1 - (k + 1)] \subseteq Seq(Char)
    OBVIOUS
  <2>1. PICK i \in 1 .. n : i = n + 1 - (k + 1) /\ i + 1 = n + 1 - k /\ k <= n
    <3>1. n + 1 - (k + 1) \in 1 .. n /\ (n + 1 - (k + 1)) + 1 = n + 1 - k /\ k <= n
      BY ONLY <1>1, k \in Nat, k + 1 <= n
    <3> QED
      BY ONLY <3>1
  <2>2. T[i + 1] \in SUBSET Seq(Char)
    BY ONLY <1>5, <2>1
  <2>3. ASSUME NEW x \in T[i] PROVE x \in Seq(Char)
    <3>1. list[i] \in Seq(Char) /\ x \in Write(list[i], T[i + 1])
      BY ONLY <1>2, <1>3, i \in 1 .. n, x \in T[i]
    <3>2. PICK after \in T[i + 1] : InForm(x, list[i], after)
      BY ONLY <2>2, <3>1, WriteShape
    <3>3. after \in Seq(Char)
      BY ONLY <2>2, after \in T[i + 1]
    <3> QED
      BY ONLY <3>1, <3>2, <3>3, InFormTyped
  <2> QED
    BY ONLY <2>1, <2>3
<1> HIDE DEF S
<1>6. \A k \in Nat : k \in S
  BY ONLY <1>4, <1>5, NatInductionOn
<1>7. ASSUME NEW i \in 1 .. n + 1 PROVE T[i] \subseteq Seq(Char)
  <2>1. n + 1 - i \in Nat /\ n + 1 - i <= n /\ n + 1 - (n + 1 - i) = i
    BY ONLY <1>1, i \in 1 .. n + 1
  <2>2. n + 1 - i \in S
    BY ONLY <1>6, <2>1
  <2> QED
    BY ONLY <2>1, <2>2 DEF S
<1> QED
  BY ONLY <1>7 DEF n, T

\* A word that is read from its beginning on has no escaped first character.
LEMMA ScansFirst ==
  ASSUME NEW w \in Seq(Char), w # <<>>, NEW escaped, NEW q \in BOOLEAN, Scans(w, escaped, q)
  PROVE  /\ 1 \notin escaped
         /\ w[1] # Quote /\ (q \/ w[1] # Space)
<1>1. Len(w) \in Nat \ {0} /\ 1 \in DOMAIN w
  BY EmptySeq
<1>2. 1 \notin escaped
  <2>1. ~(1 > 1)
    OBVIOUS
  <2> QED
    BY ONLY <1>1, <2>1, Scans(w, escaped, q) DEF Scans, Escapes
<1> QED
  BY ONLY <1>1, <1>2, Scans(w, escaped, q) DEF Scans

\* What is behind a word that is being read: what was written there, or the
\* quote that is wrong.
Behind(list, end, i, w, rest, quoted) ==
  \/ /\ i \in 1 .. Len(list) /\ w = list[i]
     /\ \E p \in Apart, after \in TextsFrom(list, end)[i + 1] :
          \/ quoted /\ rest = <<Quote>> \o (p \o after)
          \/ ~quoted /\ rest = p \o after /\ CutBefore(p, after)
  \/ i = Len(list) + 1 /\ end = <<>> /\ w = <<>> /\ rest = <<>> /\ ~quoted
  \/ i = Len(list) + 1 /\ end # <<>> /\ quoted /\ rest = <<>>
  \/ i = Len(list) + 1 /\ end # <<>> /\ ~quoted /\ w # <<>> /\ rest # <<>> /\ rest[1] = Quote

\* A text is a word in quotes, a bare one, a quote that is wrong, or nothing.
LEMMA TextCases ==
  ASSUME NEW list \in Seq(Word), NEW end, IsEnd(end), NEW i \in 1 .. Len(list) + 1,
         NEW t \in TextsFrom(list, end)[i]
  PROVE  /\ t \in Seq(Char)
         /\ \/ t = <<>> /\ end = <<>> /\ i = Len(list) + 1
            \/ \E w \in Seq(Char), rest \in Seq(Char) : \E escaped :
                 /\ t = <<Quote>> \o (w \o rest)
                 /\ Scans(w, escaped, TRUE) /\ Behind(list, end, i, w, rest, TRUE)
            \/ \E w \in Seq(Char), rest \in Seq(Char) : \E escaped :
                 /\ w # <<>> /\ w[1] # Newline /\ t = w \o rest
                 /\ Scans(w, escaped, FALSE) /\ Behind(list, end, i, w, rest, FALSE)
<1> DEFINE n == Len(list)
           T == TextsFrom(list, end)
<1>1. end \in Seq(Char) /\ (end = <<>> \/ OpenEnd(end) \/ StrayEnd(end))
  BY DEF IsEnd
<1>2. n \in Nat /\ T[n + 1] = {end} /\ \A j \in 1 .. n : T[j] = Write(list[j], T[j + 1])
  BY TextsStep
<1>3. \A j \in 1 .. n + 1 : T[j] \subseteq Seq(Char)
  BY ONLY <1>1, TextsTyped, list \in Seq(Word)
<1> HIDE DEF n, T
<1>4. t \in Seq(Char) /\ t \in T[i] /\ i \in 1 .. n + 1
  BY ONLY <1>3, t \in TextsFrom(list, end)[i], i \in 1 .. Len(list) + 1 DEF n, T
<1>5. CASE i \in 1 .. n
  <2>1. PICK w : w = list[i]
    OBVIOUS
  <2>2. w \in Word
    BY ONLY <1>5, <2>1, list \in Seq(Word) DEF n
  <2>3. w \in Seq(Char) /\ w # <<>> /\ Readable(w, TRUE)
    BY ONLY <2>2 DEF Word
  <2>4. i + 1 \in 1 .. n + 1
    BY ONLY <1>2, <1>5
  <2>5. T[i + 1] \in SUBSET Seq(Char) /\ t \in Write(w, T[i + 1])
    BY ONLY <1>2, <1>3, <1>4, <1>5, <2>1, <2>4
  <2>6. PICK after \in T[i + 1] : InForm(t, w, after)
    BY ONLY <2>3, <2>5, WriteShape
  <2>7. after \in Seq(Char) /\ after \in TextsFrom(list, end)[i + 1]
    BY ONLY <2>5, after \in T[i + 1] DEF T
  <2>8. PICK p \in Apart :
          \/ t = <<Quote>> \o (w \o (<<Quote>> \o (p \o after)))
          \/ Bare(w) /\ t = w \o (p \o after) /\ CutBefore(p, after)
    BY ONLY <2>6 DEF InForm
  <2>9. p \o after \in Seq(Char)
    <3>1. p \in Seq(Char)
      BY ONLY ApartShape, p \in Apart
    <3> QED
      BY ONLY <2>7, <3>1, ConcatProperties
  <2>10. CASE t = <<Quote>> \o (w \o (<<Quote>> \o (p \o after)))
    <3>1. PICK escaped : Scans(w, escaped, TRUE)
      BY ONLY <2>3 DEF Readable
    <3>2. PICK rest : rest = <<Quote>> \o (p \o after)
      OBVIOUS
    <3>3. rest \in Seq(Char)
      BY ONLY <2>9, <3>2, HeadOn, Chars
    <3>4. Behind(list, end, i, w, rest, TRUE)
      BY ONLY <1>5, <2>1, <2>7, <3>2, p \in Apart DEF Behind, n
    <3> QED
      BY ONLY <1>4, <2>3, <2>10, <3>1, <3>2, <3>3, <3>4
  <2>11. CASE Bare(w) /\ t = w \o (p \o after) /\ CutBefore(p, after)
    <3>1. PICK escaped : w[1] # Newline /\ Scans(w, escaped, FALSE)
      BY ONLY <2>11 DEF Bare, Readable
    <3>2. PICK rest : rest = p \o after
      OBVIOUS
    <3>3. Behind(list, end, i, w, rest, FALSE)
      BY ONLY <1>5, <2>1, <2>7, <2>11, <3>2, p \in Apart DEF Behind, n
    <3> QED
      BY ONLY <1>4, <2>3, <2>9, <2>11, <3>1, <3>2, <3>3
  <2> QED
    BY ONLY <2>8, <2>10, <2>11
<1>6. CASE i = n + 1
  <2>1. t = end
    BY ONLY <1>2, <1>4, <1>6
  <2>2. CASE end = <<>>
    BY ONLY <1>4, <1>6, <2>1, <2>2 DEF n
  <2>3. CASE end # <<>> /\ OpenEnd(end)
    <3>1. PICK w : w = Tail(t)
      OBVIOUS
    <3>2. t # <<>> /\ t[1] = Quote /\ Readable(w, TRUE)
      BY ONLY <2>1, <2>3, <3>1 DEF OpenEnd
    <3>3. w \in Seq(Char)
      BY ONLY <1>4, <3>1, <3>2, HeadTailProperties
    <3>4. t = <<Quote>> \o w
      <4>1. Len(t) \in Nat \ {0} /\ w = SubSeq(t, 2, Len(t)) /\ SubSeq(t, 1, Len(t)) = t
        BY ONLY <1>4, <3>1, <3>2, EmptySeq, TailIsSubSeq, SubSeqFull
      <4>2. 1 \in 1 .. Len(t) /\ Len(t) \in 1 .. Len(t) /\ 1 + 1 = 2
        BY ONLY <4>1
      <4>3. SubSeq(t, 1, Len(t)) = <<t[1]>> \o SubSeq(t, 1 + 1, Len(t))
        BY ONLY <1>4, <4>2, SubSeqRecursiveFirst
      <4> QED
        BY ONLY <3>2, <4>1, <4>2, <4>3
    <3>5. PICK rest \in Seq(Char) : rest = <<>>
      BY Empty
    <3>6. w \o rest = w
      BY ONLY <3>3, <3>5, Empty
    <3>7. PICK escaped : Scans(w, escaped, TRUE)
      BY ONLY <3>2 DEF Readable
    <3>8. Behind(list, end, i, w, rest, TRUE)
      BY ONLY <1>6, <2>3, <3>5 DEF Behind, n
    <3> QED
      BY ONLY <1>4, <3>3, <3>4, <3>6, <3>7, <3>8, rest \in Seq(Char)
  <2>4. CASE end # <<>> /\ StrayEnd(end)
    <3>1. PICK k \in 2 .. Len(t) : t[k] = Quote /\ Bare(SubSeq(t, 1, k - 1))
      BY ONLY <2>1, <2>4 DEF StrayEnd
    <3>2. PICK w, rest : w = SubSeq(t, 1, k - 1) /\ rest = Drop(t, k - 1)
      OBVIOUS
    <3>3. /\ Len(t) \in Nat /\ k \in Nat /\ k <= Len(t) /\ k - 1 \in Nat /\ k - 1 >= 1
          /\ k - 1 \in 0 .. Len(t) /\ (k - 1) + 1 = k
      BY ONLY <1>4, k \in 2 .. Len(t)
    <3>4. /\ rest \in Seq(Char) /\ Len(rest) = Len(t) - (k - 1)
          /\ \A j \in 1 .. Len(t) - (k - 1) : rest[j] = t[(k - 1) + j]
      <4>1. rest = Drop(t, k - 1)
        BY ONLY <3>2
      <4> QED
        BY ONLY <1>4, <3>3, <4>1, Dropped
    <3>5. rest # <<>> /\ rest[1] = Quote
      <4>1. 1 \in 1 .. Len(t) - (k - 1) /\ Len(rest) # 0
        BY ONLY <3>3, <3>4
      <4>2. rest[1] = t[(k - 1) + 1]
        BY ONLY <3>4, <4>1
      <4> QED
        BY ONLY <3>1, <3>3, <4>1, <4>2, EmptySeq
    <3>6. w \in Seq(Char) /\ Len(w) = k - 1
      <4>1. \A j \in 1 .. k - 1 : j \in 1 .. Len(t)
        BY ONLY <3>3
      <4>2. \A j \in 1 .. k - 1 : t[j] \in Char
        BY ONLY <1>4, <4>1
      <4>3. 1 \in Int /\ k - 1 \in Int
        BY ONLY <3>3
      <4>4. w \in Seq(Char) /\ Len(w) = IF 1 <= k - 1 THEN k - 1 - 1 + 1 ELSE 0
        BY ONLY <3>2, <4>2, <4>3, SubSeqProperties
      <4> QED
        BY ONLY <3>3, <4>4
    <3>7. w # <<>>
      <4>1. Len(w) # 0
        BY ONLY <3>3, <3>6
      <4> QED
        BY ONLY <4>1, EmptySeq
    <3>8. t = w \o rest
      <4>1. PICK m : m = k - 1
        OBVIOUS
      <4>2. 1 \in 1 .. Len(t) + 1 /\ m \in 1 - 1 .. Len(t) /\ Len(t) \in m .. Len(t)
        BY ONLY <3>3, <4>1
      <4>3. SubSeq(t, 1, m) \o SubSeq(t, m + 1, Len(t)) = SubSeq(t, 1, Len(t))
        BY ONLY <1>4, <4>2, ConcatAdjacentSubSeq
      <4>4. SubSeq(t, 1, Len(t)) = t
        BY ONLY <1>4, SubSeqFull
      <4> QED
        BY ONLY <3>2, <4>1, <4>3, <4>4 DEF Drop
    <3>9. PICK escaped : w[1] # Newline /\ Scans(w, escaped, FALSE)
      BY ONLY <3>1, <3>2 DEF Bare, Readable
    <3>10. Behind(list, end, i, w, rest, FALSE)
      BY ONLY <1>6, <2>4, <3>5, <3>7 DEF Behind, n
    <3> QED
      BY ONLY <1>4, <3>4, <3>6, <3>7, <3>8, <3>9, <3>10
  <2> QED
    BY ONLY <1>1, <2>2, <2>3, <2>4
<1> QED
  <2>1. i \in 1 .. n \/ i = n + 1
    BY ONLY <1>2, <1>4
  <2> QED
    BY ONLY <1>5, <1>6, <2>1

-----------------------------------------------------------------------------
(* How words are read. *)

\* Of the i-th word "read" has been read, and "cmd" is still to be read.
Reading(list, end, i, read, cmd, quoted) ==
  \E w \in Seq(Char), rest \in Seq(Char) : \E escaped : \E k \in 0 .. Len(w) :
    /\ Scans(w, escaped, quoted) /\ (k < Len(w) => k + 1 \notin escaped)
    /\ read = SubSeq(w, 1, k) /\ cmd = Drop(w, k) \o rest
    /\ Behind(list, end, i, w, rest, quoted)

\* Only a list without words has an empty text.
LEMMA EmptyText ==
  ASSUME NEW list \in Seq(Word), NEW end, IsEnd(end), NEW i \in 1 .. Len(list) + 1,
         NEW t \in TextsFrom(list, end)[i], t = <<>>
  PROVE  end = <<>> /\ i = Len(list) + 1
<1>1. \/ end = <<>> /\ i = Len(list) + 1
      \/ \E w \in Seq(Char), rest \in Seq(Char) : t = <<Quote>> \o (w \o rest)
      \/ \E w \in Seq(Char), rest \in Seq(Char) : w # <<>> /\ t = w \o rest
  <2>1. \/ t = <<>> /\ end = <<>> /\ i = Len(list) + 1
        \/ \E w \in Seq(Char), rest \in Seq(Char) : \E escaped :
             /\ t = <<Quote>> \o (w \o rest)
             /\ Scans(w, escaped, TRUE) /\ Behind(list, end, i, w, rest, TRUE)
        \/ \E w \in Seq(Char), rest \in Seq(Char) : \E escaped :
             /\ w # <<>> /\ w[1] # Newline /\ t = w \o rest
             /\ Scans(w, escaped, FALSE) /\ Behind(list, end, i, w, rest, FALSE)
    BY ONLY TextCases, list \in Seq(Word), IsEnd(end), i \in 1 .. Len(list) + 1, t \in TextsFrom(list, end)[i]
  <2> QED
    BY ONLY <2>1
<1>2. \A w \in Seq(Char), rest \in Seq(Char) : w # <<>> => w \o rest # <<>>
  BY ONLY ConcatEqualIffEmpty
<1>3. \A w \in Seq(Char), rest \in Seq(Char) : <<Quote>> \o (w \o rest) # <<>>
  <2> TAKE w \in Seq(Char), rest \in Seq(Char)
  <2>1. w \o rest \in Seq(Char)
    BY ONLY ConcatProperties, w \in Seq(Char), rest \in Seq(Char)
  <2> QED
    BY ONLY <2>1, HeadOn, Chars
<1> QED
  BY ONLY <1>1, <1>2, <1>3, t = <<>>

\* A word that begins has not been read at all.
LEMMA ReadsFirst ==
  ASSUME NEW list, NEW end, NEW i, NEW q \in BOOLEAN, NEW w \in Seq(Char), NEW rest \in Seq(Char),
         NEW escaped, Scans(w, escaped, q), Behind(list, end, i, w, rest, q)
  PROVE  Reading(list, end, i, <<>>, w \o rest, q)
<1>1. 0 \in 0 .. Len(w) /\ 0 + 1 = 1 /\ (0 < Len(w) => w # <<>>)
  BY EmptySeq
<1>2. 0 < Len(w) => 0 + 1 \notin escaped
  BY ONLY <1>1, ScansFirst, w \in Seq(Char), q \in BOOLEAN, Scans(w, escaped, q)
<1>3. Drop(w, 0) = w
  BY ONLY <1>1, DropConcat, w \in Seq(Char), rest \in Seq(Char)
<1>4. SubSeq(w, 1, 0) = <<>>
  <2>1. 1 \in Int /\ 0 \in Int /\ 0 < 1
    OBVIOUS
  <2> QED
    BY ONLY <2>1, SubSeqEmpty
<1>5. \E k \in 0 .. Len(w) :
        /\ Scans(w, escaped, q) /\ (k < Len(w) => k + 1 \notin escaped)
        /\ <<>> = SubSeq(w, 1, k) /\ w \o rest = Drop(w, k) \o rest
        /\ Behind(list, end, i, w, rest, q)
  BY ONLY <1>1, <1>2, <1>3, <1>4, Scans(w, escaped, q), Behind(list, end, i, w, rest, q)
<1> QED
  BY ONLY <1>5, w \in Seq(Char), rest \in Seq(Char) DEF Reading

\* Behind the blanks before a text, its first word begins.
LEMMA Begins ==
  ASSUME NEW list \in Seq(Word), NEW end, IsEnd(end), NEW i \in 1 .. Len(list) + 1,
         NEW t \in TextsFrom(list, end)[i], NEW p \in Apart
  PROVE  /\ Quoted(p \o t) \in BOOLEAN
         /\ Reading(list, end, i, <<>>, WordStart(p \o t), Quoted(p \o t))
<1>1. t \in Seq(Char)
  BY TextCases
<1>2. CASE t = <<>> /\ end = <<>> /\ i = Len(list) + 1
  <2>1. SkipBlanks(p \o t) = t
    BY ONLY <1>1, <1>2, Skipped, p \in Apart
  <2>2. Quoted(p \o t) = FALSE /\ WordStart(p \o t) = <<>>
    BY ONLY <1>2, <2>1 DEF Quoted, WordStart
  <2>3. PICK e \in Seq(Char) : e = <<>>
    BY Empty
  <2>4. Scans(e, {}, FALSE)
    BY ONLY <2>3 DEF Scans, Escapes
  <2>5. Behind(list, end, i, e, e, FALSE)
    BY ONLY <1>2, <2>3 DEF Behind
  <2>6. Reading(list, end, i, <<>>, e \o e, FALSE)
    BY ONLY <2>4, <2>5, ReadsFirst, e \in Seq(Char)
  <2>7. e \o e = e
    BY ONLY <2>3, Empty
  <2> QED
    BY ONLY <2>2, <2>3, <2>6, <2>7
<1>3. CASE \E w \in Seq(Char), rest \in Seq(Char) : \E escaped :
             /\ t = <<Quote>> \o (w \o rest)
             /\ Scans(w, escaped, TRUE) /\ Behind(list, end, i, w, rest, TRUE)
  <2>1. PICK w \in Seq(Char) : \E rest \in Seq(Char) : \E escaped :
             /\ t = <<Quote>> \o (w \o rest)
             /\ Scans(w, escaped, TRUE) /\ Behind(list, end, i, w, rest, TRUE)
    BY ONLY <1>3
  <2>2. PICK rest \in Seq(Char) : \E escaped :
             /\ t = <<Quote>> \o (w \o rest)
             /\ Scans(w, escaped, TRUE) /\ Behind(list, end, i, w, rest, TRUE)
    BY ONLY <2>1
  <2>3. PICK escaped :
             /\ t = <<Quote>> \o (w \o rest)
             /\ Scans(w, escaped, TRUE) /\ Behind(list, end, i, w, rest, TRUE)
    BY ONLY <2>2
  <2>4. w \o rest \in Seq(Char)
    BY ONLY ConcatProperties, w \in Seq(Char), rest \in Seq(Char)
  <2>5. t # <<>> /\ t[1] = Quote /\ Head(t) = Quote /\ Tail(t) = w \o rest
    BY ONLY <2>3, <2>4, HeadOn, Chars
  <2>6. SkipBlanks(p \o t) = t
    BY ONLY <1>1, <2>5, Skipped, Chars, p \in Apart
  <2>7. Quoted(p \o t) = TRUE /\ WordStart(p \o t) = w \o rest
    BY ONLY <2>5, <2>6 DEF Quoted, WordStart
  <2>8. Reading(list, end, i, <<>>, w \o rest, TRUE)
    BY ONLY <2>3, ReadsFirst, w \in Seq(Char), rest \in Seq(Char)
  <2> QED
    BY ONLY <2>7, <2>8
<1>4. CASE \E w \in Seq(Char), rest \in Seq(Char) : \E escaped :
             /\ w # <<>> /\ w[1] # Newline /\ t = w \o rest
             /\ Scans(w, escaped, FALSE) /\ Behind(list, end, i, w, rest, FALSE)
  <2>1. PICK w \in Seq(Char) : \E rest \in Seq(Char) : \E escaped :
             /\ w # <<>> /\ w[1] # Newline /\ t = w \o rest
             /\ Scans(w, escaped, FALSE) /\ Behind(list, end, i, w, rest, FALSE)
    BY ONLY <1>4
  <2>2. PICK rest \in Seq(Char) : \E escaped :
             /\ w # <<>> /\ w[1] # Newline /\ t = w \o rest
             /\ Scans(w, escaped, FALSE) /\ Behind(list, end, i, w, rest, FALSE)
    BY ONLY <2>1
  <2>3. PICK escaped :
             /\ w # <<>> /\ w[1] # Newline /\ t = w \o rest
             /\ Scans(w, escaped, FALSE) /\ Behind(list, end, i, w, rest, FALSE)
    BY ONLY <2>2
  <2>4. w[1] # Quote /\ w[1] \notin Blank
    BY ONLY <2>3, ScansFirst, w \in Seq(Char) DEF Blank
  <2>5. /\ Len(t) = Len(w) + Len(rest)
        /\ \A j \in 1 .. Len(w) + Len(rest) : t[j] = IF j <= Len(w) THEN w[j] ELSE rest[j - Len(w)]
    BY ONLY <2>3, ConcatProperties, w \in Seq(Char), rest \in Seq(Char)
  <2>6. Len(w) \in Nat \ {0} /\ Len(rest) \in Nat
    BY ONLY <2>3, EmptySeq, w \in Seq(Char), rest \in Seq(Char)
  <2>7. 1 \in 1 .. Len(w) + Len(rest) /\ 1 <= Len(w) /\ Len(t) # 0
    BY ONLY <2>5, <2>6
  <2>8. t[1] = w[1] /\ t # <<>>
    BY ONLY <2>5, <2>7, EmptySeq
  <2>9. Head(t) = t[1]
    BY ONLY <1>1, <2>8
  <2>10. SkipBlanks(p \o t) = t
    BY ONLY <1>1, <2>4, <2>8, Skipped, p \in Apart
  <2>11. Quoted(p \o t) = FALSE /\ WordStart(p \o t) = t
    BY ONLY <2>4, <2>8, <2>9, <2>10 DEF Quoted, WordStart
  <2>12. Reading(list, end, i, <<>>, w \o rest, FALSE)
    BY ONLY <2>3, ReadsFirst, w \in Seq(Char), rest \in Seq(Char)
  <2> QED
    BY ONLY <2>3, <2>11, <2>12
<1> QED
  BY ONLY <1>2, <1>3, <1>4, TextCases, list \in Seq(Word), IsEnd(end), i \in 1 .. Len(list) + 1,
          t \in TextsFrom(list, end)[i]

\* What is behind a word begins with what ends it, or is nothing; if it closes
\* the word, another one begins behind it.
LEMMA BehindIt ==
  ASSUME NEW list \in Seq(Word), NEW end, IsEnd(end), NEW i \in 1 .. Len(list) + 1, NEW q \in BOOLEAN,
         NEW w \in Seq(Char), NEW rest \in Seq(Char), Behind(list, end, i, w, rest, q)
  PROVE  /\ rest # <<>> => Head(rest) = Quote \/ (~q /\ Head(rest) = Space)
         /\ rest # <<>> /\ Head(rest) = (IF q THEN Quote ELSE Space)
              => /\ i \in 1 .. Len(list) /\ w = list[i]
                 /\ Quoted(Tail(rest)) \in BOOLEAN
                 /\ Reading(list, end, i + 1, <<>>, WordStart(Tail(rest)), Quoted(Tail(rest)))
         /\ rest = <<>> /\ ~q
              => end = <<>> /\ ((i = Len(list) /\ w = list[i]) \/ (i = Len(list) + 1 /\ w = <<>>))
         /\ rest = <<>> /\ q => end # <<>>
         /\ rest # <<>> /\ Head(rest) = Quote /\ ~q => end # <<>>
<1>1. Quote # Space
  BY Chars
<1>2. ASSUME i \in 1 .. Len(list), w = list[i], NEW p \in Apart, NEW after \in TextsFrom(list, end)[i + 1],
             q, rest = <<Quote>> \o (p \o after)
      PROVE  /\ rest # <<>> /\ Head(rest) = Quote
             /\ Quoted(Tail(rest)) \in BOOLEAN
             /\ Reading(list, end, i + 1, <<>>, WordStart(Tail(rest)), Quoted(Tail(rest)))
  <2>1. i + 1 \in 1 .. Len(list) + 1
    BY <1>2
  <2>2. after \in Seq(Char)
    BY ONLY <2>1, TextCases, list \in Seq(Word), IsEnd(end), after \in TextsFrom(list, end)[i + 1]
  <2>3. p \o after \in Seq(Char)
    <3>1. p \in Seq(Char)
      BY ONLY ApartShape, p \in Apart
    <3> QED
      BY ONLY <2>2, <3>1, ConcatProperties
  <2>4. rest # <<>> /\ Head(rest) = Quote /\ Tail(rest) = p \o after
    BY ONLY <1>2, <2>3, HeadOn, Chars
  <2> QED
    BY ONLY <2>1, <2>4, Begins, list \in Seq(Word), IsEnd(end),
            after \in TextsFrom(list, end)[i + 1], p \in Apart
<1>3. ASSUME i \in 1 .. Len(list), w = list[i], NEW p \in Apart, NEW after \in TextsFrom(list, end)[i + 1],
             ~q, rest = p \o after, CutBefore(p, after)
      PROVE  \/ rest = <<>> /\ end = <<>> /\ i = Len(list)
             \/ /\ rest # <<>> /\ Head(rest) = Space
                /\ Quoted(Tail(rest)) \in BOOLEAN
                /\ Reading(list, end, i + 1, <<>>, WordStart(Tail(rest)), Quoted(Tail(rest)))
  <2>1. i + 1 \in 1 .. Len(list) + 1 /\ (i + 1 = Len(list) + 1 => i = Len(list))
    BY <1>3
  <2>2. after \in Seq(Char)
    BY ONLY <2>1, TextCases, list \in Seq(Word), IsEnd(end), after \in TextsFrom(list, end)[i + 1]
  <2>3. CASE p = <<>>
    <3>1. after = <<>> /\ rest = <<>>
      BY ONLY <1>3, <2>3, <2>2, Empty DEF CutBefore
    <3>4. end = <<>> /\ i + 1 = Len(list) + 1
      BY ONLY <2>1, <3>1, EmptyText, list \in Seq(Word), IsEnd(end), after \in TextsFrom(list, end)[i + 1]
    <3> QED
      BY ONLY <2>1, <3>1, <3>4
  <2>4. CASE p # <<>>
    <3>1. p \in Seq(Char) /\ Tail(p) \in Apart /\ p[1] = Space
      BY ONLY <1>3, <2>4, ApartShape, p \in Apart DEF CutBefore
    <3>2. PICK b : b = Tail(p)
      OBVIOUS
    <3>3. b \in Apart /\ b \in Seq(Char)
      BY ONLY <3>1, <3>2, ApartShape
    <3>4. p = <<Space>> \o b
      <4>1. Len(p) \in Nat \ {0} /\ b = SubSeq(p, 2, Len(p)) /\ SubSeq(p, 1, Len(p)) = p
        BY ONLY <2>4, <3>1, <3>2, EmptySeq, TailIsSubSeq, SubSeqFull
      <4>2. 1 \in 1 .. Len(p) /\ Len(p) \in 1 .. Len(p) /\ 1 + 1 = 2
        BY ONLY <4>1
      <4>3. SubSeq(p, 1, Len(p)) = <<p[1]>> \o SubSeq(p, 1 + 1, Len(p))
        BY ONLY <3>1, <4>2, SubSeqRecursiveFirst
      <4> QED
        BY ONLY <3>1, <4>1, <4>2, <4>3
    <3>5. rest = <<Space>> \o (b \o after)
      <4>1. PICK c : c = <<Space>>
        OBVIOUS
      <4>2. c \in Seq(Char)
        BY ONLY <4>1, Chars
      <4>3. (c \o b) \o after = c \o (b \o after)
        BY ONLY <2>2, <3>3, <4>2, Associative
      <4> QED
        BY ONLY <1>3, <3>4, <4>1, <4>3
    <3>6. b \o after \in Seq(Char)
      BY ONLY <2>2, <3>3, ConcatProperties
    <3>7. rest # <<>> /\ Head(rest) = Space /\ Tail(rest) = b \o after
      BY ONLY <3>5, <3>6, HeadOn, Chars
    <3> QED
      BY ONLY <2>1, <3>3, <3>7, Begins, list \in Seq(Word), IsEnd(end), after \in TextsFrom(list, end)[i + 1]
  <2> QED
    BY ONLY <2>3, <2>4
<1>4. i \in 1 .. Len(list) => i # Len(list) + 1
  OBVIOUS
<1>5. CASE i \in 1 .. Len(list) /\ w = list[i]
  <2>1. CASE q
    <3>1. PICK p \in Apart, after \in TextsFrom(list, end)[i + 1] : rest = <<Quote>> \o (p \o after)
      BY ONLY <1>4, <1>5, <2>1, Behind(list, end, i, w, rest, q) DEF Behind
    <3>2. /\ rest # <<>> /\ Head(rest) = Quote
          /\ Quoted(Tail(rest)) \in BOOLEAN
          /\ Reading(list, end, i + 1, <<>>, WordStart(Tail(rest)), Quoted(Tail(rest)))
      BY ONLY <1>2, <1>5, <2>1, <3>1
    <3> QED
      BY ONLY <1>5, <2>1, <3>2
  <2>2. CASE ~q
    <3>1. PICK p \in Apart, after \in TextsFrom(list, end)[i + 1] :
            rest = p \o after /\ CutBefore(p, after)
      BY ONLY <1>4, <1>5, <2>2, Behind(list, end, i, w, rest, q) DEF Behind
    <3>2. \/ rest = <<>> /\ end = <<>> /\ i = Len(list)
          \/ /\ rest # <<>> /\ Head(rest) = Space
             /\ Quoted(Tail(rest)) \in BOOLEAN
             /\ Reading(list, end, i + 1, <<>>, WordStart(Tail(rest)), Quoted(Tail(rest)))
      BY ONLY <1>3, <1>5, <2>2, <3>1
    <3> QED
      BY ONLY <1>1, <1>5, <2>2, <3>2
  <2> QED
    BY ONLY <2>1, <2>2, q \in BOOLEAN
<1>6. CASE ~(i \in 1 .. Len(list) /\ w = list[i])
  <2>1. /\ i = Len(list) + 1
        /\ \/ end = <<>> /\ w = <<>> /\ rest = <<>> /\ ~q
           \/ end # <<>> /\ q /\ rest = <<>>
           \/ end # <<>> /\ ~q /\ w # <<>> /\ rest # <<>> /\ rest[1] = Quote
    BY ONLY <1>6, Behind(list, end, i, w, rest, q) DEF Behind
  <2>2. rest # <<>> => Head(rest) = rest[1]
    OBVIOUS
  <2> QED
    BY ONLY <1>1, <2>1, <2>2
<1> QED
  BY ONLY <1>5, <1>6

\* Where the next character is: in the word, or behind it.
LEMMA ReadsNext ==
  ASSUME NEW w \in Seq(Char), NEW rest \in Seq(Char), NEW k \in 0 .. Len(w)
  PROVE  /\ Drop(w, k) \o rest \in Seq(Char)
         /\ k < Len(w) => Drop(w, k) \o rest # <<>> /\ Head(Drop(w, k) \o rest) = w[k + 1]
         /\ k = Len(w) => SubSeq(w, 1, k) = w /\ Drop(w, k) \o rest = rest
<1>1. PICK d, c : d = Drop(w, k) /\ c = d \o rest
  OBVIOUS
<1>2. Len(w) \in Nat /\ k \in Nat /\ Len(rest) \in Nat /\ k <= Len(w)
  OBVIOUS
<1>3. d \in Seq(Char) /\ Len(d) = Len(w) - k /\ \A i \in 1 .. Len(w) - k : d[i] = w[k + i]
  BY ONLY <1>1, Dropped, w \in Seq(Char), k \in 0 .. Len(w)
<1>4. /\ c \in Seq(Char) /\ Len(c) = Len(d) + Len(rest)
      /\ \A i \in 1 .. Len(d) + Len(rest) : c[i] = IF i <= Len(d) THEN d[i] ELSE rest[i - Len(d)]
  BY ONLY <1>1, <1>3, ConcatProperties, rest \in Seq(Char)
<1>5. ASSUME k < Len(w) PROVE c # <<>> /\ Head(c) = w[k + 1]
  <2>1. 1 \in 1 .. Len(w) - k /\ 1 \in 1 .. Len(d) + Len(rest) /\ 1 <= Len(d) /\ Len(c) # 0
    BY ONLY <1>2, <1>3, <1>4, <1>5
  <2>2. c # <<>>
    BY ONLY <2>1, EmptySeq
  <2>3. c[1] = d[1] /\ d[1] = w[k + 1]
    BY ONLY <1>3, <1>4, <2>1
  <2>4. Head(c) = c[1]
    BY ONLY <1>4, <2>2
  <2> QED
    BY ONLY <2>2, <2>3, <2>4
<1>6. ASSUME k = Len(w) PROVE SubSeq(w, 1, k) = w /\ c = rest
  <2>1. Drop(w, Len(w)) = <<>>
    <3>1. Len(w) \in 0 .. Len(w)
      BY ONLY <1>2
    <3> QED
      BY ONLY <3>1, DropConcat, w \in Seq(Char)
  <2>2. d = <<>>
    BY ONLY <1>1, <1>6, <2>1
  <2> QED
    BY ONLY <1>1, <1>6, <2>2, SubSeqFull, Empty, w \in Seq(Char), rest \in Seq(Char)
<1> QED
  BY ONLY <1>1, <1>4, <1>5, <1>6

\* A character that belongs to the word is read; with a backslash, two.
LEMMA ReadsOn ==
  ASSUME NEW list \in Seq(Word), NEW end, IsEnd(end), NEW i \in 1 .. Len(list) + 1, NEW q \in BOOLEAN,
         NEW read, NEW cmd, Reading(list, end, i, read, cmd, q), cmd # <<>>,
         NEW n, \/ Head(cmd) = Backslash /\ n = 2
                \/ Head(cmd) # Backslash /\ Head(cmd) # Quote /\ (q \/ Head(cmd) # Space) /\ n = 1
  PROVE  Reading(list, end, i, read \o SubSeq(cmd, 1, n), SubSeq(cmd, n + 1, Len(cmd)), q)
<1>1. PICK w, rest, escaped : w \in Seq(Char) /\ rest \in Seq(Char) /\ \E k \in 0 .. Len(w) :
        /\ Scans(w, escaped, q) /\ (k < Len(w) => k + 1 \notin escaped)
        /\ read = SubSeq(w, 1, k) /\ cmd = Drop(w, k) \o rest
        /\ Behind(list, end, i, w, rest, q)
  BY DEF Reading
<1> w \in Seq(Char) /\ rest \in Seq(Char)
  BY ONLY <1>1
<1>2. PICK k \in 0 .. Len(w) :
        /\ Scans(w, escaped, q) /\ (k < Len(w) => k + 1 \notin escaped)
        /\ read = SubSeq(w, 1, k) /\ cmd = Drop(w, k) \o rest
        /\ Behind(list, end, i, w, rest, q)
  BY ONLY <1>1
<1>3. /\ k < Len(w) => Head(cmd) = w[k + 1]
      /\ k = Len(w) => cmd = rest
  BY ONLY <1>2, ReadsNext, w \in Seq(Char), rest \in Seq(Char), k \in 0 .. Len(w)
<1>4. Quote # Backslash /\ Space # Backslash
  BY Chars
<1>5. k < Len(w)
  <2>1. rest # <<>> => Head(rest) = Quote \/ (~q /\ Head(rest) = Space)
    BY ONLY <1>2, BehindIt, list \in Seq(Word), IsEnd(end), i \in 1 .. Len(list) + 1, q \in BOOLEAN,
            w \in Seq(Char), rest \in Seq(Char)
  <2>2. k # Len(w)
    BY ONLY <1>3, <1>4, <2>1, cmd # <<>>,
            \/ Head(cmd) = Backslash /\ n = 2
            \/ Head(cmd) # Backslash /\ Head(cmd) # Quote /\ (q \/ Head(cmd) # Space) /\ n = 1
  <2>3. Len(w) \in Nat
    OBVIOUS
  <2> QED
    BY ONLY <2>2, <2>3, k \in 0 .. Len(w)
<1>6. Head(cmd) = w[k + 1] /\ k + 1 \notin escaped
  BY ONLY <1>2, <1>3, <1>5
<1>7. /\ w[k + 1] # Backslash /\ k + 1 < Len(w) => k + 2 \notin escaped
      /\ w[k + 1] = Backslash => k + 2 <= Len(w) /\ (k + 2 < Len(w) => k + 3 \notin escaped)
  BY ONLY <1>2, <1>5, <1>6, ScanStep, w \in Seq(Char), q \in BOOLEAN, k \in 0 .. Len(w)
<1>8. Len(w) \in Nat /\ k \in Nat
  OBVIOUS
<1>9. (n = 1 /\ w[k + 1] # Backslash) \/ (n = 2 /\ w[k + 1] = Backslash)
  BY ONLY <1>6, \/ Head(cmd) = Backslash /\ n = 2
                \/ Head(cmd) # Backslash /\ Head(cmd) # Quote /\ (q \/ Head(cmd) # Space) /\ n = 1
<1>10. n \in Nat /\ k + n <= Len(w) /\ k + n \in 0 .. Len(w) /\ (k + n < Len(w) => (k + n) + 1 \notin escaped)
  <2>1. CASE n = 1 /\ w[k + 1] # Backslash
    <3>1. n \in Nat /\ k + n <= Len(w) /\ k + n \in 0 .. Len(w) /\ (k + n) + 1 = k + 2 /\ k + n = k + 1
      BY ONLY <1>5, <1>8, <2>1
    <3> QED
      BY ONLY <1>7, <2>1, <3>1
  <2>2. CASE n = 2 /\ w[k + 1] = Backslash
    <3>1. k + 2 <= Len(w)
      BY ONLY <1>7, <2>2
    <3>2. n \in Nat /\ k + n <= Len(w) /\ k + n \in 0 .. Len(w) /\ (k + n) + 1 = k + 3 /\ k + n = k + 2
      BY ONLY <1>8, <2>2, <3>1
    <3> QED
      BY ONLY <1>7, <2>2, <3>2
  <2> QED
    BY ONLY <1>9, <2>1, <2>2
<1>11. /\ SubSeq(w, 1, k) \o SubSeq(Drop(w, k) \o rest, 1, n) = SubSeq(w, 1, k + n)
       /\ Drop(Drop(w, k) \o rest, n) = Drop(w, k + n) \o rest
  <2>1. n \in Nat /\ k + n <= Len(w)
    BY ONLY <1>10
  <2> QED
    BY ONLY <2>1, ReadOn, w \in Seq(Char), rest \in Seq(Char), k \in 0 .. Len(w)
<1>12. /\ read \o SubSeq(cmd, 1, n) = SubSeq(w, 1, k + n)
       /\ SubSeq(cmd, n + 1, Len(cmd)) = Drop(w, k + n) \o rest
  <2>1. Drop(cmd, n) = Drop(w, k + n) \o rest
    BY ONLY <1>2, <1>11
  <2>2. SubSeq(cmd, n + 1, Len(cmd)) = Drop(cmd, n)
    BY DEF Drop
  <2> QED
    BY ONLY <1>2, <1>11, <2>1, <2>2
<1>13. PICK m \in 0 .. Len(w) : m = k + n
  BY ONLY <1>10
<1>14. \E j \in 0 .. Len(w) :
         /\ Scans(w, escaped, q) /\ (j < Len(w) => j + 1 \notin escaped)
         /\ read \o SubSeq(cmd, 1, n) = SubSeq(w, 1, j) /\ SubSeq(cmd, n + 1, Len(cmd)) = Drop(w, j) \o rest
         /\ Behind(list, end, i, w, rest, q)
  BY ONLY <1>2, <1>10, <1>12, <1>13
<1> QED
  BY ONLY <1>14, w \in Seq(Char), rest \in Seq(Char) DEF Reading

\* A word ends where a character is that does not belong to it.
LEMMA ReadsAll ==
  ASSUME NEW list, NEW end, NEW i, NEW q \in BOOLEAN,
         NEW read, NEW cmd, Reading(list, end, i, read, cmd, q),
         cmd = <<>> \/ Head(cmd) = Quote \/ (~q /\ Head(cmd) = Space)
  PROVE  \E w \in Seq(Char), rest \in Seq(Char) : read = w /\ cmd = rest /\ Behind(list, end, i, w, rest, q)
<1>1. PICK w, rest, escaped : w \in Seq(Char) /\ rest \in Seq(Char) /\ \E k \in 0 .. Len(w) :
        /\ Scans(w, escaped, q) /\ (k < Len(w) => k + 1 \notin escaped)
        /\ read = SubSeq(w, 1, k) /\ cmd = Drop(w, k) \o rest
        /\ Behind(list, end, i, w, rest, q)
  BY DEF Reading
<1> w \in Seq(Char) /\ rest \in Seq(Char)
  BY ONLY <1>1
<1>2. PICK k \in 0 .. Len(w) :
        /\ Scans(w, escaped, q) /\ (k < Len(w) => k + 1 \notin escaped)
        /\ read = SubSeq(w, 1, k) /\ cmd = Drop(w, k) \o rest
        /\ Behind(list, end, i, w, rest, q)
  BY ONLY <1>1
<1>3. /\ k < Len(w) => cmd # <<>> /\ Head(cmd) = w[k + 1]
      /\ k = Len(w) => SubSeq(w, 1, k) = w /\ cmd = rest
  BY ONLY <1>2, ReadsNext, w \in Seq(Char), rest \in Seq(Char), k \in 0 .. Len(w)
<1>4. k < Len(w) => w[k + 1] # Quote /\ (q \/ w[k + 1] # Space)
  BY ONLY <1>2, ScanStep, w \in Seq(Char), q \in BOOLEAN, k \in 0 .. Len(w)
<1>5. ~(k < Len(w))
  BY ONLY <1>3, <1>4, cmd = <<>> \/ Head(cmd) = Quote \/ (~q /\ Head(cmd) = Space)
<1>6. k = Len(w)
  <2>1. Len(w) \in Nat
    OBVIOUS
  <2> QED
    BY ONLY <1>5, <2>1, k \in 0 .. Len(w)
<1> QED
  BY ONLY <1>2, <1>3, <1>6, w \in Seq(Char), rest \in Seq(Char)

-----------------------------------------------------------------------------
(* The loop. *)

\* Words that are cut are the words meant, and the next one is being read.
WordsInv ==
  /\ words \in Seq(Word) /\ IsEnd(ending) /\ in_quote \in BOOLEAN
  /\ \E i \in 1 .. Len(words) + 1 :
       /\ arr = SubSeq(words, 1, i - 1)
       /\ outcome = "more" => Reading(words, ending, i, word, shell_cmd, in_quote)
       /\ outcome = "done" => i = Len(words) + 1 /\ ending = <<>>
  /\ outcome = "error" => ending # <<>>

\* The words before one and this one.
LEMMA OneMore ==
  ASSUME NEW i \in 1 .. Len(words), words \in Seq(Word)
  PROVE  Append(SubSeq(words, 1, i - 1), words[i]) = SubSeq(words, 1, i)
<1>1. /\ 1 \in 1 .. Len(words) /\ i \in 1 .. i /\ i \in 1 .. Len(words)
      /\ i - 1 \in Int /\ 1 \in Int /\ Len(words) \in Nat
      /\ i \in Nat /\ i >= 1 /\ i <= Len(words)
  OBVIOUS
<1>2. SubSeq(words, 1, i) = SubSeq(words, 1, i - 1) \o <<words[i]>>
  BY ONLY <1>1, SubSeqRecursiveSecond, words \in Seq(Word)
<1>3. SubSeq(words, 1, i - 1) \in Seq(Word) /\ words[i] \in Word
  <2>1. \A j \in 1 .. i - 1 : j \in 1 .. Len(words)
    BY ONLY <1>1
  <2>2. \A j \in 1 .. i - 1 : words[j] \in Word
    BY ONLY <2>1, words \in Seq(Word)
  <2>3. SubSeq(words, 1, i - 1) \in Seq(Word)
    BY ONLY <1>1, <2>2, SubSeqProperties
  <2> QED
    BY ONLY <1>1, <2>3, words \in Seq(Word)
<1> QED
  BY ONLY <1>2, <1>3, AppendIsConcat

\* Before the first word.
LEMMA WordsInvInit ==
  ASSUME ShellWordsInit
  PROVE  WordsInv
<1>1. words \in Seq(Word) /\ word = <<>> /\ arr = <<>> /\ outcome = "more"
  BY WordAssumption DEF ShellWordsInit
<1>2. IsEnd(ending)
  BY Empty, WordAssumption DEF ShellWordsInit, IsEnd
<1>3. PICK text \in Written(words, ending) : shell_cmd = WordStart(text) /\ in_quote = Quoted(text)
  BY DEF ShellWordsInit
<1>4. PICK t \in TextsFrom(words, ending)[1], p \in Apart : text = p \o t
  <2>1. CASE text \in TextsFrom(words, ending)[1]
    <3>1. PICK p \in Apart : p = <<>>
      BY EmptySeq DEF Apart
    <3>2. 1 \in 1 .. Len(words) + 1
      BY ONLY <1>1
    <3>3. text \in Seq(Char)
      BY ONLY <1>1, <1>2, <2>1, <3>2, TextCases
    <3> QED
      BY ONLY <2>1, <3>1, <3>3, Empty
  <2>2. CASE \E gap \in Gaps, t \in TextsFrom(words, ending)[1] : text = gap \o t
    BY <2>2, WordAssumption DEF Apart
  <2>3. PICK T : T = TextsFrom(words, ending)[1]
    OBVIOUS
  <2>4. Written(words, ending) = T \cup {gap \o t : gap \in Gaps, t \in T}
    BY ONLY <2>3 DEF Written
  <2>5. text \in T \/ \E gap \in Gaps, t \in T : text = gap \o t
    BY ONLY <2>4, text \in Written(words, ending)
  <2> QED
    BY ONLY <2>1, <2>2, <2>3, <2>5
<1>5. 1 \in 1 .. Len(words) + 1
  BY ONLY <1>1
<1>6. in_quote \in BOOLEAN /\ Reading(words, ending, 1, <<>>, shell_cmd, in_quote)
  BY ONLY <1>1, <1>2, <1>3, <1>4, <1>5, Begins
<1>7. arr = SubSeq(words, 1, 1 - 1)
  <2>1. 1 - 1 \in Int /\ 1 \in Int /\ 1 - 1 < 1
    OBVIOUS
  <2> QED
    BY ONLY <1>1, <2>1, SubSeqEmpty
<1> QED
  BY ONLY <1>1, <1>2, <1>5, <1>6, <1>7 DEF WordsInv

\* A step that only reads on.
LEMMA WordsInvReads ==
  ASSUME WordsInv, outcome = "more", UNCHANGED <<words, ending>>, shell_cmd # <<>>,
         NEW n, Takes(n),
         \/ Head(shell_cmd) = Backslash /\ n = 2
         \/ /\ Head(shell_cmd) # Backslash /\ Head(shell_cmd) # Quote
            /\ (in_quote \/ Head(shell_cmd) # Space) /\ n = 1
  PROVE  WordsInv'
<1>1. /\ words \in Seq(Word) /\ IsEnd(ending) /\ in_quote \in BOOLEAN
  BY DEF WordsInv
<1>2. PICK i \in 1 .. Len(words) + 1 :
        arr = SubSeq(words, 1, i - 1) /\ Reading(words, ending, i, word, shell_cmd, in_quote)
  BY DEF WordsInv
<1>3. /\ word' = word \o SubSeq(shell_cmd, 1, n) /\ shell_cmd' = SubSeq(shell_cmd, n + 1, Len(shell_cmd))
      /\ in_quote' = in_quote /\ arr' = arr /\ outcome' = outcome /\ words' = words /\ ending' = ending
  BY DEF Takes
<1>4. Reading(words, ending, i, word \o SubSeq(shell_cmd, 1, n),
              SubSeq(shell_cmd, n + 1, Len(shell_cmd)), in_quote)
  BY ONLY <1>1, <1>2, ReadsOn, i \in 1 .. Len(words) + 1, shell_cmd # <<>>,
          \/ Head(shell_cmd) = Backslash /\ n = 2
          \/ /\ Head(shell_cmd) # Backslash /\ Head(shell_cmd) # Quote
             /\ (in_quote \/ Head(shell_cmd) # Space) /\ n = 1
<1>5. Reading(words', ending', i, word', shell_cmd', in_quote')
  BY ONLY <1>3, <1>4
<1>6. \E j \in 1 .. Len(words') + 1 :
        /\ arr' = SubSeq(words', 1, j - 1)
        /\ outcome' = "more" => Reading(words', ending', j, word', shell_cmd', in_quote')
        /\ outcome' = "done" => j = Len(words') + 1 /\ ending' = <<>>
  BY ONLY <1>2, <1>3, <1>5, outcome = "more", i \in 1 .. Len(words) + 1
<1> QED
  BY ONLY <1>1, <1>3, <1>6, outcome = "more" DEF WordsInv

\* The end of a word: the word is kept, and the next one begins.
LEMMA WordsInvCut ==
  ASSUME WordsInv, outcome = "more", UNCHANGED <<words, ending>>, CutWord
  PROVE  WordsInv'
<1>1. /\ words \in Seq(Word) /\ IsEnd(ending) /\ in_quote \in BOOLEAN
  BY DEF WordsInv
<1>2. PICK i \in 1 .. Len(words) + 1 :
        arr = SubSeq(words, 1, i - 1) /\ Reading(words, ending, i, word, shell_cmd, in_quote)
  BY DEF WordsInv
<1>3. shell_cmd # <<>> /\ Head(shell_cmd) = (IF in_quote THEN Quote ELSE Space)
  BY DEF CutWord, EndsWord, NoneLeft, NextChar
<1>4. /\ in_quote' = Quoted(Tail(shell_cmd)) /\ shell_cmd' = WordStart(Tail(shell_cmd)) /\ word' = <<>>
      /\ arr' = IF word = <<>> THEN arr ELSE Append(arr, word)
      /\ outcome' = outcome /\ words' = words /\ ending' = ending
  BY DEF CutWord, Keep
<1>5. PICK w \in Seq(Char), rest \in Seq(Char) :
        word = w /\ shell_cmd = rest /\ Behind(words, ending, i, w, rest, in_quote)
  BY ONLY <1>1, <1>2, <1>3, ReadsAll
<1>6. /\ i \in 1 .. Len(words) /\ w = words[i]
      /\ Quoted(Tail(rest)) \in BOOLEAN
      /\ Reading(words, ending, i + 1, <<>>, WordStart(Tail(rest)), Quoted(Tail(rest)))
  BY ONLY <1>1, <1>3, <1>5, BehindIt, i \in 1 .. Len(words) + 1
<1>7. w # <<>>
  <2>1. words[i] \in Word
    BY ONLY <1>1, <1>6
  <2> QED
    BY ONLY <1>6, <2>1 DEF Word
<1>8. arr' = SubSeq(words, 1, i)
  BY ONLY <1>1, <1>2, <1>4, <1>5, <1>6, <1>7, OneMore
<1>9. PICK j \in 1 .. Len(words) + 1 : j = i + 1 /\ j - 1 = i
  <2>1. Len(words) \in Nat
    BY ONLY <1>1
  <2>2. i + 1 \in 1 .. Len(words) + 1 /\ (i + 1) - 1 = i
    BY ONLY <1>6, <2>1
  <2> QED
    BY ONLY <2>2
<1>10. Reading(words', ending', j, word', shell_cmd', in_quote') /\ in_quote' \in BOOLEAN
  BY ONLY <1>4, <1>5, <1>6, <1>9
<1>11. arr' = SubSeq(words', 1, j - 1) /\ j \in 1 .. Len(words') + 1
  BY ONLY <1>4, <1>8, <1>9
<1> QED
  BY ONLY <1>1, <1>4, <1>10, <1>11, outcome = "more" DEF WordsInv

\* A quote that stands where none may, or that is never closed.
LEMMA WordsInvRefused ==
  ASSUME WordsInv, outcome = "more", UNCHANGED <<words, ending>>, StrayQuote \/ OpenQuote
  PROVE  WordsInv'
<1>1. /\ words \in Seq(Word) /\ IsEnd(ending) /\ in_quote \in BOOLEAN
  BY DEF WordsInv
<1>2. PICK i \in 1 .. Len(words) + 1 :
        arr = SubSeq(words, 1, i - 1) /\ Reading(words, ending, i, word, shell_cmd, in_quote)
  BY DEF WordsInv
<1>3. \/ shell_cmd # <<>> /\ Head(shell_cmd) = Quote /\ ~in_quote
      \/ shell_cmd = <<>> /\ in_quote
  BY DEF StrayQuote, OpenQuote, NoneLeft, NextChar
<1>4. /\ outcome' = "error" /\ shell_cmd' = shell_cmd /\ word' = word /\ in_quote' = in_quote
      /\ arr' = arr /\ words' = words /\ ending' = ending
  BY DEF StrayQuote, OpenQuote, Rejects
<1>5. PICK w \in Seq(Char), rest \in Seq(Char) :
        word = w /\ shell_cmd = rest /\ Behind(words, ending, i, w, rest, in_quote)
  BY ONLY <1>1, <1>2, <1>3, ReadsAll
<1>6. ending # <<>>
  BY ONLY <1>1, <1>3, <1>5, BehindIt, i \in 1 .. Len(words) + 1
<1> QED
  BY ONLY <1>1, <1>2, <1>4, <1>6, i \in 1 .. Len(words) + 1 DEF WordsInv

\* The end of the text.
LEMMA WordsInvFinish ==
  ASSUME WordsInv, outcome = "more", UNCHANGED <<words, ending>>, Finish
  PROVE  WordsInv'
<1>1. /\ words \in Seq(Word) /\ IsEnd(ending) /\ in_quote \in BOOLEAN
  BY DEF WordsInv
<1>2. PICK i \in 1 .. Len(words) + 1 :
        arr = SubSeq(words, 1, i - 1) /\ Reading(words, ending, i, word, shell_cmd, in_quote)
  BY DEF WordsInv
<1>3. shell_cmd = <<>> /\ ~in_quote
  BY DEF Finish, NoneLeft
<1>4. /\ outcome' = "done" /\ in_quote' = in_quote /\ words' = words /\ ending' = ending
      /\ arr' = IF word = <<>> THEN arr ELSE Append(arr, word)
  BY DEF Finish, Keep
<1>5. PICK w \in Seq(Char), rest \in Seq(Char) :
        word = w /\ shell_cmd = rest /\ Behind(words, ending, i, w, rest, in_quote)
  BY ONLY <1>1, <1>2, <1>3, ReadsAll
<1>6. ending = <<>> /\ ((i = Len(words) /\ w = words[i]) \/ (i = Len(words) + 1 /\ w = <<>>))
  BY ONLY <1>1, <1>3, <1>5, BehindIt, i \in 1 .. Len(words) + 1
<1>7. Len(words) \in Nat
  BY ONLY <1>1
<1>8. PICK j \in 1 .. Len(words) + 1 : j = Len(words) + 1 /\ j - 1 = Len(words)
  <2>1. Len(words) + 1 \in 1 .. Len(words) + 1 /\ (Len(words) + 1) - 1 = Len(words)
    BY ONLY <1>7
  <2> QED
    BY ONLY <2>1
<1>9. arr' = SubSeq(words, 1, j - 1)
  <2>1. CASE i = Len(words) /\ w = words[i]
    <3>1. i \in 1 .. Len(words)
      BY ONLY <1>7, <2>1, i \in 1 .. Len(words) + 1
    <3>2. words[i] \in Word
      BY ONLY <1>1, <3>1
    <3>3. w # <<>>
      BY ONLY <2>1, <3>2 DEF Word
    <3>4. Append(SubSeq(words, 1, i - 1), words[i]) = SubSeq(words, 1, i)
      BY ONLY <1>1, <3>1, OneMore
    <3> QED
      BY ONLY <1>2, <1>4, <1>5, <1>8, <2>1, <3>3, <3>4
  <2>2. CASE i = Len(words) + 1 /\ w = <<>>
    BY ONLY <1>2, <1>4, <1>5, <1>8, <2>2
  <2> QED
    BY ONLY <1>6, <2>1, <2>2
<1>10. arr' = SubSeq(words', 1, j - 1) /\ j \in 1 .. Len(words') + 1 /\ j = Len(words') + 1 /\ ending' = <<>>
  BY ONLY <1>4, <1>6, <1>8, <1>9
<1> QED
  BY ONLY <1>1, <1>4, <1>10 DEF WordsInv

\* The invariant holds in every state.
LEMMA WordsInvHolds == ShellWordsSpec => []WordsInv
<1>1. ShellWordsInit => WordsInv
  BY WordsInvInit
<1>2. WordsInv /\ [ParseCmd]_parseVars => WordsInv'
  <2> SUFFICES ASSUME WordsInv, [ParseCmd]_parseVars
               PROVE  WordsInv'
    OBVIOUS
  <2>1. CASE UNCHANGED parseVars
    BY <2>1 DEF parseVars, WordsInv
  <2>2. CASE ParseCmd
    <3>1. outcome = "more" /\ UNCHANGED <<words, ending>>
      BY <2>2 DEF ParseCmd
    <3>2. CASE Escape
      <4>1. Takes(2) /\ shell_cmd # <<>> /\ Head(shell_cmd) = Backslash
        BY <3>2 DEF Escape, NoneLeft, NextChar
      <4> QED
        BY ONLY WordsInv, <3>1, <4>1, WordsInvReads
    <3>3. CASE Plain \/ BlankInQuote
      <4>1. /\ Takes(1) /\ shell_cmd # <<>> /\ Head(shell_cmd) # Backslash /\ Head(shell_cmd) # Quote
            /\ in_quote \/ Head(shell_cmd) # Space
        BY <3>3, Chars DEF Plain, BlankInQuote, NoneLeft, NextChar
      <4> QED
        BY ONLY WordsInv, <3>1, <4>1, WordsInvReads
    <3>4. CASE CutWord
      BY ONLY WordsInv, <3>1, <3>4, WordsInvCut
    <3>5. CASE StrayQuote \/ OpenQuote
      BY ONLY WordsInv, <3>1, <3>5, WordsInvRefused
    <3>6. CASE Finish
      BY ONLY WordsInv, <3>1, <3>6, WordsInvFinish
    <3> QED
      BY <2>2, <3>2, <3>3, <3>4, <3>5, <3>6 DEF ParseCmd
  <2> QED
    BY <2>1, <2>2
<1> QED
  BY <1>1, <1>2, PTL DEF ShellWordsSpec

\* In whichever of their forms the words are written, quoted or bare, with any
\* blanks between them, the array holds them in order; NULL is returned for a
\* quote that is open or out of place, and for nothing else (proc_parsecmd.c).  A
\* bare word is none that begins with a line end, which is skipped as a blank.
THEOREM ArgumentsExactHold == ShellWordsSpec => []ArgumentsExact
<1>1. WordsInv => ArgumentsExact
  <2> SUFFICES ASSUME WordsInv
               PROVE  ArgumentsExact
    OBVIOUS
  <2>1. words \in Seq(Word) /\ (outcome = "error" => ending # <<>>)
    BY DEF WordsInv
  <2>2. PICK i \in 1 .. Len(words) + 1 :
          arr = SubSeq(words, 1, i - 1) /\ (outcome = "done" => i = Len(words) + 1 /\ ending = <<>>)
    BY DEF WordsInv
  <2>3. /\ Len(words) \in Nat /\ i - 1 \in Int /\ 1 \in Int /\ i - 1 \in 0 .. Len(words)
        /\ (i = Len(words) + 1 => i - 1 = Len(words))
    BY ONLY <2>1, i \in 1 .. Len(words) + 1
  <2>4. SubSeq(words, 1, Len(words)) = words
    BY ONLY <2>1, SubSeqFull
  <2>5. outcome = "done" => arr = words /\ ending = <<>>
    BY ONLY <2>2, <2>3, <2>4
  <2>6. IsPrefix(arr, words)
    <3>1. \A j \in 1 .. i - 1 : j \in 1 .. Len(words)
      BY ONLY <2>3
    <3>2. \A j \in 1 .. i - 1 : words[j] \in Word
      BY ONLY <2>1, <3>1
    <3>3. arr \in Seq(Word) /\ Len(arr) = IF 1 <= i - 1 THEN i - 1 - 1 + 1 ELSE 0
      BY ONLY <2>2, <2>3, <3>2, SubSeqProperties
    <3>4. Len(arr) = i - 1
      BY ONLY <2>3, <3>3
    <3>5. SubSeq(arr, 1, Len(arr)) = arr
      BY ONLY <3>3, SubSeqFull
    <3>6. Len(arr) <= Len(words) /\ SubSeq(words, 1, Len(arr)) = arr
      BY ONLY <2>2, <2>3, <3>4
    <3> QED
      BY ONLY <3>5, <3>6 DEF IsPrefix
  <2> QED
    BY ONLY <2>1, <2>5, <2>6 DEF ArgumentsExact
<1> QED
  BY <1>1, WordsInvHolds, PTL
=============================================================================
