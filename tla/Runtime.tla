------------------------------ MODULE Runtime ------------------------------
(***************************************************************************)
(* The run time of libpcl: pcl_init, the event handlers it sets up, the    *)
(* recursive mutex around them, pcl_thread and the error context each      *)
(* thread finds in thread-local storage (src/init, src/event, src/thread,  *)
(* src/error/err_ctx.c).                                                   *)
(*                                                                         *)
(* Registering and unregistering are one step each: they run under the     *)
(* mutex and touch nothing but the handler array.  A dispatch holds the    *)
(* mutex for as long as handlers run, so it is a frame with a step per     *)
(* handler, and a handler of the application may itself register,          *)
(* unregister, dispatch or create threads.  A call that has to wait for    *)
(* the mutex is pending in "call" until it gets it.                        *)
(***************************************************************************)
EXTENDS Naturals, Sequences, FiniteSets

CONSTANTS
  Thread,        \* every thread of the process, born or not
  Callers,       \* the threads that call pcl_init when the program starts
  Foreign,       \* threads not made by pcl_thread; they dispatch THREADINIT
  UserHandler,   \* handlers of the application
  NoThread,      \* the owner of a free mutex
  NoHandler,     \* "no handler is running in this dispatch"
  MaxOps         \* bound: registrations, removals and dispatches it asks for

ASSUME RuntimeAssumption ==
  /\ Callers \subseteq Thread /\ Foreign \subseteq Thread
  /\ Callers \cap Foreign = {}
  /\ NoThread \notin Thread
  /\ NoHandler \notin UserHandler \cup {"err", "time"}
  /\ "err" \notin UserHandler /\ "time" \notin UserHandler
  /\ MaxOps \in Nat

VARIABLES
  initialized,   \* pcl_initialized of pcl_init
  orig,          \* what each thread read in pcl_atomic_compare_exchange
  pc,            \* where each thread is
  lock,          \* event_context_lock: its owner and how often it holds it
  handlers,      \* event_context.handlers
  frames,        \* per thread, the dispatches it is in, the innermost last
  key,           \* ctxkey: how many keys pcl_tls_alloc has handed to it
  tls,           \* the key under which a thread stored its context, or 0
  contexts,      \* pcl_err_t objects a thread allocated and has not freed
  inits,         \* calls of ipcl_event_init
  call,          \* the library call a thread is in, waiting for the mutex
  ops            \* operations the application has asked for

vars == <<initialized, orig, pc, lock, handlers, frames, key, tls, contexts,
          inits, call, ops>>

Handler == UserHandler \cup {"err", "time"}
Event == {"INIT", "THREADINIT", "USER"}
NoCall == [name |-> "none", handler |-> NoHandler]
Call == {NoCall, [name |-> "dispatch", handler |-> NoHandler]}
        \cup [name : {"register", "unregister"}, handler : UserHandler]
Location == {"unborn", "foreign", "main", "cas", "setup", "registerErr",
             "registerTime", "dispatch", "started", "initializing", "app",
             "dead"}

(* A dispatch: its event, the loop index and the handler being run.  The   *)
(* last four fields are history: the handlers it began with, those it      *)
(* called, and which and how many were unregistered since it began.        *)
Frame == [event : Event, next : Nat \ {0}, running : Handler \cup {NoHandler},
          began : SUBSET Handler, called : SUBSET Handler,
          gone : SUBSET Handler, removed : Nat]

Members(s) == {s[i] : i \in 1 .. Len(s)}
Top(t) == frames[t][Len(frames[t])]
Popped(s) == SubSeq(s, 1, Len(s) - 1)
WithTop(s, f) == Append(Popped(s), f)

Init ==
  /\ initialized = 0
  /\ orig = [t \in Thread |-> 0]
  /\ pc = [t \in Thread |-> IF t \in Callers THEN "main"
                            ELSE IF t \in Foreign THEN "foreign" ELSE "unborn"]
  /\ lock = [owner |-> NoThread, depth |-> 0]
  /\ handlers = <<>>
  /\ frames = [t \in Thread |-> <<>>]
  /\ key = 0
  /\ tls = [t \in Thread |-> 0]
  /\ contexts = [t \in Thread |-> 0]
  /\ inits = 0
  /\ call = [t \in Thread |-> NoCall]
  /\ ops = 0

-----------------------------------------------------------------------------
(* The recursive mutex (pcl_mutex_init, pcl_mutex_lock, pcl_mutex_unlock). *)
\* A mutex of the default type would not let its owner in again.
NotRecursive(t) == lock.owner = NoThread
NotExclusive(t) == TRUE
CanLock(t) == lock.owner \in {t, NoThread}

Locked(t) == [owner |-> t, depth |-> lock.depth + 1]

ReleaseForgetsDepth ==
  [owner |-> NoThread, depth |-> IF lock.depth > 0 THEN lock.depth - 1 ELSE 0]
Unlocked == IF lock.depth = 1 THEN [owner |-> NoThread, depth |-> 0]
            ELSE [owner |-> lock.owner, depth |-> lock.depth - 1]

-----------------------------------------------------------------------------
(* pcl_init.  pcl_atomic_compare_exchange reads *dest, then exchanges, and *)
(* returns what it read: two steps that another thread may come between.   *)
Go(t, from, to) == pc[t] = from /\ pc' = [pc EXCEPT ![t] = to]

InitRead(t) ==
  /\ Go(t, "main", "cas")
  /\ orig' = [orig EXCEPT ![t] = initialized]
  /\ UNCHANGED <<initialized, lock, handlers, frames, key, tls, contexts,
                 inits, call, ops>>

InitExchange(t) ==
  /\ Go(t, "cas", IF orig[t] = 0 THEN "setup" ELSE "app")
  /\ initialized' = 1
  /\ UNCHANGED <<orig, lock, handlers, frames, key, tls, contexts, inits, call, ops>>

\* ipcl_event_init: a new mutex and a new array.
EventInit(t) ==
  /\ Go(t, "setup", "registerErr")
  /\ lock' = [owner |-> NoThread, depth |-> 0]
  /\ handlers' = <<>>
  /\ inits' = inits + 1
  /\ UNCHANGED <<initialized, orig, frames, key, tls, contexts, call, ops>>

RegisterBuiltin(t, h, from, to) ==
  /\ Go(t, from, to)
  /\ CanLock(t)
  /\ handlers' = Append(handlers, h)
  /\ UNCHANGED <<initialized, orig, lock, frames, key, tls, contexts, inits,
                 call, ops>>

-----------------------------------------------------------------------------
(* pcl_event_dispatch. *)
NewFrame(e) ==
  [event |-> e, next |-> 1, running |-> NoHandler, began |-> Members(handlers),
   called |-> {}, gone |-> {}, removed |-> 0]

BeginDispatch(t, e) ==
  /\ CanLock(t)
  /\ lock' = Locked(t)
  /\ frames' = [frames EXCEPT ![t] = Append(@, NewFrame(e))]

\* The thread is in the loop of its innermost dispatch, between two handlers.
Looping(t) == frames[t] # <<>> /\ Top(t).running = NoHandler

\* handler(which, data) for a handler of the library, which returns at once.
NextCalled(f) == [event |-> f.event, next |-> f.next + 1, running |-> NoHandler,
                  began |-> f.began, called |-> f.called \cup {handlers[f.next]},
                  gone |-> f.gone, removed |-> f.removed]

\* A handler of the application is called, and returns.
Calling(f, h) ==
  [event |-> f.event, next |-> f.next, running |-> h, began |-> f.began,
   called |-> f.called \cup {h}, gone |-> f.gone, removed |-> f.removed]
Returned(f) ==
  [event |-> f.event, next |-> f.next + 1, running |-> NoHandler,
   began |-> f.began, called |-> f.called, gone |-> f.gone, removed |-> f.removed]

\* The events on which ipcl_err_handler gives the thread an error context.
InitOnly(e) == e = "INIT"
EveryEvent(e) == TRUE
MakesContext(e) == e \in {"INIT", "THREADINIT"}

\* ipcl_err_handler and ipcl_time_handler (the latter only reads the zone).
CallBuiltin(t) ==
  /\ Looping(t)
  /\ Top(t).next <= Len(handlers)
  /\ handlers[Top(t).next] \in {"err", "time"}
  /\ frames' = [frames EXCEPT ![t] = WithTop(@, NextCalled(Top(t)))]
  /\ LET e == Top(t).event
         err == handlers[Top(t).next] = "err"
     IN /\ key' = IF err /\ e = "INIT" THEN key + 1 ELSE key
        /\ tls' = IF err /\ MakesContext(e)
                  THEN [tls EXCEPT ![t] = key'] ELSE tls
        /\ contexts' = IF err /\ MakesContext(e)
                       THEN [contexts EXCEPT ![t] = @ + 1] ELSE contexts
  /\ UNCHANGED <<initialized, orig, pc, lock, handlers, inits, call, ops>>

\* A handler of the application starts; what it does are actions below.
CallUser(t) ==
  /\ Looping(t)
  /\ Top(t).next <= Len(handlers)
  /\ handlers[Top(t).next] \in UserHandler
  /\ frames' = [frames EXCEPT ![t] =
       WithTop(@, Calling(Top(t), handlers[Top(t).next]))]
  /\ UNCHANGED <<initialized, orig, pc, lock, handlers, key, tls, contexts,
                 inits, call, ops>>

HandlerReturns(t) ==
  /\ frames[t] # <<>>
  /\ Top(t).running # NoHandler
  /\ call[t] = NoCall
  /\ frames' = [frames EXCEPT ![t] = WithTop(@, Returned(Top(t)))]
  /\ UNCHANGED <<initialized, orig, pc, lock, handlers, key, tls, contexts,
                 inits, call, ops>>

\* The index has passed the last handler.
StopsEarly(f) == f.next >= Len(handlers)
LoopDone(f) == f.next > Len(handlers)

EndDispatch(t) ==
  /\ Looping(t)
  /\ LoopDone(Top(t))
  /\ frames' = [frames EXCEPT ![t] = Popped(@)]
  /\ lock' = Unlocked
  /\ pc' = [pc EXCEPT ![t] = IF @ = "initializing" THEN "app" ELSE @]
  /\ UNCHANGED <<initialized, orig, handlers, key, tls, contexts, inits, call, ops>>

\* The last call of pcl_init, the first of thread_start_wrapper and of a
\* foreign thread's start routine.  A foreign thread waits for pcl_init.
FirstDispatch(t, from, e) ==
  /\ Go(t, from, "initializing")
  /\ from = "foreign" => \E m \in Callers : pc[m] = "app"
  /\ BeginDispatch(t, e)
  /\ UNCHANGED <<initialized, orig, handlers, key, tls, contexts, inits, call, ops>>

-----------------------------------------------------------------------------
(* What the application does, in a thread's routine or in a handler. *)
Free(t) ==
  /\ call[t] = NoCall
  /\ \/ pc[t] = "app" /\ frames[t] = <<>>
     \/ frames[t] # <<>> /\ Top(t).running \in UserHandler

Asks(t, c) ==
  /\ Free(t)
  /\ ops < MaxOps /\ ops' = ops + 1
  /\ call' = [call EXCEPT ![t] = c]
  /\ UNCHANGED <<initialized, orig, pc, lock, handlers, frames, key, tls,
                 contexts, inits>>

\* The pending call gets the mutex and is carried out.
Serve(t, name) ==
  /\ call[t].name = name
  /\ CanLock(t)
  /\ call' = [call EXCEPT ![t] = NoCall]

EventRegister(t) ==
  /\ Serve(t, "register")
  /\ handlers' = Append(handlers, call[t].handler)
  /\ UNCHANGED <<initialized, orig, pc, lock, frames, key, tls, contexts, inits,
                 ops>>

\* pcl_array_indexof and pcl_array_remove.
FirstIndex(h) == CHOOSE i \in 1 .. Len(handlers) :
  handlers[i] = h /\ \A j \in 1 .. i - 1 : handlers[j] # h
Without(i) == [j \in 1 .. Len(handlers) - 1 |->
                 IF j < i THEN handlers[j] ELSE handlers[j + 1]]

\* The history of the dispatches that a removal happens in.
Unregistered(f, h) ==
  [event |-> f.event, next |-> f.next, running |-> f.running, began |-> f.began,
   called |-> f.called, gone |-> f.gone \cup {h}, removed |-> f.removed + 1]
Removed(s, h) == [i \in 1 .. Len(s) |-> Unregistered(s[i], h)]

EventUnregister(t) ==
  /\ Serve(t, "unregister")
  /\ LET h == call[t].handler
     IN IF h \in Members(handlers)
        THEN /\ handlers' = Without(FirstIndex(h))
             /\ frames' = [frames EXCEPT ![t] = Removed(@, h)]
        ELSE UNCHANGED <<handlers, frames>>
  /\ UNCHANGED <<initialized, orig, pc, lock, key, tls, contexts, inits, ops>>

EventDispatch(t) ==
  /\ Serve(t, "dispatch")
  /\ BeginDispatch(t, "USER")
  /\ UNCHANGED <<initialized, orig, pc, handlers, key, tls, contexts, inits, ops>>

\* pcl_thread: pthread_create succeeds and u will run thread_start_wrapper.
CreateThread(t, u) ==
  /\ Free(t)
  /\ Go(u, "unborn", "started")
  /\ UNCHANGED <<initialized, orig, lock, handlers, frames, key, tls, contexts,
                 inits, call, ops>>

\* A thread's routine returns; ctx_destroy frees the value of its key.
NothingFreed(t) == contexts[t]
AfterDestroy(t) == IF tls[t] # 0 /\ tls[t] = key THEN contexts[t] - 1
                   ELSE contexts[t]

RoutineReturns(t) ==
  /\ t \notin Callers
  /\ frames[t] = <<>> /\ call[t] = NoCall
  /\ Go(t, "app", "dead")
  /\ contexts' = [contexts EXCEPT ![t] = AfterDestroy(t)]
  /\ tls' = [tls EXCEPT ![t] = 0]
  /\ UNCHANGED <<initialized, orig, lock, handlers, frames, key, inits, call, ops>>

-----------------------------------------------------------------------------
PclInit(t) ==
  \/ InitRead(t)
  \/ InitExchange(t)
  \/ EventInit(t)
  \/ RegisterBuiltin(t, "err", "registerErr", "registerTime")
  \/ RegisterBuiltin(t, "time", "registerTime", "dispatch")
  \/ FirstDispatch(t, "dispatch", "INIT")

EventStep(t) ==
  \/ EventRegister(t)
  \/ EventUnregister(t)
  \/ EventDispatch(t)
  \/ CallBuiltin(t)
  \/ CallUser(t)
  \/ HandlerReturns(t)
  \/ EndDispatch(t)

Application(t) ==
  \/ \E c \in Call \ {NoCall} : Asks(t, c)
  \/ \E u \in Thread : CreateThread(t, u)
  \/ RoutineReturns(t)

ThreadStarts(t) ==
  \/ FirstDispatch(t, "started", "THREADINIT")
  \/ FirstDispatch(t, "foreign", "THREADINIT")

Next == \E t \in Thread :
  PclInit(t) \/ EventStep(t) \/ ThreadStarts(t) \/ Application(t)

Spec == Init /\ [][Next]_vars

(* Threads that can run do run, and a handler of the application returns;  *)
(* the application itself need not ask for anything.                       *)
Fairness == \A t \in Thread :
  WF_vars(PclInit(t)) /\ WF_vars(EventStep(t)) /\ WF_vars(ThreadStarts(t))

FairSpec == Spec /\ Fairness

-----------------------------------------------------------------------------
\* The types of the variables; a mutex has an owner iff it is held.
TypeOK ==
  /\ initialized \in {0, 1}
  /\ orig \in [Thread -> {0, 1}]
  /\ pc \in [Thread -> Location]
  /\ lock \in [owner : Thread \cup {NoThread}, depth : Nat]
  /\ lock.owner = NoThread <=> lock.depth = 0
  /\ handlers \in Seq(Handler)
  /\ frames \in [Thread -> Seq(Frame)]
  /\ key \in Nat
  /\ tls \in [Thread -> Nat]
  /\ contexts \in [Thread -> Nat]
  /\ inits \in Nat
  /\ call \in [Thread -> Call]
  /\ ops \in 0 .. MaxOps

\* Only the thread that holds the event mutex is inside a dispatch, and it
\* holds the mutex once per dispatch it is in: a handler that dispatches again
\* neither deadlocks with its own thread nor gives the mutex away early
\* (event_context.c, mutex_init.c).
LockOK ==
  /\ \A t \in Thread : frames[t] # <<>> => lock.owner = t
  /\ lock.owner # NoThread => lock.depth = Len(frames[lock.owner])

\* While application code runs in a thread that is past its initialisation,
\* pcl_err_get finds exactly one error context for it, whatever handlers the
\* application registers and unregisters; a thread that is gone left none
\* (err_ctx.c, thread.c).
ContextOK == \A t \in Thread :
  /\ pc[t] = "app" => tls[t] = key /\ key > 0 /\ contexts[t] = 1
  /\ pc[t] = "dead" => contexts[t] = 0

\* A dispatch that returns has called every handler that was registered when
\* it began and stayed registered, except that each handler unregistered
\* meanwhile may have made the loop skip one other (event_dispatch.c's index
\* does not follow the array that event_unregister.c moves).
DispatchReaches ==
  [][\A t \in Thread : Len(frames'[t]) < Len(frames[t]) =>
       Cardinality(Top(t).began \ (Top(t).called \cup Top(t).gone))
         <= Top(t).removed]_vars

\* Every call of the event API returns: a handler that calls back into it does
\* not wait for its own thread, no thread waits for the mutex forever, and a
\* thread that begins gets to its routine (mutex_init.c:44, thread.c:51).
EventCallsReturn == \A t \in Thread :
  /\ call[t] # NoCall \/ frames[t] # <<>>
       ~> call[t] = NoCall /\ frames[t] = <<>>
  /\ pc[t] \in {"started", "foreign", "dispatch"} ~> pc[t] = "app"

\* ipcl_event_init is "only called once from pcl_init" (event/_event.h:47).
EventInitOnce == inits <= 1
=============================================================================
